--------------------------- MODULE RelayHandshake ---------------------------
(***************************************************************************)
(* Two peers that reach each other through relays agree on a session key.  *)
(* A peer with a packet to send and no session buffers the packet and      *)
(* starts a handshake of up to MaxAttempts calls, each a message 1 that    *)
(* the other peer answers with a message 2.  Both may start at once; the   *)
(* peer with the smaller id is then to stay the initiator.                 *)
(*                                                                         *)
(* A session is its root key: its generation is always 1 here, as every    *)
(* session is created with it.  Numbers that name attempts and keys are    *)
(* reused once nothing refers to them.                                     *)
(***************************************************************************)
EXTENDS Naturals, FiniteSets

CONSTANTS
    Senders,        \* peers that have packets to send
    MaxAttempts,    \* HANDSHAKE_MAX_ATTEMPTS
    MaxPending,     \* MAX_PENDING_PACKETS_PER_PEER
    FailThreshold,  \* decryption failures that end a session
    Ids, Keys,      \* names of attempts and keys
    MaxLost,        \* bound: messages lost
    MaxLate,        \* bound: waits that end before the messages waited for arrive
    MaxEvicted      \* bound: sessions evicted from the store

VARIABLES
    key,       \* key[n]: the session's root key, 0 for no session
    bad,       \* bad[n]: decryption failures in a row
    task,      \* task[n]: the handshake task, which holds the handshake lock
    pend,      \* pend[n]: the attempt in pending_handshakes, 0 for none
    reply,     \* reply[n]: a message 1 between the race check and its answer
    backoff,   \* backoff[n]: next_retry_at is in the future
    sending,   \* sending[n]: a packet between ensure_session and the buffer
    buf,       \* buf[n]: number of buffered packets
    net,       \* messages in flight
    budget

vars == <<key, bad, task, pend, reply, backoff, sending, buf, net, budget>>

Peer == {1, 2}
Other(n) == 3 - n
None == [type |-> "none"]
Free == [pc |-> "free", attempt |-> 0, id |-> 0, got |-> None]

Init ==
    /\ key = [n \in Peer |-> 0]
    /\ bad = [n \in Peer |-> 0]
    /\ task = [n \in Peer |-> Free]
    /\ pend = [n \in Peer |-> 0]
    /\ reply = [n \in Peer |-> None]
    /\ backoff = [n \in Peer |-> FALSE]
    /\ sending = [n \in Peer |-> FALSE]
    /\ buf = [n \in Peer |-> 0]
    /\ net = {}
    /\ budget = [lost |-> MaxLost, late |-> MaxLate, evicted |-> MaxEvicted]

\* Names that nothing refers to any more.
Least(S) == CHOOSE i \in S : \A j \in S : i <= j
FreshId == Least(Ids \ ({task[n].id : n \in Peer} \cup {m.id : m \in {x \in net : x.type # "data"}}
                        \cup {reply[n].id : n \in {x \in Peer : reply[x] # None}}))
FreshKey == Least(Keys \ ({key[n] : n \in Peer} \cup {m.key : m \in {x \in net : x.type # "msg1"}}
                          \cup {task[n].got.key : n \in {x \in Peer : task[x].got # None}}))

----------------------------------------------------------------------------
(* Sending packets *)

\* ensure_session without a session: the task is started unless one runs.
Started(n) == IF task[n].pc = "free" THEN [task EXCEPT ![n].pc = "start"] ELSE task

Data(n) == [type |-> "data", from |-> n, key |-> key[n]]

\* send_msg: with a session the packet goes out, without one it is on its way
\* to the buffer ...
Send(n) ==
    /\ n \in Senders /\ ~ sending[n]
    /\ IF key[n] # 0
       THEN net' = net \cup {Data(n)} /\ UNCHANGED <<task, sending>>
       ELSE /\ task' = Started(n)
            /\ sending' = [sending EXCEPT ![n] = TRUE]
            /\ UNCHANGED net
    /\ UNCHANGED <<key, bad, pend, reply, backoff, buf, budget>>

\* Fault: the buffer has no limit.
BufferUnlimited(n) ==
    /\ sending[n]
    /\ sending' = [sending EXCEPT ![n] = FALSE]
    /\ buf' = [buf EXCEPT ![n] = @ + 1]
    /\ UNCHANGED <<key, bad, task, pend, reply, backoff, net, budget>>

\* ... which it reaches in a step of its own, and is dropped if that is full.
Buffer(n) ==
    /\ sending[n]
    /\ sending' = [sending EXCEPT ![n] = FALSE]
    /\ buf' = [buf EXCEPT ![n] = IF @ < MaxPending THEN @ + 1 ELSE @]
    /\ UNCHANGED <<key, bad, task, pend, reply, backoff, net, budget>>

\* flush_pending_packets with the session key k.
Flushed(n, k) == IF buf[n] = 0 THEN {} ELSE {[type |-> "data", from |-> n, key |-> k]}

\* Fault: a packet without a session starts no handshake.
ReceiveNoHandshake(m) ==
    /\ m \in net /\ m.type = "data"
    /\ LET n == Other(m.from)
       IN /\ bad' = [bad EXCEPT ![n] = IF key[n] \in {0, m.key} \/ @ + 1 = FailThreshold
                                       THEN 0 ELSE @ + 1]
          /\ key' = [key EXCEPT ![n] = IF key[n] \notin {0, m.key} /\ bad[n] + 1 = FailThreshold
                                       THEN 0 ELSE @]
    /\ net' = net \ {m}
    /\ UNCHANGED <<task, pend, reply, backoff, sending, buf, budget>>

\* decrypt_if_needed: without a session the packet is dropped and a handshake
\* started; a session that fails FailThreshold times in a row is invalidated.
Receive(m) ==
    /\ m \in net /\ m.type = "data"
    /\ LET n == Other(m.from)
       IN /\ task' = IF key[n] = 0 THEN Started(n) ELSE task
          /\ bad' = [bad EXCEPT ![n] = IF key[n] \in {0, m.key} \/ @ + 1 = FailThreshold
                                       THEN 0 ELSE @ + 1]
          /\ key' = [key EXCEPT ![n] = IF key[n] \notin {0, m.key} /\ bad[n] + 1 = FailThreshold
                                       THEN 0 ELSE @]
    /\ net' = net \ {m}
    /\ UNCHANGED <<pend, reply, backoff, sending, buf, budget>>

----------------------------------------------------------------------------
(* The initiator *)

\* handshake_session_once up to its wait.
Attempt(n, i) ==
    LET id == FreshId
    IN /\ task' = [task EXCEPT ![n] = [pc |-> "wait", attempt |-> i, id |-> id, got |-> None]]
       /\ pend' = [pend EXCEPT ![n] = id]
       /\ net' = net \cup {[type |-> "msg1", from |-> n, id |-> id, has |-> key[n] # 0]}

\* handshake_session: another session or the backoff end it early.
Start(n) ==
    /\ task[n].pc = "start"
    /\ IF key[n] # 0 \/ backoff[n]
       THEN /\ net' = net \cup (IF key[n] # 0 THEN Flushed(n, key[n]) ELSE {})
            /\ buf' = [buf EXCEPT ![n] = 0]
            /\ task' = [task EXCEPT ![n] = Free]
            /\ UNCHANGED pend
       ELSE Attempt(n, 1) /\ UNCHANGED buf
    /\ UNCHANGED <<key, bad, reply, backoff, sending, budget>>

\* The messages of n's attempts that are on their way, or answers to them.
InFlight(n) ==
    {m \in net \cup {reply[Other(n)]} :
        (m.type = "msg1" /\ m.from = n) \/ (m.type = "msg2" /\ m.from # n)}

\* A wait outlasts the messages M waited for: they have arrived or are lost,
\* but for MaxLate times.
Outlasts(M) ==
    /\ M = {} \/ budget.late > 0
    /\ budget' = [budget EXCEPT !.late = IF M = {} THEN @ ELSE @ - 1]

\* The sleep between two attempts is over.
Retry(n) ==
    /\ task[n].pc = "sleep"
    /\ Outlasts(InFlight(n))
    /\ Attempt(n, task[n].attempt + 1)
    /\ UNCHANGED <<key, bad, reply, backoff, sending, buf>>

\* An attempt fails; after the last one buffered packets are dropped.
Failed(n) ==
    /\ backoff' = [backoff EXCEPT ![n] = TRUE]
    /\ IF task[n].attempt < MaxAttempts
       THEN /\ task' = [task EXCEPT ![n] = [Free EXCEPT !.pc = "sleep", !.attempt = task[n].attempt]]
            /\ UNCHANGED buf
       ELSE /\ task' = [task EXCEPT ![n] = Free]
            /\ buf' = [buf EXCEPT ![n] = 0]

\* The attempt times out: its messages are lost or late.
Timeout(n) ==
    /\ task[n].pc = "wait" /\ pend[n] = task[n].id
    /\ Outlasts({m \in InFlight(n) : m.id = task[n].id})
    /\ pend' = [pend EXCEPT ![n] = 0]
    /\ Failed(n)
    /\ UNCHANGED <<key, bad, reply, sending, net>>

\* The attempt was cancelled by the responder part.
Cancelled(n) ==
    /\ task[n].pc = "wait" /\ pend[n] = 0 /\ task[n].got = None
    /\ Failed(n)
    /\ UNCHANGED <<key, bad, pend, reply, sending, net, budget>>

\* A message 2 reaches whichever attempt waits.
ReceiveAck(m) ==
    /\ m \in net /\ m.type = "msg2"
    /\ LET n == Other(m.from)
       IN IF pend[n] # 0
          THEN /\ pend' = [pend EXCEPT ![n] = 0]
               /\ task' = [task EXCEPT ![n].got = m]
          ELSE UNCHANGED <<pend, task>>
    /\ net' = net \ {m}
    /\ UNCHANGED <<key, bad, reply, backoff, sending, buf, budget>>

\* The waiting attempt takes the message: one for another attempt cannot be
\* decoded, one that joins a session needs that session.
Finish(n) ==
    /\ task[n].pc = "wait" /\ task[n].got # None
    /\ LET m == task[n].got
           k == IF m.key = 0 THEN key[n] ELSE m.key
       IN IF m.id = task[n].id /\ k # 0
          THEN /\ key' = [key EXCEPT ![n] = k]
               /\ backoff' = [backoff EXCEPT ![n] = FALSE]
               /\ net' = net \cup Flushed(n, k)
               /\ buf' = [buf EXCEPT ![n] = 0]
               /\ task' = [task EXCEPT ![n] = Free]
          ELSE Failed(n) /\ UNCHANGED <<key, net>>
    /\ UNCHANGED <<bad, pend, reply, sending, budget>>

----------------------------------------------------------------------------
(* The responder *)

\* handle_relay_msg1, up to the await for the initiator's static key.
ReceiveMsg1(m) ==
    /\ m \in net /\ m.type = "msg1"
    /\ LET n == Other(m.from)
           keeps == pend[n] # 0 /\ n < m.from
       IN /\ reply[n] = None
          /\ pend' = [pend EXCEPT ![n] = IF keeps THEN @ ELSE 0]
          /\ reply' = [reply EXCEPT ![n] = IF keeps THEN None ELSE m]
    /\ net' = net \ {m}
    /\ UNCHANGED <<key, bad, task, backoff, sending, buf, budget>>

\* upsert_responder_session, the answer, and the buffered packets.
Respond(n) ==
    /\ reply[n] # None
    /\ LET k == IF key[n] = 0 THEN FreshKey ELSE key[n]
           join == key[n] # 0 /\ reply[n].has
       IN /\ key' = [key EXCEPT ![n] = k]
          /\ bad' = [bad EXCEPT ![n] = IF key[n] = 0 THEN 0 ELSE @]
          /\ net' = net \cup Flushed(n, k) \cup
                {[type |-> "msg2", from |-> n, id |-> reply[n].id, key |-> IF join THEN 0 ELSE k]}
    /\ backoff' = [backoff EXCEPT ![n] = FALSE]
    /\ buf' = [buf EXCEPT ![n] = 0]
    /\ reply' = [reply EXCEPT ![n] = None]
    /\ UNCHANGED <<task, pend, sending, budget>>

----------------------------------------------------------------------------
(* Time and the network *)

\* next_retry_at has passed.
BackoffEnds(n) ==
    /\ backoff[n]
    /\ Outlasts(InFlight(n))
    /\ backoff' = [backoff EXCEPT ![n] = FALSE]
    /\ UNCHANGED <<key, bad, task, pend, reply, sending, buf, net>>

Lose(m) ==
    /\ m \in net /\ budget.lost > 0
    /\ net' = net \ {m}
    /\ budget' = [budget EXCEPT !.lost = @ - 1]
    /\ UNCHANGED <<key, bad, task, pend, reply, backoff, sending, buf>>

\* evict_unused_sessions: no connection uses the session of a relayed peer.
EvictSession(n) ==
    /\ key[n] # 0 /\ budget.evicted > 0
    /\ key' = [key EXCEPT ![n] = 0]
    /\ bad' = [bad EXCEPT ![n] = 0]
    /\ budget' = [budget EXCEPT !.evicted = @ - 1]
    /\ UNCHANGED <<task, pend, reply, backoff, sending, buf, net>>

Next ==
    \/ \E n \in Peer :
          \/ Send(n) \/ Buffer(n) \/ Start(n) \/ Retry(n) \/ Timeout(n) \/ Cancelled(n)
          \/ Finish(n) \/ Respond(n) \/ BackoffEnds(n) \/ EvictSession(n)
    \/ \E m \in net : Receive(m) \/ ReceiveAck(m) \/ ReceiveMsg1(m) \/ Lose(m)

Spec == Init /\ [][Next]_vars

\* The tasks run on, timers fire and messages that are not lost arrive; a sender
\* keeps having packets to send.
Fairness ==
    /\ \A n \in Peer :
        /\ WF_vars(Send(n)) /\ WF_vars(Buffer(n)) /\ WF_vars(Start(n)) /\ WF_vars(Retry(n))
        /\ WF_vars(Timeout(n)) /\ WF_vars(Cancelled(n)) /\ WF_vars(Finish(n))
        /\ WF_vars(Respond(n)) /\ WF_vars(BackoffEnds(n))
        /\ WF_vars(\E m \in net : m.from = n /\ m.type = "data" /\ Receive(m))
        /\ WF_vars(\E m \in net : m.from = n /\ ReceiveAck(m))
        /\ WF_vars(\E m \in net : m.from = n /\ ReceiveMsg1(m))

----------------------------------------------------------------------------
(* Properties *)

\* Names stay within those of the instance and the buffer within its limit.
TypeOK ==
    /\ key \in [Peer -> {0} \cup Keys] /\ bad \in [Peer -> 0 .. FailThreshold - 1]
    /\ pend \in [Peer -> {0} \cup Ids] /\ buf \in [Peer -> 0 .. MaxPending]
    /\ \A n \in Peer : task[n].attempt \in 0 .. MaxAttempts /\ task[n].id \in {0} \cup Ids
    /\ backoff \in [Peer -> BOOLEAN] /\ sending \in [Peer -> BOOLEAN]

\* pending_handshakes holds nothing but the attempt that the task of the peer waits
\* for and that has no answer yet: whoever answers, cancels or times out an attempt
\* leaves no entry behind that would take the answer meant for a later one.
OwnAttempt ==
    \A n \in Peer : pend[n] # 0 =>
        task[n].pc = "wait" /\ pend[n] = task[n].id /\ task[n].got = None

\* While one of two relayed peers keeps sending, both come to hold the same
\* session for good: lost and late handshake messages, sessions evicted on one
\* side, and the handshakes both sides then start, do not leave them with keys
\* that differ.
SessionsMeet == <>[](key[1] # 0 /\ key[1] = key[2])
=============================================================================
