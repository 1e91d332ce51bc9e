----------------------------- MODULE KeepAlive -----------------------------
(***************************************************************************)
(* PeerConnPinger: how a connection notices that its peer is silent.       *)
(*                                                                         *)
(* A controller ticks once a second and starts a ping task when the        *)
(* backoff says so; a ping task writes its ping into the tunnel's send     *)
(* channel and then waits two seconds for the pong; the main loop takes    *)
(* the tasks' results, counts the losses, forgets them when any packet has *)
(* come in since it last looked, and gives the connection up at MaxLoss.   *)
(* Counters of packets are kept as "has it moved since it was last read".  *)
(* Time passes by the controller's ticks only: a pending ping may time out *)
(* at any moment, so every relative speed of the tasks is covered.         *)
(***************************************************************************)
EXTENDS Integers, FiniteSets, Sequences

CONSTANTS
    MaxLoss,     \* losses that end the connection (5 in the code)
    MaxPending,  \* ping tasks the controller lets be pending (6 in the code)
    ResultCap    \* capacity of the result channel (100 in the code)

VARIABLES
    remote,    \* whether the other side still sends
    sink,      \* the send channel: "flows", "stuck" or "shut"
    since,     \* logic_time - last_send_logic_time
    backoff,   \* backoff_idx
    moved,     \* moved.tx, moved.rx: throughput against last_throughput
    sending,   \* ping tasks waiting for room in the send channel
    waiting,   \* ping tasks waiting for their pong
    results,   \* the result channel: TRUE a pong, FALSE a loss
    loss,      \* loss_counter
    heard,     \* rx_packets differs from last_rx_packets
    pc,        \* the main loop: "recv", "reread" or "closed"
    quiet,     \* history: losses counted since the last packet came in
    missed     \* history: a packet came in between the loop's two reads

vars == <<remote, sink, since, backoff, moved, sending, waiting, results, loss, heard, pc, quiet, missed>>

\* max_backoff_idx
MaxBackoff == 2
Least(a, b) == IF a < b THEN a ELSE b

Init ==
    /\ remote = "up" /\ sink = "flows"
    /\ since = 0 /\ backoff = 0 /\ moved = [tx |-> FALSE, rx |-> FALSE]
    /\ sending = 0 /\ waiting = 0
    /\ results = <<>>
    /\ loss = 0 /\ heard = FALSE /\ pc = "recv"
    /\ quiet = 0 /\ missed = FALSE

----------------------------------------------------------------------------
(* The controller *)

\* should_send_ping: losses, or sending without hearing, end the backoff.
Eager == loss > 0 \/ (moved.tx /\ ~ moved.rx)

\* One tick: the ping is due after 2^backoff ticks; the next one backs off
\* further, or, by the code's coin, not quite as far.
Tick ==
    LET was == IF Eager THEN 0 ELSE backoff
        due == since + 1 >= 2 ^ was
        up  == Least(was + 1, MaxBackoff)
    IN /\ pc # "closed"
       /\ sending + waiting < MaxPending
       /\ moved' = [tx |-> FALSE, rx |-> FALSE]
       /\ IF due
          THEN /\ since' = 0
               /\ backoff' \in {up} \cup (IF up > MaxBackoff - 2 THEN {up - 1} ELSE {})
               /\ sending' = sending + 1
          ELSE /\ since' = since + 1 /\ backoff' = was /\ UNCHANGED sending
       /\ UNCHANGED <<remote, sink, waiting, results, loss, heard, pc, quiet, missed>>

----------------------------------------------------------------------------
(* A ping task *)

\* The channel takes the ping; a stuck tunnel still lets the channel fill up.
Send ==
    /\ sending > 0
    /\ sink # "shut"
    /\ sending' = sending - 1 /\ waiting' = waiting + 1
    /\ moved' = [moved EXCEPT !.tx = TRUE]
    /\ UNCHANGED <<remote, sink, since, backoff, results, loss, heard, pc, quiet, missed>>

\* The result of a task; after the loop has closed the channel it goes nowhere.
Report(ok) ==
    /\ pc # "closed" /\ Len(results) < ResultCap
    /\ results' = Append(results, ok)

\* A packet of the peer comes in: the recv loop has counted it.
Heard ==
    /\ moved' = [moved EXCEPT !.rx = TRUE]
    /\ heard' = TRUE
    /\ quiet' = 0
    /\ missed' = (missed \/ pc = "reread")

Answered ==
    /\ waiting > 0 /\ remote = "up" /\ sink = "flows"
    /\ waiting' = waiting - 1
    /\ Report(TRUE)
    /\ Heard
    /\ UNCHANGED <<remote, sink, since, backoff, sending, loss, pc>>

\* The two seconds are over ...
Lost ==
    /\ waiting > 0
    /\ waiting' = waiting - 1
    /\ Report(FALSE)
    /\ UNCHANGED <<remote, sink, since, backoff, moved, sending, loss, heard, pc, quiet, missed>>

\* Fault: a task whose send fails ends without a result.
SendFailsSilently ==
    /\ sending > 0 /\ sink = "shut"
    /\ sending' = sending - 1
    /\ UNCHANGED <<remote, sink, since, backoff, moved, waiting, results, loss, heard, pc, quiet, missed>>

\* ... or the channel has been closed.
SendFails ==
    /\ sending > 0 /\ sink = "shut"
    /\ sending' = sending - 1
    /\ Report(FALSE)
    /\ UNCHANGED <<remote, sink, since, backoff, moved, waiting, loss, heard, pc, quiet, missed>>

----------------------------------------------------------------------------
(* The main loop *)

\* Fault: the counter is not reset when packets have come in.
HandleNoReset ==
    LET lost == IF Head(results) THEN 0 ELSE 1
        n    == loss + lost
    IN /\ pc = "recv"
       /\ results # <<>>
       /\ results' = Tail(results)
       /\ loss' = n
       /\ quiet' = Least(quiet + lost, MaxLoss)
       /\ missed' = (missed /\ ~ heard)
       /\ pc' = IF n >= MaxLoss THEN "closed" ELSE "reread"
       /\ UNCHANGED <<remote, sink, since, backoff, moved, sending, waiting, heard>>

\* One result: a loss counts, a packet since the last look resets the counter,
\* and at MaxLoss the loop ends and closes the result channel.
Handle ==
    LET lost == IF Head(results) THEN 0 ELSE 1
        n    == IF heard THEN 0 ELSE loss + lost
    IN /\ pc = "recv"
       /\ results # <<>>
       /\ results' = Tail(results)
       /\ loss' = n
       /\ quiet' = Least(quiet + lost, MaxLoss)
       /\ missed' = (missed /\ ~ heard)
       /\ pc' = IF n >= MaxLoss THEN "closed" ELSE "reread"
       /\ UNCHANGED <<remote, sink, since, backoff, moved, sending, waiting, heard>>

\* last_rx_packets is read again, after the comparison and the log lines.
Reread ==
    /\ pc = "reread"
    /\ pc' = "recv"
    /\ heard' = FALSE
    /\ UNCHANGED <<remote, sink, since, backoff, moved, sending, waiting, results, loss, quiet, missed>>

----------------------------------------------------------------------------
(* The peer and the tunnel *)

OtherPacket ==
    /\ remote = "up" /\ pc # "closed"
    /\ Heard
    /\ UNCHANGED <<remote, sink, since, backoff, sending, waiting, results, loss, pc>>

GoSilent ==
    /\ remote = "up"
    /\ remote' = "gone"
    /\ UNCHANGED <<sink, since, backoff, moved, sending, waiting, results, loss, heard, pc, quiet, missed>>

Block ==
    /\ sink = "flows" /\ sink' = "stuck"
    /\ UNCHANGED <<remote, since, backoff, moved, sending, waiting, results, loss, heard, pc, quiet, missed>>

Unblock ==
    /\ sink = "stuck" /\ remote = "up" /\ sink' = "flows"
    /\ UNCHANGED <<remote, since, backoff, moved, sending, waiting, results, loss, heard, pc, quiet, missed>>

\* A write that takes seven seconds ends the forwarder, which closes the
\* channel: senders waiting for room fail.
SendTimeout ==
    /\ sink = "stuck" /\ sink' = "shut"
    /\ UNCHANGED <<remote, since, backoff, moved, sending, waiting, results, loss, heard, pc, quiet, missed>>

Next ==
    \/ Tick \/ Handle \/ Reread \/ OtherPacket \/ GoSilent \/ Block \/ Unblock \/ SendTimeout
    \/ Send \/ Answered \/ Lost \/ SendFails

Spec == Init /\ [][Next]_vars

\* The interval timer and the tasks run on; a pending ping times out; a stuck
\* write is not always unstuck just before its own time limit.
Fairness ==
    /\ WF_vars(Tick) /\ WF_vars(Handle) /\ WF_vars(Reread) /\ SF_vars(SendTimeout)
    /\ WF_vars(Lost) /\ WF_vars(SendFails) /\ WF_vars(sink = "flows" /\ Send)

----------------------------------------------------------------------------
(* Properties *)

\* The controller keeps within its backoff and its limit of pending pings, and
\* the loop stops at the loss that reaches the limit.
TypeOK ==
    /\ remote \in {"up", "gone"} /\ sink \in {"flows", "stuck", "shut"}
    /\ pc \in {"recv", "reread", "closed"}
    /\ moved \in [tx : BOOLEAN, rx : BOOLEAN] /\ heard \in BOOLEAN /\ missed \in BOOLEAN
    /\ since \in 0 .. 2 ^ MaxBackoff - 1 /\ backoff \in 0 .. MaxBackoff
    /\ sending \in Nat /\ waiting \in Nat /\ sending + waiting <= MaxPending
    /\ results \in Seq(BOOLEAN) /\ Len(results) <= ResultCap
    /\ loss \in 0 .. MaxLoss /\ quiet \in 0 .. MaxLoss

\* The connection is given up only after MaxLoss losses with no packet of the
\* peer in between ("conn will close only if we have 5 continous round pingpong
\* loss after no packet received"), except that a packet counted between the
\* loop's two reads of rx_packets goes unnoticed.
ClosesOnlyQuiet == pc = "closed" => quiet = MaxLoss \/ missed

\* A peer that has gone silent is given up, whatever the tunnel does with the
\* pings: losing them, stopping to take them, or failing.
SilentCloses == (remote = "gone") ~> (pc = "closed")
=============================================================================
