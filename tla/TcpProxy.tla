------------------------------ MODULE TcpProxy ------------------------------
(***************************************************************************)
(* The NAT tables of TcpProxy for one client address.  A SYN from a peer   *)
(* makes an entry in syn_map; when the local listener accepts the          *)
(* connection, the accept loop moves the entry to conn_map and             *)
(* addr_conn_map and a task connects to the real destination, copies and,  *)
(* ten seconds after closing, takes the entry out.  The client may give up *)
(* and use its port again while all of this is going on.                   *)
(*                                                                         *)
(* The TCP of the client and of the local listener is external: a          *)
(* half-open connection, the queue of the listener, and the answer that    *)
(* the client accepts only if it comes from the address it called.         *)
(***************************************************************************)
EXTENDS Integers, FiniteSets

CONSTANTS
    Dst,       \* destinations the client calls
    MaxSyns    \* SYNs that arrive: the entries ever made

VARIABLES
    made,      \* entries made so far, numbered from 1
    entry,     \* entry[e]: destination and state
    syn,       \* syn_map at the client's address: 0 or an entry
    addr,      \* addr_conn_map at the client's address: 0 or an entry
    conn,      \* conn_map
    accept,    \* the accept loop: its step and the entry it holds
    tcp,       \* the listener's side of the client's connection
    calling,   \* the destination of the client's current attempt
    owner      \* the entry whose task holds the accepted stream, 0 if none

vars == <<made, entry, syn, addr, conn, accept, tcp, calling, owner>>

Entry == 1 .. MaxSyns

Init ==
    /\ made = 0
    /\ entry = [e \in Entry |-> [dst |-> CHOOSE d \in Dst : TRUE, state |-> "none"]]
    /\ syn = 0 /\ addr = 0 /\ conn = {}
    /\ accept = [pc |-> "accept", entry |-> 0]
    /\ tcp = "free" /\ calling = {} /\ owner = 0

SetState(e, s) == entry' = [entry EXCEPT ![e].state = s]

----------------------------------------------------------------------------
(* Packets *)

\* try_handle_peer_packet on a SYN: a new entry replaces the one in syn_map.
\* The client starts a new attempt, or repeats the SYN of the current one.
PeerSyn(d) ==
    /\ made < MaxSyns
    /\ made' = made + 1
    /\ entry' = [entry EXCEPT ![made + 1] = [dst |-> d, state |-> "SynReceived"]]
    /\ syn' = made + 1
    /\ tcp' = IF tcp = "free" THEN "half" ELSE tcp
    /\ calling' = {d}
    /\ UNCHANGED <<addr, conn, accept, owner>>

\* try_process_packet_from_nic on the listener's answer: the source becomes
\* the destination of the entry found, addr_conn_map before syn_map.
Translation == IF addr # 0 THEN addr ELSE syn
NicAnswer ==
    /\ tcp = "half"
    /\ tcp' = IF Translation # 0 /\ calling = {entry[Translation].dst} THEN "queued" ELSE "free"
    /\ UNCHANGED <<made, entry, syn, addr, conn, accept, calling, owner>>

----------------------------------------------------------------------------
(* The accept loop *)

\* The stream of an address that syn_map does not know is dropped.
AcceptGet ==
    /\ accept.pc = "accept" /\ tcp = "queued"
    /\ \/ /\ syn # 0
          /\ accept' = [pc |-> "remove", entry |-> syn]
          /\ tcp' = "open"
       \/ /\ syn = 0
          /\ tcp' = "free" /\ UNCHANGED accept
    /\ UNCHANGED <<made, entry, syn, addr, conn, calling, owner>>

\* Fault: the entry stays in syn_map.
AcceptKeepsSyn ==
    /\ accept.pc = "remove"
    /\ accept' = [accept EXCEPT !.pc = "insert"]
    /\ UNCHANGED <<made, entry, syn, addr, conn, tcp, calling, owner>>

\* The entry leaves syn_map, unless a newer SYN has replaced it there.
AcceptRemove ==
    /\ accept.pc = "remove"
    /\ syn' = IF syn = accept.entry THEN 0 ELSE syn
    /\ accept' = [accept EXCEPT !.pc = "insert"]
    /\ UNCHANGED <<made, entry, addr, conn, tcp, calling, owner>>

\* It enters the other two tables, and its task starts with the stream.
AcceptInsert ==
    /\ accept.pc = "insert"
    /\ SetState(accept.entry, "ConnectingDst")
    /\ addr' = accept.entry
    /\ conn' = conn \cup {accept.entry}
    /\ owner' = accept.entry
    /\ accept' = [pc |-> "accept", entry |-> 0]
    /\ UNCHANGED <<made, syn, tcp, calling>>

\* syn_map entries go after thirty seconds, marked closed.
SynExpire ==
    /\ syn # 0
    /\ SetState(syn, "Closed")
    /\ syn' = 0
    /\ UNCHANGED <<made, addr, conn, accept, tcp, calling, owner>>

----------------------------------------------------------------------------
(* The task of an entry *)

\* Fault: the address is removed whosever it is.
RemoveAddress(e) ==
    /\ conn' = conn \ {e}
    /\ addr' = 0

\* remove_entry_from_all_conn_map: the address may belong to a successor.
RemoveEntry(e) ==
    /\ conn' = conn \ {e}
    /\ addr' = IF addr = e THEN 0 ELSE addr

\* Dropping the stream frees the client's connection.
DropStream(e) ==
    /\ tcp' = IF owner = e THEN "free" ELSE tcp
    /\ owner' = IF owner = e THEN 0 ELSE owner

\* Denied, refused, or ten seconds without an answer.
ConnectFails(e) ==
    /\ e \in conn /\ entry[e].state = "ConnectingDst"
    /\ SetState(e, "Closed")
    /\ RemoveEntry(e)
    /\ DropStream(e)
    /\ UNCHANGED <<made, syn, accept, calling>>

\* connect_to_nat_dst succeeds; then handle_nat_connection: the copying ends,
\* both streams are shut down within ten seconds each and dropped.
ConnectDst(e) ==
    /\ e \in conn /\ entry[e].state = "ConnectingDst"
    /\ SetState(e, "Connected")
    /\ UNCHANGED <<made, syn, addr, conn, accept, tcp, calling, owner>>

CopyEnds(e) ==
    /\ e \in conn /\ entry[e].state = "Connected"
    /\ SetState(e, "ClosingSrc")
    /\ UNCHANGED <<made, syn, addr, conn, accept, tcp, calling, owner>>

ShutdownSrc(e) ==
    /\ e \in conn /\ entry[e].state = "ClosingSrc"
    /\ SetState(e, "ClosingDst")
    /\ UNCHANGED <<made, syn, addr, conn, accept, tcp, calling, owner>>

ShutdownDst(e) ==
    /\ e \in conn /\ entry[e].state = "ClosingDst"
    /\ SetState(e, "Closed")
    /\ DropStream(e)
    /\ UNCHANGED <<made, syn, addr, conn, accept, calling>>

\* Fault: the entry stays in conn_map.
CleanupAddress(e) ==
    /\ e \in conn /\ entry[e].state = "Closed"
    /\ addr' = IF addr = e THEN 0 ELSE addr
    /\ UNCHANGED <<made, entry, syn, conn, accept, tcp, calling, owner>>

\* After ten more seconds, for the last packets of the connection.
Cleanup(e) ==
    /\ e \in conn /\ entry[e].state = "Closed"
    /\ RemoveEntry(e)
    /\ UNCHANGED <<made, entry, syn, accept, tcp, calling, owner>>

TaskStep(e) ==
    ConnectFails(e) \/ ConnectDst(e) \/ ShutdownSrc(e) \/ ShutdownDst(e) \/ Cleanup(e)

Next ==
    \/ \E d \in Dst : PeerSyn(d)
    \/ NicAnswer \/ AcceptGet \/ AcceptRemove \/ AcceptInsert \/ SynExpire
    \/ \E e \in Entry : TaskStep(e) \/ CopyEnds(e)

Spec == Init /\ [][Next]_vars

\* The accept loop and the tasks run on, every wait of theirs being limited;
\* the cleaner of syn_map comes by.  A connection may be used for ever.
Fairness ==
    /\ WF_vars(AcceptGet \/ AcceptRemove \/ AcceptInsert) /\ WF_vars(SynExpire)
    /\ \A e \in Entry : WF_vars(TaskStep(e))

----------------------------------------------------------------------------
(* Properties *)

\* The tables hold entries that were made.
TypeOK ==
    /\ made \in 0 .. MaxSyns
    /\ entry \in [Entry -> [dst : Dst, state : {"none", "SynReceived", "ConnectingDst", "Connected",
                                                "ClosingSrc", "ClosingDst", "Closed"}]]
    /\ syn \in 0 .. made /\ addr \in 0 .. made /\ conn \subseteq 1 .. made
    /\ tcp \in {"free", "half", "queued", "open"}

\* The assertions of the accept loop and of connect_to_nat_dst hold: an entry
\* in syn_map is still SynReceived, one about to enter conn_map is not in it,
\* and none that is in it can still be closed by the cleaner of syn_map.
AssertionsHold ==
    /\ syn # 0 => entry[syn].state = "SynReceived" /\ syn \notin conn
    /\ accept.pc = "insert" => accept.entry \notin conn

\* When a client has reused its port, the end of the old connection takes
\* nothing from the new one: the connection that holds the stream is the one
\* its packets are translated for, and has its entry.
SuccessorKept ==
    /\ addr # 0 => addr \in conn
    /\ owner # 0 => addr = owner

\* Nothing stays in the tables but connections in use.
Settles == []<>(syn = 0 /\ \A e \in conn : entry[e].state = "Connected")
=============================================================================
