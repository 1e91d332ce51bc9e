----------------------------- MODULE PeerTable -----------------------------
(***************************************************************************)
(* The connections of one node to one remote peer: the PeerMap entry, and  *)
(* the Peer it holds with its connections and its pinned public key (the   *)
(* identity type, checked just before and in the same way, goes with it).  *)
(*                                                                         *)
(* Connections are added by concurrent tasks, which look the Peer up, have *)
(* it check the key, put the connection in, and register a Peer that they  *)
(* created; they close by themselves; a listener takes closed connections  *)
(* out of the Peer; a routine closes a Peer without open connections.  A   *)
(* Peer dies with its last reference and takes its connections with it.    *)
(***************************************************************************)
EXTENDS Integers, FiniteSets, Functions

CONSTANTS
    Conn,      \* connections that complete their handshake, each added once
    KeyOf,     \* KeyOf[c]: the remote static key the handshake proved
    NoKey

VARIABLES
    map,      \* peer_map: 0 or the number of the Peer registered
    conns,    \* conns[p]: the connections inside Peer p
    pinned,   \* pinned[p]: peer_public_key
    emptied,  \* Peers whose listener found them empty and is about to unpin
    add,      \* add[c]: the step of the task adding c, and its Peer
    closed,   \* connections that have closed
    cleaner   \* whether the cleaner found the registered peer without conns

vars == <<map, conns, pinned, emptied, add, closed, cleaner>>

\* The Peer that the task of c creates when it finds none has its own number.
Peer == 1 .. Cardinality(Conn)

\* The tasks that hold a reference to Peer p.
Holding == {"check", "insert", "register"}
Refs(p, adding) == {c \in Conn : adding[c].peer = p /\ adding[c].pc \in Holding}

Init ==
    /\ map = 0
    /\ conns = [p \in Peer |-> {}]
    /\ pinned = [p \in Peer |-> NoKey]
    /\ emptied = {}
    /\ add = [c \in Conn |-> [pc |-> "start", peer |-> 0, new |-> FALSE]]
    /\ closed = {}
    /\ cleaner = FALSE

\* A Peer goes when neither the map nor a task refers to it any more.
Gone(mapNext, addNext) == {p \in Peer : p # mapNext /\ Refs(p, addNext) = {}}

\* Fault: a dropped Peer empties its table and leaves the connections open.
ReleasedOpen(connsNow, mapNext, addNext, dropped) ==
    /\ conns' = [p \in Peer |-> IF p \in Gone(mapNext, addNext) THEN {} ELSE connsNow[p]]
    /\ closed' = closed \cup dropped

\* Drop for Peer empties it, and each connection, dropped with it, notifies
\* that it is closed.
Released(connsNow, mapNext, addNext, dropped) ==
    LET gone == Gone(mapNext, addNext)
    IN /\ conns' = [p \in Peer |-> IF p \in gone THEN {} ELSE connsNow[p]]
       /\ closed' = closed \cup dropped \cup UNION {connsNow[p] : p \in gone}

----------------------------------------------------------------------------
(* Adding a connection *)

Unused == {p \in Peer : \A c \in Conn : add[c].peer # p}

\* add_new_peer_conn asks the map whether the peer has an entry ...
Lookup(c) ==
    /\ add[c].pc = "start"
    /\ add' = [add EXCEPT ![c] =
                 IF map # 0 THEN [pc |-> "found", peer |-> 0, new |-> FALSE]
                 ELSE [pc |-> "check", peer |-> CHOOSE p \in Unused : TRUE, new |-> TRUE]]
    /\ UNCHANGED <<map, conns, pinned, emptied, closed, cleaner>>

\* ... and, when it has, asks again for it.  Without one by then the unwrap
\* panics: the task ends and its connection is dropped.
Fetch(c) ==
    /\ add[c].pc = "found"
    /\ IF map # 0
       THEN /\ add' = [add EXCEPT ![c] = [@ EXCEPT !.pc = "check", !.peer = map]]
            /\ UNCHANGED closed
       ELSE /\ add' = [add EXCEPT ![c].pc = "ended"]
            /\ closed' = closed \cup {c}
    /\ UNCHANGED <<map, conns, pinned, emptied, cleaner>>

\* Fault: a connection with another key waits for the pinned one to go.
CheckKeyWaits(c) ==
    LET p == add[c].peer
    IN /\ add[c].pc = "check"
       /\ pinned[p] \in {NoKey, KeyOf[c]}
       /\ add' = [add EXCEPT ![c].pc = "insert"]
       /\ pinned' = [pinned EXCEPT ![p] = KeyOf[c]]
       /\ UNCHANGED <<map, conns, closed, emptied, cleaner>>

\* A connection with another key is refused and dropped.
CheckKey(c) ==
    LET p == add[c].peer
        fits == pinned[p] \in {NoKey, KeyOf[c]}
        next == [add EXCEPT ![c].pc = IF fits THEN "insert" ELSE "ended"]
    IN /\ add[c].pc = "check"
       /\ add' = next
       /\ IF fits
          THEN /\ pinned' = [pinned EXCEPT ![p] = KeyOf[c]]
               /\ UNCHANGED <<conns, closed>>
          ELSE /\ Released(conns, map, next, {c})
               /\ UNCHANGED pinned
       /\ UNCHANGED <<map, emptied, cleaner>>

\* The connection starts its loops and enters the Peer.
InsertConn(c) ==
    LET p    == add[c].peer
        next == [add EXCEPT ![c].pc = IF add[c].new THEN "register" ELSE "ended"]
    IN /\ add[c].pc = "insert"
       /\ add' = next
       /\ Released([conns EXCEPT ![p] = @ \cup {c}], map, next, {})
       /\ UNCHANGED <<map, pinned, emptied, cleaner>>

\* add_new_peer replaces whatever is registered.
Register(c) ==
    LET next == [add EXCEPT ![c].pc = "ended"]
    IN /\ add[c].pc = "register"
       /\ add' = next
       /\ map' = add[c].peer
       /\ Released(conns, add[c].peer, next, {})
       /\ UNCHANGED <<pinned, emptied, cleaner>>

----------------------------------------------------------------------------
(* Closing *)

\* The tunnel fails or the pings are lost.
Close(c) ==
    /\ add[c].pc # "start" /\ c \notin closed
    /\ closed' = closed \cup {c}
    /\ UNCHANGED <<map, conns, pinned, emptied, add, cleaner>>

\* The listener takes the connection out; finding no other it unpins the key,
\* in a step of its own.
Listen(p, c) ==
    /\ c \in conns[p] \cap closed /\ p \notin emptied
    /\ conns' = [conns EXCEPT ![p] = @ \ {c}]
    /\ emptied' = IF conns[p] = {c} THEN emptied \cup {p} ELSE emptied
    /\ UNCHANGED <<map, pinned, add, closed, cleaner>>

Unpin(p) ==
    /\ p \in emptied
    /\ emptied' = emptied \ {p}
    /\ pinned' = [pinned EXCEPT ![p] = NoKey]
    /\ UNCHANGED <<map, conns, add, closed, cleaner>>

\* clean_peer_without_conn lists first and closes after.
FindEmpty ==
    /\ map # 0 /\ conns[map] \subseteq closed
    /\ cleaner' = TRUE
    /\ UNCHANGED <<map, conns, pinned, emptied, add, closed>>

ClosePeer ==
    /\ cleaner
    /\ cleaner' = FALSE
    /\ map' = 0
    /\ Released(conns, 0, add, {})
    /\ UNCHANGED <<pinned, emptied, add>>

Next ==
    \/ \E c \in Conn : Lookup(c) \/ Fetch(c) \/ CheckKey(c) \/ InsertConn(c) \/ Register(c) \/ Close(c)
    \/ \E p \in Peer : Unpin(p) \/ \E c \in Conn : Listen(p, c)
    \/ FindEmpty \/ ClosePeer

Spec == Init /\ [][Next]_vars

\* The tasks that add connections run on; the routine, the listener and the
\* tunnels owe nothing to the properties below.
Fairness == \A c \in Conn : WF_vars(Fetch(c) \/ CheckKey(c) \/ InsertConn(c) \/ Register(c))

----------------------------------------------------------------------------
(* Properties *)

\* Every Peer number, connection and key is one of the instance.
TypeOK ==
    /\ map \in {0} \cup Peer
    /\ conns \in [Peer -> SUBSET Conn] /\ pinned \in [Peer -> {NoKey} \cup Range(KeyOf)]
    /\ emptied \subseteq Peer /\ closed \subseteq Conn
    /\ \A c \in Conn : add[c].peer \in {0} \cup Peer

\* The task of c is done, c is open, and the registered Peer does not have it:
\* the node can neither send on it nor close it through the peer map.
Usable(c) == map # 0 /\ c \in conns[map]
Stranded(c) == add[c].pc = "ended" /\ c \notin closed /\ ~ Usable(c)

\* A connection is stranded (two tasks found no entry and the later one
\* replaced the Peer of the earlier, or the cleaner closed a Peer that had
\* just got a connection) only inside a Peer that a third task still holds.
StrandedIsHeld ==
    \A c \in Conn : Stranded(c) => \E p \in Peer : c \in conns[p] /\ Refs(p, add) # {}

\* No connection stays stranded: again and again there is none.
StrandedCloses == []<>(\A c \in Conn : ~ Stranded(c))
=============================================================================
