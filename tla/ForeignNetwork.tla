--------------------------- MODULE ForeignNetwork ---------------------------
(***************************************************************************)
(* ForeignNetworkManager for one network name: the entry that relays for   *)
(* peers of a network this node does not belong to.  A task that adds a    *)
(* connection gets or makes the entry under the manager's lock and puts    *)
(* the connection in under the entry's lock; each entry has an event       *)
(* handler, started by the task that made it, that takes peers and empty   *)
(* entries out.  The handler outlives its entry and finds its targets by   *)
(* the network's name.                                                     *)
(***************************************************************************)
EXTENDS Integers, Sequences, FiniteSets

CONSTANTS
    Peer,       \* peers of the network, each with one connection at a time
    MaxAdds,    \* connections that arrive
    MaxLags     \* event handlers that fall behind their channel

VARIABLES
    registered,  \* network_peer_maps at the name: 0 or an entry's number
    made,        \* entries made so far
    inside,      \* inside[e]: peers in the entry's peer_map
    lost,        \* lost[e]: those whose connection has closed
    listed,      \* peer_network_map: peers for which the name is recorded
    stamped,     \* network_peer_last_update has the name
    handler,     \* handler[e]: "none", "runs", "exits" or "ended"
    events,      \* events[e]: the events the handler has not received
    add,         \* add[p]: step and entry of the task adding a connection of p
    lock,        \* lock[e]: whether a task holds the entry's lock
    budget

vars == <<registered, made, inside, lost, listed, stamped, handler, events, add, lock, budget>>

Entry == 1 .. MaxAdds
NoAdd == [pc |-> "none", entry |-> 0, new |-> FALSE]

Init ==
    /\ registered = 0 /\ made = 0
    /\ inside = [e \in Entry |-> {}] /\ lost = [e \in Entry |-> {}]
    /\ listed = {} /\ stamped = FALSE
    /\ handler = [e \in Entry |-> "none"] /\ events = [e \in Entry |-> <<>>]
    /\ add = [p \in Peer |-> NoAdd]
    /\ lock = [e \in Entry |-> FALSE]
    /\ budget = [adds |-> MaxAdds, lags |-> MaxLags]

\* Whether something refers to the entry.
Held(e) == registered = e \/ \E p \in Peer : add[p].entry = e

\* The events about the peers P, in some order; they are received only by a
\* handler that has subscribed.
About(type, P) ==
    CHOOSE s \in [1 .. Cardinality(P) -> [type : {type}, peer : P]] :
        \A p \in P : \E i \in DOMAIN s : s[i].peer = p
Emit(e, evs) == IF handler[e] = "runs" THEN [events EXCEPT ![e] = @ \o evs] ELSE events

----------------------------------------------------------------------------
(* add_peer_conn *)

\* get_or_insert_entry, under the manager's lock.
GetOrInsertEntry(p) ==
    LET new == registered = 0
        e   == IF new THEN made + 1 ELSE registered
    IN /\ add[p].pc = "none" /\ budget.adds > 0
       /\ made' = IF new THEN made + 1 ELSE made
       /\ registered' = e
       /\ add' = [add EXCEPT ![p] = [pc |-> "lock", entry |-> e, new |-> new]]
       /\ listed' = listed \cup {p}
       /\ stamped' = TRUE
       /\ budget' = [budget EXCEPT !.adds = @ - 1]
       /\ UNCHANGED <<inside, lost, handler, events, lock>>

\* Fault: the handler is not started.
LockEntryOnly(p) ==
    LET e == add[p].entry
    IN /\ add[p].pc = "lock" /\ ~ lock[e]
       /\ lock' = [lock EXCEPT ![e] = TRUE]
       /\ add' = [add EXCEPT ![p].pc = "insert"]
       /\ UNCHANGED <<registered, made, inside, lost, listed, stamped, handler, events, budget>>

\* The entry's lock; the task that made the entry starts its handler.
LockEntry(p) ==
    LET e == add[p].entry
    IN /\ add[p].pc = "lock" /\ ~ lock[e]
       /\ lock' = [lock EXCEPT ![e] = TRUE]
       /\ add' = [add EXCEPT ![p].pc = "insert"]
       /\ handler' = IF add[p].new THEN [handler EXCEPT ![e] = "runs"] ELSE handler
       /\ UNCHANGED <<registered, made, inside, lost, listed, stamped, events, budget>>

\* add_new_peer_conn: a peer already inside gets the connection, a new one an
\* event PeerAdded as well.  The task lets go of the lock and of the entry.
AddNewPeerConn(p) ==
    LET e == add[p].entry
    IN /\ add[p].pc = "insert"
       /\ inside' = [inside EXCEPT ![e] = @ \cup {p}]
       /\ lost' = [lost EXCEPT ![e] = @ \ {p}]
       /\ events' = IF p \in inside[e] THEN events ELSE Emit(e, About("PeerAdded", {p}))
       /\ lock' = [lock EXCEPT ![e] = FALSE]
       /\ add' = [add EXCEPT ![p] = NoAdd]
       /\ UNCHANGED <<registered, made, listed, stamped, handler, budget>>

\* The entry belongs to another identity of the network, or has enough
\* connections of the peer: the connection is dropped, and what
\* get_or_insert_entry recorded stays.
Refuse(p) ==
    /\ add[p].pc = "insert" /\ ~ add[p].new
    /\ lock' = [lock EXCEPT ![add[p].entry] = FALSE]
    /\ add' = [add EXCEPT ![p] = NoAdd]
    /\ UNCHANGED <<registered, made, inside, lost, listed, stamped, handler, events, budget>>

----------------------------------------------------------------------------
(* Connections and entries going away *)

ConnCloses(e, p) ==
    /\ p \in inside[e] \ lost[e]
    /\ lost' = [lost EXCEPT ![e] = @ \cup {p}]
    /\ events' = Emit(e, About("PeerConnRemoved", {p}))
    /\ UNCHANGED <<registered, made, inside, listed, stamped, handler, add, lock, budget>>

\* The last reference to an entry goes, and its open connections with it.
DropEntry(e) ==
    /\ ~ Held(e) /\ inside[e] # {}
    /\ inside' = [inside EXCEPT ![e] = {}]
    /\ lost' = [lost EXCEPT ![e] = {}]
    /\ events' = Emit(e, About("PeerConnRemoved", inside[e] \ lost[e]))
    /\ UNCHANGED <<registered, made, listed, stamped, handler, add, lock, budget>>

\* When its context is gone too, the handler has no more events to wait for.
DropContext(e) ==
    /\ ~ Held(e) /\ inside[e] = {}
    /\ handler[e] = "runs" /\ events[e] = <<>>
    /\ handler' = [handler EXCEPT ![e] = "exits"]
    /\ UNCHANGED <<registered, made, inside, lost, listed, stamped, events, add, lock, budget>>

----------------------------------------------------------------------------
(* The event handler *)

\* Fault: the entry stays when its last peer has gone.
HandlePeerOnly(e) ==
    /\ handler[e] = "runs" /\ events[e] # <<>> /\ Head(events[e]).type = "PeerRemoved"
    /\ events' = [events EXCEPT ![e] = Tail(@)]
    /\ listed' = listed \ {Head(events[e]).peer}
    /\ stamped' = TRUE
    /\ UNCHANGED <<registered, made, inside, lost, handler, add, lock, budget>>

\* remove_peer: the name's entry goes if it has no peers left.
HandlePeerRemoved(e) ==
    /\ handler[e] = "runs" /\ events[e] # <<>> /\ Head(events[e]).type = "PeerRemoved"
    /\ events' = [events EXCEPT ![e] = Tail(@)]
    /\ listed' = listed \ {Head(events[e]).peer}
    /\ registered' = IF registered # 0 /\ inside[registered] = {} THEN 0 ELSE registered
    /\ stamped' = TRUE
    /\ UNCHANGED <<made, inside, lost, handler, add, lock, budget>>

\* clear_no_conn_peer: peers without connection leave the name's entry.
HandleConnRemoved(e) ==
    LET r    == registered
        gone == IF r = 0 THEN {} ELSE lost[r]
    IN /\ handler[e] = "runs" /\ events[e] # <<>> /\ Head(events[e]).type = "PeerConnRemoved"
       /\ inside' = [x \in Entry |-> IF x = r THEN inside[x] \ gone ELSE inside[x]]
       /\ lost' = [x \in Entry |-> IF x = r THEN {} ELSE lost[x]]
       /\ events' = [x \in Entry |->
             (IF x = e THEN Tail(events[x]) ELSE events[x])
               \o (IF x = r /\ handler[r] = "runs" THEN About("PeerRemoved", gone) ELSE <<>>)]
       /\ UNCHANGED <<registered, made, listed, stamped, handler, add, lock, budget>>

HandlePeerAdded(e) ==
    /\ handler[e] = "runs" /\ events[e] # <<>> /\ Head(events[e]).type = "PeerAdded"
    /\ events' = [events EXCEPT ![e] = Tail(@)]
    /\ stamped' = TRUE
    /\ UNCHANGED <<registered, made, inside, lost, listed, handler, add, lock, budget>>

\* The handler has fallen behind: its loop ends.
Lag(e) ==
    /\ handler[e] = "runs" /\ events[e] # <<>> /\ budget.lags > 0
    /\ handler' = [handler EXCEPT ![e] = "exits"]
    /\ events' = [events EXCEPT ![e] = <<>>]
    /\ budget' = [budget EXCEPT !.lags = @ - 1]
    /\ UNCHANGED <<registered, made, inside, lost, listed, stamped, add, lock>>

\* remove_network: whatever entry has the name now.
RemoveNetwork(e) ==
    /\ handler[e] = "exits"
    /\ handler' = [handler EXCEPT ![e] = "ended"]
    /\ listed' = IF registered = 0 THEN listed ELSE listed \ inside[registered]
    /\ registered' = 0
    /\ stamped' = FALSE
    /\ UNCHANGED <<made, inside, lost, events, add, lock, budget>>

HandlerStep(e) ==
    HandlePeerRemoved(e) \/ HandleConnRemoved(e) \/ HandlePeerAdded(e) \/ RemoveNetwork(e)

Next ==
    \/ \E p \in Peer : GetOrInsertEntry(p) \/ LockEntry(p) \/ AddNewPeerConn(p) \/ Refuse(p)
    \/ \E e \in Entry : \/ HandlerStep(e) \/ Lag(e) \/ DropEntry(e) \/ DropContext(e)
                        \/ \E p \in Peer : ConnCloses(e, p)

Spec == Init /\ [][Next]_vars

\* The handlers and the tasks that add connections run on, and what nothing
\* refers to is dropped.
Fairness ==
    /\ \A e \in Entry : WF_vars(HandlerStep(e)) /\ WF_vars(DropEntry(e) \/ DropContext(e))
    /\ \A p \in Peer : WF_vars(LockEntry(p) \/ AddNewPeerConn(p))

----------------------------------------------------------------------------
(* Properties *)

\* The tables hold entries that were made and peers of the network.
TypeOK ==
    /\ made \in 0 .. MaxAdds /\ registered \in 0 .. made
    /\ \A e \in Entry : lost[e] \subseteq inside[e] /\ inside[e] \subseteq Peer
    /\ listed \subseteq Peer /\ stamped \in BOOLEAN

\* A registered entry has a handler that has yet to take it out, or a task
\* about to start one; otherwise it would stay for ever.
HasHandler ==
    registered # 0 => \/ handler[registered] \in {"runs", "exits"}
                      \/ \E p \in Peer : add[p].new /\ add[p].entry = registered

\* An entry without peers, and with no task about to add one, does not stay.
Idle == registered # 0 /\ inside[registered] = {} /\ \A p \in Peer : add[p].pc = "none"
IdleGoes == []<>(~ Idle)

\* The time of the last update of a network goes with the network, although the
\* handler writes it again just after remove_peer has removed it.
StampGoes == []<>(stamped => registered # 0)

\* A connection whose entry is no longer the registered one (it was added while
\* the entry was being removed) is closed.
OrphansClose == []<>(\A e \in Entry : inside[e] # {} => registered = e)
=============================================================================
