-------------------------- MODULE ConnectionProofs --------------------------
(***************************************************************************)
(* Proofs about the components that keep connections and what runs over    *)
(* them: PeerTable, RpcCall and ForeignNetwork.  They share no state: each *)
(* section after the first declares the constants and the variables of its *)
(* component, and a name that occurs in two sections is the same only by   *)
(* accident.                                                               *)
(***************************************************************************)
EXTENDS PeerTable, Sequences, FiniteSetTheorems, TLAPS

----------------------------------------------------------------------------
(* PeerTable: for any number of connections of one peer id, with any keys, *)
(* a connection whose task has ended is closed, or in the registered Peer, *)
(* or in a Peer that another task still holds.                             *)
(*                                                                         *)
(* StrandedIsHeld is not inductive: it needs that a Peer with connections  *)
(* is referred to by the map or by a task, and that a task about to        *)
(* register has its connection in its own Peer.                            *)

\* What the proof assumes of the constants: a node makes finitely many connections.
FinitelyMany == IsFiniteSet(Conn)

\* The part of the types that the argument uses.
TableTypes ==
    /\ map \in {0} \cup Peer
    /\ conns \in [Peer -> SUBSET Conn]
    /\ closed \subseteq Conn
    /\ add \in [Conn -> [pc : {"start", "found", "ended"} \cup Holding,
                         peer : {0} \cup Peer, new : BOOLEAN]]
    /\ \A c \in Conn : add[c].pc \in Holding => add[c].peer \in Peer
    /\ \A c \in Conn : add[c].pc \in {"start", "found"} => add[c].peer = 0

\* Drop for Peer has run for every Peer nobody refers to.
ReferredTo == \A p \in Peer : conns[p] # {} => p = map \/ Refs(p, add) # {}

\* An open connection is in some Peer once its task has put it there.
InSome == \A c \in Conn : add[c].pc = "ended" /\ c \notin closed => \E p \in Peer : c \in conns[p]
InOwn == \A c \in Conn : add[c].pc = "register" /\ c \notin closed => c \in conns[add[c].peer]

\* The inductive invariant.
TableInv == TableTypes /\ ReferredTo /\ InSome /\ InOwn

----------------------------------------------------------------------------

\* There is always a number for the Peer that a task creates: the others have
\* created at most one each.
LEMMA PeerLeft == ASSUME FinitelyMany, TableTypes, NEW c \in Conn, add[c].pc = "start"
                  PROVE  (CHOOSE p \in Unused : TRUE) \in Peer
<1> DEFINE S == {add[d].peer : d \in Conn \ {c}}
<1>1. IsFiniteSet(Conn \ {c}) /\ Cardinality(Conn \ {c}) = Cardinality(Conn) - 1
  BY FS_RemoveElement DEF FinitelyMany
<1>2. IsFiniteSet(S) /\ Cardinality(S) <= Cardinality(Conn \ {c})
  <2>1. [d \in Conn \ {c} |-> add[d].peer] \in Surjection(Conn \ {c}, S)
    BY DEF Surjection
  <2>2. QED
    BY <1>1, <2>1, FS_Surjection
<1>3. Cardinality(Conn) \in Nat
  BY FS_CardinalityType DEF FinitelyMany
<1>4. Cardinality(Peer) = Cardinality(Conn)
  BY <1>3, FS_Interval DEF Peer
<1>5. Cardinality(S) \in Nat
  BY <1>2, FS_CardinalityType
<1>6. ~ (Peer \subseteq S)
  BY <1>1, <1>2, <1>3, <1>4, <1>5, FS_Subset
<1>7. PICK p \in Peer : p \notin S
  BY <1>6
<1>8. add[c].peer = 0 /\ 0 \notin Peer
  BY DEF TableTypes, Peer
<1>9. p \in Unused
  BY <1>7, <1>8 DEF Unused
<1>10. QED
  BY <1>9 DEF Unused

\* A Peer keeps a reference when every task that holds one keeps it.
LEMMA RefsKept ==
    ASSUME NEW p, NEW before, NEW after, Refs(p, before) # {},
           \A d \in Conn : before[d].peer = p /\ before[d].pc \in Holding
                           => after[d].peer = p /\ after[d].pc \in Holding
    PROVE  Refs(p, after) # {}
  BY DEF Refs

\* What dropping the Peers nobody refers to leaves.
LEMMA ReleasedLeaves ==
    ASSUME NEW connsNow \in [Peer -> SUBSET Conn], NEW mapNext, NEW addNext, NEW dropped,
           Released(connsNow, mapNext, addNext, dropped)
    PROVE  /\ conns' \in [Peer -> SUBSET Conn]
           /\ closed \cup dropped \subseteq closed'
           /\ closed \cup dropped \subseteq Conn => closed' \subseteq Conn
           /\ \A p \in Peer : conns'[p] # {} => p = mapNext \/ Refs(p, addNext) # {}
           /\ \A p \in Peer : p = mapNext \/ Refs(p, addNext) # {} => conns'[p] = connsNow[p]
           /\ \A p \in Peer, d \in Conn : d \in connsNow[p] => d \in conns'[p] \/ d \in closed'
<1> DEFINE gone == Gone(mapNext, addNext)
<1>1. conns' = [p \in Peer |-> IF p \in gone THEN {} ELSE connsNow[p]]
  BY DEF Released
<1>2. closed' = closed \cup dropped \cup UNION {connsNow[p] : p \in gone}
  BY DEF Released
<1>3. \A p \in Peer : p \in gone <=> p # mapNext /\ Refs(p, addNext) = {}
  BY DEF Gone
<1>4. gone \subseteq Peer
  BY DEF Gone
<1> HIDE DEF gone
<1>5. QED
  BY <1>1, <1>2, <1>3, <1>4

\* Every step of a task that adds a connection, of a listener, of the cleaner and
\* of the tunnels preserves the invariant.
LEMMA TableNext == ASSUME FinitelyMany, TableInv, [Next]_vars PROVE TableInv'
<1> USE DEF TableInv, TableTypes, ReferredTo, InSome, InOwn, Refs, Holding
<1>0. 0 \notin Peer
  BY DEF Peer
<1>1. ASSUME NEW c \in Conn, Lookup(c) PROVE TableInv'
  <2>1. PICK q \in {0} \cup Peer :
          /\ add' = [add EXCEPT ![c] = [pc |-> IF map # 0 THEN "found" ELSE "check",
                                        peer |-> q, new |-> (map = 0)]]
          /\ map # 0 => q = 0
          /\ map = 0 => q \in Peer
    BY <1>1, PeerLeft DEF Lookup
  <2>2. UNCHANGED <<map, conns, closed>> /\ add[c].pc = "start"
    BY <1>1 DEF Lookup
  <2>3. TableTypes'
    BY <2>1, <2>2
  <2>4. ReferredTo'
    BY <2>1, <2>2, RefsKept
  <2>5. InSome' /\ InOwn'
    BY <2>1, <2>2
  <2>6. QED
    BY <2>3, <2>4, <2>5
<1>2. ASSUME NEW c \in Conn, Fetch(c) PROVE TableInv'
  <2>1. UNCHANGED <<map, conns>> /\ add[c].pc = "found" /\ add[c].peer = 0
    BY <1>2 DEF Fetch
  <2>2. CASE map # 0
    <3>1. add' = [add EXCEPT ![c] = [@ EXCEPT !.pc = "check", !.peer = map]] /\ closed' = closed
      BY <1>2, <2>2 DEF Fetch
    <3>2. ReferredTo'
      BY <2>1, <3>1, <1>0, RefsKept
    <3>3. QED
      BY <2>1, <2>2, <3>1, <3>2
  <2>3. CASE map = 0
    <3>1. add' = [add EXCEPT ![c].pc = "ended"] /\ closed' = closed \cup {c}
      BY <1>2, <2>3 DEF Fetch
    <3>2. ReferredTo'
      BY <2>1, <3>1, RefsKept
    <3>3. QED
      BY <2>1, <3>1, <3>2
  <2>4. QED
    BY <2>2, <2>3
<1>3. ASSUME NEW c \in Conn, CheckKey(c) PROVE TableInv'
  <2>1. CASE pinned[add[c].peer] \in {NoKey, KeyOf[c]}
    BY <1>3, <2>1 DEF CheckKey
  <2>2. CASE pinned[add[c].peer] \notin {NoKey, KeyOf[c]}
    <3> DEFINE next == [add EXCEPT ![c].pc = "ended"]
    <3>1. add' = next /\ map' = map /\ Released(conns, map, next, {c})
      BY <1>3, <2>2 DEF CheckKey
    <3>2. \A d \in Conn : next[d] = IF d = c THEN [add[c] EXCEPT !.pc = "ended"] ELSE add[d]
      OBVIOUS
    <3>3. next \in [Conn -> [pc : {"start", "found", "ended"} \cup Holding,
                              peer : {0} \cup Peer, new : BOOLEAN]]
      OBVIOUS
    <3> HIDE DEF next
    <3>4. TableTypes'
      BY <3>1, <3>2, <3>3, ReleasedLeaves
    <3>5. ReferredTo'
      BY <3>1, ReleasedLeaves
    <3>6. InSome'
      BY <3>1, <3>2, ReleasedLeaves
    <3>7. InOwn'
      BY <3>1, <3>2, ReleasedLeaves
    <3>8. QED
      BY <3>4, <3>5, <3>6, <3>7
  <2>3. QED
    BY <2>1, <2>2
<1>4. ASSUME NEW c \in Conn, InsertConn(c) PROVE TableInv'
  <2> DEFINE p == add[c].peer
             now == [conns EXCEPT ![p] = @ \cup {c}]
             next == [add EXCEPT ![c].pc = IF add[c].new THEN "register" ELSE "ended"]
  <2>1. add' = next /\ map' = map /\ Released(now, map, next, {}) /\ p \in Peer /\ add[c].pc = "insert"
    BY <1>4 DEF InsertConn
  <2>2. now \in [Peer -> SUBSET Conn]
    BY <2>1
  <2>3. c \in now[p] /\ \A q \in Peer : conns[q] \subseteq now[q]
    BY <2>1
  <2>4. \A d \in Conn : next[d] = IF d = c
                                   THEN [add[c] EXCEPT !.pc = IF add[c].new THEN "register" ELSE "ended"]
                                   ELSE add[d]
    OBVIOUS
  <2>5. next \in [Conn -> [pc : {"start", "found", "ended"} \cup Holding,
                            peer : {0} \cup Peer, new : BOOLEAN]]
    OBVIOUS
  <2> HIDE DEF now, next
  <2>6. TableTypes'
    <3>1. conns' \in [Peer -> SUBSET Conn] /\ closed' \subseteq Conn
      BY <2>1, <2>2, ReleasedLeaves
    <3>2. /\ \A d \in Conn : next[d].pc \in Holding => next[d].peer \in Peer
          /\ \A d \in Conn : next[d].pc \in {"start", "found"} => next[d].peer = 0
      BY <2>1, <2>4
    <3>3. QED
      BY <2>1, <2>5, <3>1, <3>2
  <2>7. ReferredTo'
    BY <2>1, <2>2, ReleasedLeaves
  <2>8. InSome'
    BY <2>1, <2>2, <2>3, <2>4, ReleasedLeaves
  <2>9. InOwn'
    <3> SUFFICES ASSUME NEW d \in Conn, add'[d].pc = "register", d \notin closed'
                 PROVE  d \in conns'[add'[d].peer]
      OBVIOUS
    <3>1. add'[d].peer = add[d].peer /\ add[d].peer \in Peer /\ d \in Refs(add[d].peer, next)
      BY <2>1, <2>4, <2>5
    <3>2. conns'[add[d].peer] = now[add[d].peer] /\ closed \subseteq closed'
      BY <2>1, <2>2, <3>1, ReleasedLeaves
    <3>3. d \in now[add[d].peer]
      BY <2>1, <2>3, <2>4, <3>1, <3>2
    <3>4. QED
      BY <3>1, <3>2, <3>3
  <2>10. QED
    BY <2>6, <2>7, <2>8, <2>9
<1>5. ASSUME NEW c \in Conn, Register(c) PROVE TableInv'
  <2> DEFINE next == [add EXCEPT ![c].pc = "ended"]
  <2>1. add' = next /\ map' = add[c].peer /\ Released(conns, add[c].peer, next, {})
    BY <1>5 DEF Register
  <2>2. add[c].pc = "register" /\ add[c].peer \in Peer
    BY <1>5 DEF Register
  <2>3. \A d \in Conn : next[d] = IF d = c THEN [add[c] EXCEPT !.pc = "ended"] ELSE add[d]
    OBVIOUS
  <2>4. next \in [Conn -> [pc : {"start", "found", "ended"} \cup Holding,
                            peer : {0} \cup Peer, new : BOOLEAN]]
    BY <2>2
  <2> HIDE DEF next
  <2>5. TableTypes'
    <3>1. conns' \in [Peer -> SUBSET Conn] /\ closed' \subseteq Conn
      BY <2>1, ReleasedLeaves
    <3>2. QED
      BY <2>1, <2>2, <2>3, <2>4, <3>1
  <2>6. ReferredTo'
    BY <2>1, ReleasedLeaves
  <2>7. InSome'
    BY <2>1, <2>2, <2>3, ReleasedLeaves
  <2>8. InOwn'
    BY <2>1, <2>2, <2>3, ReleasedLeaves
  <2>9. QED
    BY <2>5, <2>6, <2>7, <2>8
<1>6. ASSUME NEW c \in Conn, Close(c) PROVE TableInv'
  BY <1>6 DEF Close
<1>7. ASSUME NEW p \in Peer, Unpin(p) PROVE TableInv'
  BY <1>7 DEF Unpin
<1>8. ASSUME NEW p \in Peer, NEW c \in Conn, Listen(p, c) PROVE TableInv'
  BY <1>8 DEF Listen
<1>9. CASE FindEmpty
  BY <1>9 DEF FindEmpty
<1>10. CASE ClosePeer
  <2>1. map' = 0 /\ add' = add /\ Released(conns, 0, add, {})
    BY <1>10 DEF ClosePeer
  <2>2. QED
    BY <2>1, ReleasedLeaves
<1>11. CASE UNCHANGED vars
  BY <1>11 DEF vars
<1>12. QED
  BY <1>1, <1>2, <1>3, <1>4, <1>5, <1>6, <1>7, <1>8, <1>9, <1>10, <1>11 DEF Next

\* PeerMap loses no open connection: one that the registered Peer does not have is
\* in a Peer that a task of add_new_peer_conn still holds, and closes with it.
THEOREM StrandedIsHeldHolds == ASSUME FinitelyMany PROVE Spec => []StrandedIsHeld
<1>1. Init => TableInv
  BY DEF Init, TableInv, TableTypes, ReferredTo, InSome, InOwn, Refs, Holding
<1>2. TableInv /\ [Next]_vars => TableInv'
  BY TableNext
<1>3. TableInv => StrandedIsHeld
  <2> SUFFICES ASSUME TableInv, NEW c \in Conn, Stranded(c)
               PROVE  \E p \in Peer : c \in conns[p] /\ Refs(p, add) # {}
    BY DEF StrandedIsHeld
  <2>1. PICK p \in Peer : c \in conns[p]
    BY DEF TableInv, InSome, Stranded
  <2>2. p # map
    BY <2>1 DEF Stranded, Usable, Peer
  <2>3. QED
    BY <2>1, <2>2 DEF TableInv, ReferredTo
<1>4. QED
  BY <1>1, <1>2, <1>3, PTL DEF Spec

----------------------------------------------------------------------------
(* RpcCall *)

CONSTANTS Call, ReqPieces, RespPieces, MaxLost, MaxDup

VARIABLES call, inflight, got, channel, result, merger, tasks, runs, net, budget

R == INSTANCE RpcCall

\* The numbers of the pieces of a request.
Request == R!Pieces(ReqPieces)

\* The copies of a piece of c's request: those that were run, merged, or are
\* on the way.
Piece(c, i, k) == [c |-> c, idx |-> i, run |-> 0, copy |-> k]
Merging(c, i) == \E q \in merger[c] : q.idx = i
Weight(c, i) ==
    runs[c] + (IF Merging(c, i) THEN 1 ELSE 0)
            + (IF Piece(c, i, 0) \in net THEN 1 ELSE 0)
            + (IF Piece(c, i, 1) \in net THEN 1 ELSE 0)

\* The pieces there have been two of.
Doubled(c) == {i \in Request : Weight(c, i) >= 2}

\* The part of the types that the argument uses.
RpcTypes ==
    /\ call \in [Call -> {"idle", "waiting", "leaving", "ended"}]
    /\ merger \in [Call -> SUBSET [idx : Request, run : {0}]]
    /\ runs \in [Call -> Nat]
    /\ net \subseteq [c : Call, idx : Nat, run : Nat, copy : {0, 1}]
    /\ \A p \in net : R!IsRequest(p) => p.idx \in Request
    /\ tasks \subseteq [c : Call, run : Nat \ {0}]
    /\ budget \in [lost : Nat, dup : 0 .. MaxDup]

\* Before a call starts there is nothing of its request.
Unsent == \A c \in Call : call[c] = "idle" => \A i \in Request : Weight(c, i) = 0

\* Every piece there have been two of was doubled by the transport.
DoubledByNet == \A c \in Call : Cardinality(Doubled(c)) <= R!Duplicated

\* The inductive invariant.
RpcInv == RpcTypes /\ R!ReceiverAlive /\ Unsent /\ DoubledByNet

\* What the proof assumes of the constants.
RpcConstants == ReqPieces \in Nat /\ RespPieces \in Nat /\ MaxLost \in Nat /\ MaxDup \in Nat

\* A request has ReqPieces pieces, so the pieces doubled can be counted.
LEMMA RequestFinite ==
    ASSUME RpcConstants
    PROVE  /\ IsFiniteSet(Request) /\ Cardinality(Request) = ReqPieces
           /\ \A c \in Call : IsFiniteSet(Doubled(c)) /\ Cardinality(Doubled(c)) \in Nat
<1>1. ReqPieces - 1 \in Int /\ 0 \in Int
  BY DEF RpcConstants
<1>2. IsFiniteSet(0 .. ReqPieces - 1)
      /\ Cardinality(0 .. ReqPieces - 1) = IF 0 > ReqPieces - 1 THEN 0 ELSE (ReqPieces - 1) - 0 + 1
  BY <1>1, FS_Interval
<1>3. Cardinality(0 .. ReqPieces - 1) = ReqPieces
  BY <1>2 DEF RpcConstants
<1>4. ASSUME NEW c \in Call PROVE IsFiniteSet(Doubled(c)) /\ Cardinality(Doubled(c)) \in Nat
  <2>1. Doubled(c) \subseteq Request
    BY DEF Doubled
  <2> QED BY <1>2, <2>1, FS_Subset, FS_CardinalityType DEF Request, R!Pieces
<1> QED BY <1>2, <1>3, <1>4 DEF Request, R!Pieces

\* A step that adds no piece of c's request doubles none.
LEMMA NothingDoubled ==
    ASSUME RpcConstants, RpcTypes, RpcTypes', NEW c \in Call,
           \A i \in Request : Weight(c, i)' <= Weight(c, i)
    PROVE  Cardinality(Doubled(c))' <= Cardinality(Doubled(c))
<1>1. Doubled(c)' \subseteq Doubled(c)
  <2> SUFFICES ASSUME NEW i \in Request, Weight(c, i)' >= 2 PROVE Weight(c, i) >= 2
    BY DEF Doubled, Request, R!Pieces
  <2>1. Weight(c, i) \in Nat /\ Weight(c, i)' \in Nat
    BY DEF RpcTypes, Weight
  <2> QED BY <2>1
<1> QED BY <1>1, RequestFinite, FS_Subset

\* Before the first call nothing was sent, merged or run.
LEMMA RpcInit ==
    ASSUME RpcConstants
    PROVE  R!Init => RpcInv
<1> SUFFICES ASSUME R!Init PROVE RpcInv
  OBVIOUS
<1>1. RpcTypes
  BY DEF R!Init, RpcTypes, RpcConstants
<1>2. \A c \in Call, i \in Request : Weight(c, i) = 0
  BY DEF R!Init, Weight, Merging
<1>3. \A c \in Call : Doubled(c) = {}
  BY <1>2 DEF Doubled
<1>4. DoubledByNet
  BY <1>3, FS_EmptySet DEF DoubledByNet, R!Duplicated, R!Init, RpcConstants
<1>5. R!ReceiverAlive
  BY DEF R!Init, R!ReceiverAlive
<1> QED BY <1>1, <1>2, <1>4, <1>5 DEF RpcInv, Unsent

\* Every step of a caller, of the server and of the transport keeps the types.
LEMMA RpcTypesNext ==
    ASSUME RpcConstants, RpcTypes, [R!Next]_R!vars
    PROVE  RpcTypes'
<1> USE DEF RpcTypes, R!IsRequest
<1>1. ASSUME NEW c \in Call, R!StartCall(c) PROVE RpcTypes'
  <2>1. R!Requests(c) \subseteq [c : Call, idx : Nat, run : Nat, copy : {0, 1}]
        /\ \A p \in R!Requests(c) : p.idx \in Request
    BY DEF R!Requests, Request, R!Pieces, RpcConstants
  <2> QED BY <1>1, <2>1 DEF R!StartCall
<1>2. ASSUME NEW c \in Call, NEW r, R!Leave(c, r) PROVE RpcTypes'
  BY <1>2 DEF R!Leave
<1>3. ASSUME NEW c \in Call, R!CloseChannel(c) PROVE RpcTypes'
  BY <1>3 DEF R!CloseChannel
<1>4. ASSUME NEW c \in Call, R!DropMerger(c) PROVE RpcTypes'
  BY <1>4 DEF R!DropMerger
<1>5. ASSUME NEW p \in net, R!ReceiveResponse(p) PROVE RpcTypes'
  BY <1>5 DEF R!ReceiveResponse
<1>6. ASSUME NEW p \in net, R!ReceiveRequest(p) PROVE RpcTypes'
  <2>1. p.c \in Call /\ p.idx \in Request /\ p.run = 0
    BY <1>6 DEF R!ReceiveRequest
  <2>2. R!Fed(merger[p.c], p) \in SUBSET [idx : Request, run : {0}]
    BY <2>1 DEF R!Fed
  <2>3. CASE R!Merged(R!Fed(merger[p.c], p), ReqPieces)
    BY <1>6, <2>1, <2>3 DEF R!ReceiveRequest
  <2>4. CASE ~ R!Merged(R!Fed(merger[p.c], p), ReqPieces)
    BY <1>6, <2>1, <2>2, <2>4 DEF R!ReceiveRequest
  <2> QED BY <2>3, <2>4
<1>7. ASSUME NEW p \in net, R!Lose(p) PROVE RpcTypes'
  BY <1>7 DEF R!Lose
<1>8. ASSUME NEW p \in net, R!Duplicate(p) PROVE RpcTypes'
  <2>1. [p EXCEPT !.copy = 1] \in [c : Call, idx : Nat, run : Nat, copy : {0, 1}]
        /\ [p EXCEPT !.copy = 1].run = p.run /\ [p EXCEPT !.copy = 1].idx = p.idx
    OBVIOUS
  <2>2. budget' \in [lost : Nat, dup : 0 .. MaxDup]
    BY <1>8 DEF R!Duplicate, RpcConstants
  <2> QED BY <1>8, <2>1, <2>2 DEF R!Duplicate
<1>9. ASSUME NEW t \in tasks, R!Respond(t) PROVE RpcTypes'
  <2>1. R!Responses(t.c, t.run) \subseteq [c : Call, idx : Nat, run : Nat, copy : {0, 1}]
        /\ \A p \in R!Responses(t.c, t.run) : p.run # 0
    BY DEF R!Responses, R!Pieces, RpcConstants
  <2> QED BY <1>9, <2>1 DEF R!Respond
<1>10. CASE UNCHANGED R!vars
  BY <1>10 DEF R!vars
<1> QED
  BY <1>1, <1>2, <1>3, <1>4, <1>5, <1>6, <1>7, <1>8, <1>9, <1>10
  DEF R!Next, R!Answered, R!TimedOut

\* While its channel is registered a call waits, whatever a step does.
LEMMA AliveNext ==
    ASSUME RpcTypes, R!ReceiverAlive, [R!Next]_R!vars
    PROVE  R!ReceiverAlive'
<1> USE DEF RpcTypes, R!ReceiverAlive
<1>1. ASSUME NEW c \in Call, R!StartCall(c) PROVE R!ReceiverAlive'
  BY <1>1 DEF R!StartCall
<1>2. ASSUME NEW c \in Call, NEW r, R!Leave(c, r) PROVE R!ReceiverAlive'
  BY <1>2 DEF R!Leave
<1>3. ASSUME NEW c \in Call, R!CloseChannel(c) PROVE R!ReceiverAlive'
  BY <1>3 DEF R!CloseChannel
<1>4. CASE UNCHANGED <<call, inflight>>
  BY <1>4
<1> QED
  BY <1>1, <1>2, <1>3, <1>4
  DEF R!Next, R!Answered, R!TimedOut, R!vars, R!DropMerger, R!ReceiveResponse, R!ReceiveRequest,
      R!Lose, R!Duplicate, R!Respond

\* A piece that arrives is merged or run: there is one copy less on the way.
LEMMA RequestWeight ==
    ASSUME RpcConstants, RpcTypes, NEW p \in net, R!ReceiveRequest(p), NEW c \in Call, NEW i \in Request
    PROVE  Weight(c, i)' <= Weight(c, i)
<1> DEFINE pieces == R!Fed(merger[p.c], p)
<1>1. p.c \in Call /\ p.idx \in Request /\ p.copy \in {0, 1} /\ p = Piece(p.c, p.idx, p.copy)
  BY DEF R!ReceiveRequest, R!IsRequest, RpcTypes, Piece
<1>2. net' = net \ {p}
  BY DEF R!ReceiveRequest
<1>3. /\ R!Merged(pieces, ReqPieces) => /\ merger' = [merger EXCEPT ![p.c] = {}]
                                        /\ runs' = [runs EXCEPT ![p.c] = @ + 1]
      /\ ~ R!Merged(pieces, ReqPieces) => /\ merger' = [merger EXCEPT ![p.c] = pieces]
                                          /\ runs' = runs
  BY Zenon DEF R!ReceiveRequest
<1>4. i # p.idx => ((\E q \in pieces : q.idx = i) <=> \E q \in merger[p.c] : q.idx = i)
  BY DEF R!Fed
<1>5. R!Merged(pieces, ReqPieces) => \E q \in pieces : q.idx = i
  BY DEF R!Merged, Request
<1> HIDE DEF pieces
<1>6. runs[c] \in Nat /\ \A k \in {0, 1} : Piece(c, i, k) \in net' => Piece(c, i, k) \in net
  BY <1>2 DEF RpcTypes
<1>7. CASE c # p.c
  <2>1. runs'[c] = runs[c] /\ merger'[c] = merger[c]
    BY <1>1, <1>3, <1>7 DEF RpcTypes
  <2> QED BY <1>6, <2>1 DEF Weight, Merging
<1>8. CASE c = p.c /\ i # p.idx
  <2>1. CASE R!Merged(pieces, ReqPieces)
    <3>1. Merging(c, i) /\ ~ Merging(c, i)' /\ runs'[c] = runs[c] + 1
      BY <1>1, <1>3, <1>4, <1>5, <1>8, <2>1 DEF Merging, RpcTypes
    <3> QED BY <1>6, <3>1 DEF Weight
  <2>2. CASE ~ R!Merged(pieces, ReqPieces)
    <3>1. (Merging(c, i)' <=> Merging(c, i)) /\ runs'[c] = runs[c]
      BY <1>1, <1>3, <1>4, <1>8, <2>2 DEF Merging, RpcTypes
    <3> QED BY <1>6, <3>1 DEF Weight
  <2> QED BY <2>1, <2>2
<1>9. CASE c = p.c /\ i = p.idx
  <2>1. Piece(c, i, p.copy) \in net /\ Piece(c, i, p.copy) \notin net'
    BY <1>1, <1>2, <1>9
  <2>2. CASE R!Merged(pieces, ReqPieces)
    <3>1. ~ Merging(c, i)' /\ runs'[c] = runs[c] + 1
      BY <1>1, <1>3, <1>9, <2>2 DEF Merging, RpcTypes
    <3> QED BY <1>1, <1>6, <2>1, <3>1 DEF Weight
  <2>3. CASE ~ R!Merged(pieces, ReqPieces)
    <3>1. runs'[c] = runs[c]
      BY <1>3, <2>3
    <3> QED BY <1>1, <1>6, <2>1, <3>1 DEF Weight
  <2> QED BY <2>2, <2>3
<1> QED BY <1>7, <1>8, <1>9

\* Every other step but a call's start and a doubled packet leaves it at that.
LEMMA OtherWeight ==
    ASSUME RpcTypes, RpcTypes', UNCHANGED runs, NEW c \in Call, NEW i \in Request,
           Merging(c, i)' => Merging(c, i),
           \A k \in {0, 1} : Piece(c, i, k) \in net' => Piece(c, i, k) \in net
    PROVE  Weight(c, i)' <= Weight(c, i)
<1>1. runs[c] \in Nat /\ runs'[c] = runs[c]
  BY DEF RpcTypes
<1> QED BY <1>1 DEF Weight

\* A step that sends and copies nothing leaves nothing of calls not yet started,
\* and doubles nothing.
LEMMA WeightsFall ==
    ASSUME RpcConstants, RpcInv, RpcTypes', UNCHANGED R!Duplicated,
           \A c \in Call : call'[c] = "idle" => call[c] = "idle",
           \A c \in Call, i \in Request : Weight(c, i)' <= Weight(c, i)
    PROVE  Unsent' /\ DoubledByNet'
<1>1. ASSUME NEW c \in Call, call'[c] = "idle", NEW i \in Request PROVE Weight(c, i)' = 0
  <2>1. Weight(c, i) = 0 /\ Weight(c, i)' <= Weight(c, i)
    BY <1>1 DEF RpcInv, Unsent
  <2>2. Weight(c, i)' \in Nat
    BY DEF RpcTypes, Weight
  <2> QED BY <2>1, <2>2
<1>2. ASSUME NEW c \in Call PROVE Cardinality(Doubled(c))' <= R!Duplicated'
  <2>1. Cardinality(Doubled(c))' <= Cardinality(Doubled(c))
    BY NothingDoubled DEF RpcInv
  <2>2. Cardinality(Doubled(c)) <= R!Duplicated
    BY DEF RpcInv, DoubledByNet
  <2>3. R!Duplicated \in Int /\ Cardinality(Doubled(c)) \in Nat
    BY RequestFinite DEF RpcInv, RpcTypes, R!Duplicated, RpcConstants
  <2>4. Cardinality(Doubled(c))' \in Nat
    <3>1. Doubled(c)' \subseteq Request
      BY DEF Doubled, Request, R!Pieces
    <3> QED BY <3>1, RequestFinite, FS_Subset, FS_CardinalityType
  <2> QED BY <2>1, <2>2, <2>3, <2>4
<1> QED BY <1>1, <1>2 DEF Unsent, DoubledByNet, Request, R!Pieces

\* A call that starts sends every piece of its request once.
LEMMA StartWeight ==
    ASSUME RpcConstants, RpcInv, RpcTypes', NEW s \in Call, R!StartCall(s)
    PROVE  Unsent' /\ DoubledByNet'
<1>1. UNCHANGED <<runs, merger, budget>> /\ net' = net \cup R!Requests(s)
      /\ call' = [call EXCEPT ![s] = "waiting"] /\ call[s] = "idle"
  BY DEF R!StartCall
<1>2. ASSUME NEW c \in Call \ {s}, NEW i \in Request PROVE Weight(c, i)' <= Weight(c, i)
  <2>1. ASSUME NEW k \in {0, 1} PROVE Piece(c, i, k) \in net' => Piece(c, i, k) \in net
    BY <1>1 DEF Piece, R!Requests
  <2> QED BY <1>1, <2>1, OtherWeight DEF RpcInv, Merging
<1>3. ASSUME NEW i \in Request PROVE Weight(s, i)' <= 1
  <2>1. Piece(s, i, 1) \notin R!Requests(s)
    BY DEF Piece, R!Requests
  <2>2. Weight(s, i) = 0 /\ runs[s] \in Nat
    BY <1>1 DEF RpcInv, Unsent, RpcTypes
  <2>3. runs[s] = 0 /\ ~ Merging(s, i) /\ Piece(s, i, 1) \notin net
    BY <2>2 DEF Weight
  <2>4. runs'[s] = 0 /\ ~ Merging(s, i)' /\ Piece(s, i, 1) \notin net'
    BY <1>1, <2>1, <2>3 DEF Merging
  <2> QED BY <2>4 DEF Weight
<1>4. Unsent'
  <2> SUFFICES ASSUME NEW c \in Call, call'[c] = "idle", NEW i \in Request PROVE Weight(c, i)' = 0
    BY DEF Unsent, Request, R!Pieces
  <2>1. c # s /\ call[c] = "idle"
    BY <1>1 DEF RpcInv, RpcTypes
  <2>2. Weight(c, i) = 0 /\ Weight(c, i)' <= Weight(c, i)
    BY <1>2, <2>1 DEF RpcInv, Unsent
  <2>3. Weight(c, i)' \in Nat
    BY DEF RpcTypes, Weight
  <2> QED BY <2>2, <2>3
<1>5. ASSUME NEW c \in Call PROVE Cardinality(Doubled(c))' <= R!Duplicated'
  <2>1. R!Duplicated' = R!Duplicated /\ R!Duplicated \in Nat
    BY <1>1 DEF R!Duplicated, RpcInv, RpcTypes, RpcConstants
  <2>2. CASE c = s
    <3>1. Doubled(c)' = {}
      <4>1. ASSUME NEW i \in Request PROVE ~ (Weight(s, i)' >= 2)
        <5>1. Weight(s, i)' <= 1 /\ Weight(s, i)' \in Nat
          BY <1>3 DEF RpcTypes, Weight
        <5> QED BY <5>1
      <4> QED BY <2>2, <4>1 DEF Doubled, Request, R!Pieces
    <3> QED BY <2>1, <3>1, FS_EmptySet
  <2>3. CASE c # s
    <3>1. Cardinality(Doubled(c))' <= Cardinality(Doubled(c))
      BY <1>2, <2>3, NothingDoubled DEF RpcInv
    <3>2. Cardinality(Doubled(c)) <= R!Duplicated /\ Cardinality(Doubled(c)) \in Nat
      BY RequestFinite DEF RpcInv, DoubledByNet
    <3>3. Cardinality(Doubled(c))' \in Nat
      <4>1. Doubled(c)' \subseteq Request
        BY DEF Doubled, Request, R!Pieces
      <4> QED BY <4>1, RequestFinite, FS_Subset, FS_CardinalityType
    <3> QED BY <2>1, <3>1, <3>2, <3>3
  <2> QED BY <2>2, <2>3
<1> QED BY <1>4, <1>5 DEF DoubledByNet

\* A copy the transport makes doubles at most one piece, and is counted.
LEMMA DuplicateWeight ==
    ASSUME RpcConstants, RpcInv, RpcTypes', NEW p \in net, R!Duplicate(p)
    PROVE  Unsent' /\ DoubledByNet'
<1> DEFINE copy == [p EXCEPT !.copy = 1]
<1>1. UNCHANGED <<call, runs, merger>> /\ net' = net \cup {copy}
  BY DEF R!Duplicate
<1>2. R!Duplicated' = R!Duplicated + 1 /\ R!Duplicated \in Nat
  BY DEF R!Duplicate, R!Duplicated, RpcInv, RpcTypes, RpcConstants
<1>3. ASSUME NEW c \in Call, NEW i \in Request, p.c # c \/ p.idx # i \/ p.run # 0
      PROVE  Weight(c, i)' <= Weight(c, i)
  <2>1. \A k \in {0, 1} : Piece(c, i, k) # copy
    BY <1>3 DEF Piece, RpcInv, RpcTypes
  <2> HIDE DEF copy
  <2> QED BY <1>1, <2>1, OtherWeight DEF RpcInv, Merging
<1>4. Unsent'
  <2> SUFFICES ASSUME NEW c \in Call, call'[c] = "idle", NEW i \in Request PROVE Weight(c, i)' = 0
    BY DEF Unsent, Request, R!Pieces
  <2>1. Weight(c, i) = 0 /\ runs[c] \in Nat
    BY <1>1 DEF RpcInv, Unsent, RpcTypes
  <2>2. p.c # c \/ p.idx # i \/ p.run # 0
    <3> SUFFICES ASSUME p.c = c, p.idx = i, p.run = 0 PROVE FALSE
      OBVIOUS
    <3>1. p = Piece(c, i, 0)
      BY DEF R!Duplicate, Piece, RpcInv, RpcTypes
    <3> QED BY <2>1, <3>1 DEF Weight
  <2>3. Weight(c, i)' <= Weight(c, i)
    BY <1>3, <2>2
  <2>4. Weight(c, i)' \in Nat
    BY DEF RpcTypes, Weight
  <2> QED BY <2>1, <2>3, <2>4
<1>5. ASSUME NEW c \in Call PROVE Cardinality(Doubled(c))' <= R!Duplicated'
  <2>1. Doubled(c)' \subseteq Doubled(c) \cup {p.idx}
    <3> SUFFICES ASSUME NEW i \in Request, i # p.idx, Weight(c, i)' >= 2 PROVE Weight(c, i) >= 2
      BY DEF Doubled, Request, R!Pieces
    <3>1. Weight(c, i)' <= Weight(c, i)
      BY <1>3
    <3>2. Weight(c, i) \in Nat /\ Weight(c, i)' \in Nat
      BY DEF RpcInv, RpcTypes, Weight
    <3> QED BY <3>1, <3>2
  <2>2. IsFiniteSet(Doubled(c)) /\ Cardinality(Doubled(c)) \in Nat
        /\ Cardinality(Doubled(c)) <= R!Duplicated
    BY RequestFinite DEF RpcInv, DoubledByNet
  <2>3. IsFiniteSet(Doubled(c) \cup {p.idx})
        /\ Cardinality(Doubled(c) \cup {p.idx}) <= Cardinality(Doubled(c)) + 1
    BY <2>2, FS_AddElement
  <2>4. Cardinality(Doubled(c))' <= Cardinality(Doubled(c) \cup {p.idx})
    BY <2>1, <2>3, FS_Subset
  <2>5. Cardinality(Doubled(c))' \in Nat /\ Cardinality(Doubled(c) \cup {p.idx}) \in Nat
    BY <2>1, <2>3, FS_Subset, FS_CardinalityType
  <2> QED BY <1>2, <2>2, <2>3, <2>4, <2>5
<1> QED BY <1>4, <1>5 DEF DoubledByNet

\* Every step keeps the invariant.
LEMMA RpcNext ==
    ASSUME RpcConstants, RpcInv, [R!Next]_R!vars
    PROVE  RpcInv'
<1>1. RpcTypes /\ RpcTypes' /\ R!ReceiverAlive'
  BY RpcTypesNext, AliveNext DEF RpcInv
<1> SUFFICES Unsent' /\ DoubledByNet'
  BY <1>1 DEF RpcInv
<1>2. ASSUME NEW c \in Call, R!StartCall(c) PROVE Unsent' /\ DoubledByNet'
  BY <1>1, <1>2, StartWeight
<1>3. ASSUME NEW p \in net, R!Duplicate(p) PROVE Unsent' /\ DoubledByNet'
  BY <1>1, <1>3, DuplicateWeight
<1>4. ASSUME NEW p \in net, R!ReceiveRequest(p) PROVE Unsent' /\ DoubledByNet'
  <2>1. UNCHANGED <<call, R!Duplicated>>
    BY <1>4 DEF R!ReceiveRequest, R!Duplicated
  <2>2. \A c \in Call, i \in Request : Weight(c, i)' <= Weight(c, i)
    BY <1>1, <1>4, RequestWeight
  <2> QED BY <1>1, <2>1, <2>2, WeightsFall
<1>5. ASSUME UNCHANGED <<runs, R!Duplicated>>,
             \A c \in Call : call'[c] = "idle" => call[c] = "idle",
             \A c \in Call, i \in Request : Merging(c, i)' => Merging(c, i),
             \A c \in Call, i \in Request, k \in {0, 1} : Piece(c, i, k) \in net' => Piece(c, i, k) \in net
      PROVE  Unsent' /\ DoubledByNet'
  <2>1. \A c \in Call, i \in Request : Weight(c, i)' <= Weight(c, i)
    BY <1>1, <1>5, OtherWeight
  <2> QED BY <1>1, <1>5, <2>1, WeightsFall
<1>6. ASSUME NEW c \in Call, NEW r, R!Leave(c, r) PROVE Unsent' /\ DoubledByNet'
  BY <1>1, <1>5, <1>6 DEF R!Leave, RpcTypes, R!Duplicated, Merging
<1>7. ASSUME NEW c \in Call, R!CloseChannel(c) PROVE Unsent' /\ DoubledByNet'
  BY <1>1, <1>5, <1>7 DEF R!CloseChannel, RpcTypes, R!Duplicated, Merging
<1>8. ASSUME NEW c \in Call, R!DropMerger(c) PROVE Unsent' /\ DoubledByNet'
  BY <1>1, <1>5, <1>8 DEF R!DropMerger, RpcTypes, R!Duplicated, Merging
<1>9. ASSUME NEW p \in net, R!ReceiveResponse(p) PROVE Unsent' /\ DoubledByNet'
  BY <1>1, <1>5, <1>9 DEF R!ReceiveResponse, R!Duplicated, Merging
<1>10. ASSUME NEW p \in net, R!Lose(p) PROVE Unsent' /\ DoubledByNet'
  BY <1>1, <1>5, <1>10 DEF R!Lose, RpcTypes, R!Duplicated, Merging
<1>11. ASSUME NEW t \in tasks, R!Respond(t) PROVE Unsent' /\ DoubledByNet'
  <2>1. \A c \in Call, i \in Request, k \in {0, 1} : Piece(c, i, k) \notin R!Responses(t.c, t.run)
    BY <1>1 DEF Piece, R!Responses, RpcTypes
  <2> QED BY <1>1, <1>5, <1>11, <2>1 DEF R!Respond, R!Duplicated, Merging
<1>12. CASE UNCHANGED R!vars
  BY <1>1, <1>5, <1>12 DEF R!vars, R!Duplicated, Merging
<1> QED
  BY <1>2, <1>3, <1>4, <1>6, <1>7, <1>8, <1>9, <1>10, <1>11, <1>12
  DEF R!Next, R!Answered, R!TimedOut

\* For any number of calls and pieces, lost and duplicated packets: a piece of a
\* response that finds its call registered finds its receiver (inflight_requests
\* never outlives it), and the server runs a request a second time only if the
\* transport has doubled as many packets as the request has pieces.
THEOREM CallsSound ==
    ASSUME RpcConstants
    PROVE  R!Spec => [](R!ReceiverAlive /\ R!RunsAgainOnlyIfDuplicated)
<1>1. ASSUME RpcInv PROVE R!RunsAgainOnlyIfDuplicated
  <2> SUFFICES ASSUME NEW c \in Call, runs[c] > 1 PROVE R!Duplicated >= ReqPieces
    BY DEF R!RunsAgainOnlyIfDuplicated
  <2>1. Doubled(c) = Request
    BY <1>1 DEF Doubled, Weight, RpcInv, RpcTypes
  <2>2. Cardinality(Doubled(c)) <= R!Duplicated
    BY <1>1 DEF RpcInv, DoubledByNet
  <2>3. R!Duplicated \in Int
    BY <1>1 DEF R!Duplicated, RpcInv, RpcTypes, RpcConstants
  <2> QED BY <2>1, <2>2, <2>3, RequestFinite DEF RpcConstants
<1>2. RpcInv => R!ReceiverAlive /\ R!RunsAgainOnlyIfDuplicated
  BY <1>1 DEF RpcInv
<1> QED BY RpcInit, RpcNext, <1>2, PTL DEF R!Spec

----------------------------------------------------------------------------
(* ForeignNetwork *)

CONSTANTS NetPeer, MaxAdds, MaxLags

VARIABLES registered, made, inside, lost, listed, stamped, handler, events, lock

F == INSTANCE ForeignNetwork WITH Peer <- NetPeer

\* What the tasks hold, and entries yet to be made.
Adding ==
    /\ made \in 0 .. MaxAdds /\ registered \in 0 .. made
    /\ add \in [NetPeer -> [pc : {"none", "lock", "insert"}, entry : 0 .. made, new : BOOLEAN]]
    /\ \A p \in NetPeer : add[p].pc # "none" => add[p].entry # 0
    /\ handler \in [F!Entry -> {"none", "runs", "exits", "ended"}]
    /\ budget.adds \in Nat /\ made + budget.adds <= MaxAdds

\* A task past the entry's lock has started the handler of the entry it made;
\* a handler that has ended has taken its entry out; the registered entry has
\* a handler, or a task that waits for the lock to start one.
Handled ==
    /\ \A p \in NetPeer : add[p].pc = "insert" /\ add[p].new => handler[add[p].entry] # "none"
    /\ registered # 0 => handler[registered] # "ended"
    /\ registered # 0 /\ handler[registered] = "none" =>
          \E p \in NetPeer : add[p].pc = "lock" /\ add[p].new /\ add[p].entry = registered
    /\ \A e \in F!Entry : e > made => handler[e] = "none"

\* The inductive invariant.
ForeignInv == Adding /\ Handled

\* No entry yet, and nobody adding one.
LEMMA ForeignInit ==
    ASSUME MaxAdds \in Nat
    PROVE  F!Init => ForeignInv
BY DEF F!Init, ForeignInv, F!Entry, F!NoAdd, Adding, Handled

\* Every step of the tasks, of the event handlers and of Drop keeps the invariant.
LEMMA ForeignNext ==
    ASSUME MaxAdds \in Nat, ForeignInv, [F!Next]_F!vars
    PROVE  ForeignInv'
<1> USE DEF ForeignInv, F!Entry, Adding, Handled
<1>1. ASSUME NEW p \in NetPeer, F!GetOrInsertEntry(p)
      PROVE  ForeignInv'
  <2> DEFINE e == IF registered = 0 THEN made + 1 ELSE registered
             a == [pc |-> "lock", entry |-> e, new |-> registered = 0]
  <2>1. /\ budget.adds > 0 /\ budget' = [budget EXCEPT !.adds = @ - 1]
        /\ made' = IF registered = 0 THEN made + 1 ELSE made
        /\ registered' = e /\ add' = [add EXCEPT ![p] = a] /\ handler' = handler
        /\ add[p].pc = "none"
    BY <1>1, Zenon DEF F!GetOrInsertEntry
  <2>2. budget'.adds = budget.adds - 1 /\ made' + budget'.adds <= MaxAdds /\ budget'.adds \in Nat
    BY <2>1
  <2>3. a.pc = "lock" /\ a.entry = e /\ (a.new <=> registered = 0) /\ a.new \in BOOLEAN
    BY Zenon
  <2>4. e \in 1 .. made' /\ made' \in 1 .. MaxAdds /\ made <= made'
    BY <2>1, <2>2
  <2>5. a \in [pc : {"none", "lock", "insert"}, entry : 0 .. made', new : BOOLEAN]
    BY <2>4
  <2>5a. /\ registered = 0 => e = made + 1
         /\ registered # 0 => e = registered
    OBVIOUS
  <2> HIDE DEF a, e
  <2>6. Adding'
    BY <2>1, <2>2, <2>3, <2>4, <2>5
  <2>7. CASE registered = 0
    <3>1. handler'[e] = "none"
      <4>1. e \in F!Entry /\ e > made
        BY <2>4, <2>5a, <2>7
      <4> QED BY <2>1, <4>1, Zenon
    <3>2. add'[p].pc = "lock" /\ add'[p].new /\ add'[p].entry = registered'
      <4>1. add'[p] = a
        BY <2>1
      <4> QED BY <2>1, <2>3, <2>7, <4>1, Zenon
    <3>3. \A q \in NetPeer : add'[q].pc = "insert" /\ add'[q].new => handler'[add'[q].entry] # "none"
      BY <2>1, <3>2
    <3>4. \A x \in F!Entry : x > made' => handler'[x] = "none"
      BY <2>1, <2>4
    <3> QED BY <2>1, <2>6, <3>1, <3>2, <3>3, <3>4
  <2>8. CASE registered # 0
    BY <2>1, <2>3, <2>4, <2>6, <2>5a, <2>8
  <2> QED BY <2>7, <2>8
<1>2. ASSUME NEW p \in NetPeer, F!LockEntry(p)
      PROVE  ForeignInv'
  BY <1>2 DEF F!LockEntry
<1>3. ASSUME NEW p \in NetPeer, F!AddNewPeerConn(p)
      PROVE  ForeignInv'
  BY <1>3 DEF F!AddNewPeerConn, F!NoAdd
<1>4. ASSUME NEW p \in NetPeer, F!Refuse(p)
      PROVE  ForeignInv'
  BY <1>4 DEF F!Refuse, F!NoAdd
<1>5. ASSUME NEW e \in F!Entry, F!HandlePeerRemoved(e)
      PROVE  ForeignInv'
  BY <1>5 DEF F!HandlePeerRemoved
<1>6. ASSUME NEW e \in F!Entry, F!HandleConnRemoved(e)
      PROVE  ForeignInv'
  BY <1>6 DEF F!HandleConnRemoved
<1>7. ASSUME NEW e \in F!Entry, F!HandlePeerAdded(e)
      PROVE  ForeignInv'
  BY <1>7 DEF F!HandlePeerAdded
<1>8. ASSUME NEW e \in F!Entry, F!RemoveNetwork(e)
      PROVE  ForeignInv'
  BY <1>8 DEF F!RemoveNetwork
<1>9. ASSUME NEW e \in F!Entry, F!Lag(e)
      PROVE  ForeignInv'
  BY <1>9 DEF F!Lag
<1>10. ASSUME NEW e \in F!Entry, F!DropEntry(e)
      PROVE  ForeignInv'
  BY <1>10 DEF F!DropEntry
<1>11. ASSUME NEW e \in F!Entry, F!DropContext(e)
      PROVE  ForeignInv'
  BY <1>11 DEF F!DropContext
<1>12. ASSUME NEW e \in F!Entry, NEW p \in NetPeer, F!ConnCloses(e, p)
      PROVE  ForeignInv'
  BY <1>12 DEF F!ConnCloses
<1>13. CASE UNCHANGED F!vars
  BY <1>13 DEF F!vars
<1> QED
  BY <1>1, <1>2, <1>3, <1>4, <1>5, <1>6, <1>7, <1>8, <1>9, <1>10, <1>11, <1>12, <1>13
  DEF F!Next, F!HandlerStep

\* For any number of peers and of entries made, the entry of a foreign network that
\* is registered has an event handler, or a task about to start it, so that it is
\* taken out when its last peer leaves.
THEOREM HasHandlerHolds ==
    ASSUME MaxAdds \in Nat
    PROVE  F!Spec => []F!HasHandler
<1>1. ForeignInv => F!HasHandler
  BY DEF ForeignInv, F!Entry, Adding, Handled, F!HasHandler
<1> QED BY ForeignInit, ForeignNext, <1>1, PTL DEF F!Spec
=============================================================================
