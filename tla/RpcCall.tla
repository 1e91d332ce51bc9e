------------------------------ MODULE RpcCall ------------------------------
(***************************************************************************)
(* Calls between two peers.  A call is registered under its transaction    *)
(* id, split into pieces and sent; the server merges the pieces, runs the  *)
(* handler in a task and sends the response back in pieces; the client's   *)
(* receive task merges these and hands the response to the waiting call.   *)
(* The packets may be lost, duplicated and reordered on the way.           *)
(***************************************************************************)
EXTENDS Integers, FiniteSets

CONSTANTS
    Call,         \* transaction ids
    ReqPieces,    \* pieces of a request
    RespPieces,   \* pieces of a response
    MaxLost, MaxDup   \* bounds: packets lost and duplicated

VARIABLES
    call,      \* call[c]: "idle", "waiting", "leaving" (entry removed), "ended"
    inflight,  \* inflight_requests: the calls with an entry
    got,       \* got[c]: the pieces in the entry's merger
    channel,   \* channel[c]: responses handed over and not yet taken
    result,    \* result[c]: what the call returned
    merger,    \* merger[c]: the pieces in packet_mergers
    tasks,     \* handler tasks running
    runs,      \* runs[c]: how often the handler was started for c
    net,       \* packets on the way
    budget     \* packets that may still be lost and duplicated

vars == <<call, inflight, got, channel, result, merger, tasks, runs, net, budget>>

None == {}
Pieces(n) == 0 .. n - 1

\* run is the handler's run that made a response, 0 for a request; copy tells
\* the duplicate of a packet from the packet.
Requests(c) == [c : {c}, idx : Pieces(ReqPieces), run : {0}, copy : {0}]
Responses(c, r) == [c : {c}, idx : Pieces(RespPieces), run : {r}, copy : {0}]
IsRequest(p) == p.run = 0

Init ==
    /\ call = [c \in Call |-> "idle"]
    /\ inflight = {}
    /\ got = [c \in Call |-> {}]
    /\ channel = [c \in Call |-> None]
    /\ result = [c \in Call |-> None]
    /\ merger = [c \in Call |-> {}]
    /\ tasks = {}
    /\ runs = [c \in Call |-> 0]
    /\ net = {}
    /\ budget = [lost |-> MaxLost, dup |-> MaxDup]

----------------------------------------------------------------------------
(* The caller *)

\* The entry goes in before the pieces of the request go out.
StartCall(c) ==
    /\ call[c] = "idle"
    /\ call' = [call EXCEPT ![c] = "waiting"]
    /\ inflight' = inflight \cup {c}
    /\ net' = net \cup Requests(c)
    /\ UNCHANGED <<got, channel, result, merger, tasks, runs, budget>>

\* Fault: the entry is still there when the receiver goes.
LeaveEntry(c, res) ==
    /\ call[c] = "waiting"
    /\ call' = [call EXCEPT ![c] = "leaving"]
    /\ result' = [result EXCEPT ![c] = res]
    /\ UNCHANGED <<inflight, got, channel, merger, tasks, runs, net, budget>>

\* The entry is removed on the way out, whether the response came, the timeout
\* passed or the call was dropped; the receiver lives until after that.
Leave(c, res) ==
    /\ call[c] = "waiting"
    /\ call' = [call EXCEPT ![c] = "leaving"]
    /\ inflight' = inflight \ {c}
    /\ got' = [got EXCEPT ![c] = {}]
    /\ result' = [result EXCEPT ![c] = res]
    /\ UNCHANGED <<channel, merger, tasks, runs, net, budget>>

Answered(c) == channel[c] # None /\ Leave(c, channel[c])
TimedOut(c) == channel[c] = None /\ Leave(c, None)

\* The receiver goes last.
CloseChannel(c) ==
    /\ call[c] = "leaving"
    /\ call' = [call EXCEPT ![c] = "ended"]
    /\ channel' = [channel EXCEPT ![c] = None]
    /\ UNCHANGED <<inflight, got, result, merger, tasks, runs, net, budget>>

\* The pieces by index: a piece fed again replaces the earlier one.
Fed(pieces, p) == {q \in pieces : q.idx # p.idx} \cup {[idx |-> p.idx, run |-> p.run]}
Merged(pieces, n) == {q.idx : q \in pieces} = Pieces(n)

\* The receive task holds the entry while it feeds the piece and hands the
\* response over; the complete pieces stay in the entry's merger.
ReceiveResponse(p) ==
    /\ p \in net /\ ~ IsRequest(p)
    /\ net' = net \ {p}
    /\ IF p.c \notin inflight
       THEN UNCHANGED <<got, channel>>
       ELSE LET pieces == Fed(got[p.c], p)
            IN /\ got' = [got EXCEPT ![p.c] = pieces]
               /\ channel' = IF Merged(pieces, RespPieces) /\ channel[p.c] = None
                             THEN [channel EXCEPT ![p.c] = {q.run : q \in pieces}]
                             ELSE channel
    /\ UNCHANGED <<call, inflight, result, merger, tasks, runs, budget>>

----------------------------------------------------------------------------
(* The server *)

\* Fault: a complete request stays in the mergers.
ReceiveRequestKept(p) ==
    /\ p \in net /\ IsRequest(p)
    /\ net' = net \ {p}
    /\ LET pieces == Fed(merger[p.c], p)
       IN /\ merger' = [merger EXCEPT ![p.c] = pieces]
          /\ IF Merged(pieces, ReqPieces)
             THEN /\ runs' = [runs EXCEPT ![p.c] = @ + 1]
                  /\ tasks' = tasks \cup {[c |-> p.c, run |-> runs[p.c] + 1]}
             ELSE UNCHANGED <<runs, tasks>>
    /\ UNCHANGED <<call, inflight, got, channel, result, budget>>

\* A complete request leaves the mergers and is handled in a task of its own.
ReceiveRequest(p) ==
    /\ p \in net /\ IsRequest(p)
    /\ net' = net \ {p}
    /\ LET pieces == Fed(merger[p.c], p)
       IN IF Merged(pieces, ReqPieces)
          THEN /\ merger' = [merger EXCEPT ![p.c] = {}]
               /\ runs' = [runs EXCEPT ![p.c] = @ + 1]
               /\ tasks' = tasks \cup {[c |-> p.c, run |-> runs[p.c] + 1]}
          ELSE /\ merger' = [merger EXCEPT ![p.c] = pieces]
               /\ UNCHANGED <<runs, tasks>>
    /\ UNCHANGED <<call, inflight, got, channel, result, budget>>

\* The handler returns or its own timeout passes: either way it responds.
Respond(t) ==
    /\ t \in tasks
    /\ tasks' = tasks \ {t}
    /\ net' = net \cup Responses(t.c, t.run)
    /\ UNCHANGED <<call, inflight, got, channel, result, merger, runs, budget>>

\* Fault: only a merger that lacks the first piece is dropped.
DropMergerHeadless(c) ==
    /\ merger[c] # {} /\ \A q \in merger[c] : q.idx # 0
    /\ merger' = [merger EXCEPT ![c] = {}]
    /\ UNCHANGED <<call, inflight, got, channel, result, tasks, runs, net, budget>>

\* Mergers untouched for 10 s are dropped.
DropMerger(c) ==
    /\ merger[c] # {}
    /\ merger' = [merger EXCEPT ![c] = {}]
    /\ UNCHANGED <<call, inflight, got, channel, result, tasks, runs, net, budget>>

----------------------------------------------------------------------------
(* The transport *)

Lose(p) ==
    /\ p \in net /\ budget.lost > 0
    /\ net' = net \ {p}
    /\ budget' = [budget EXCEPT !.lost = @ - 1]
    /\ UNCHANGED <<call, inflight, got, channel, result, merger, tasks, runs>>

Duplicate(p) ==
    /\ p \in net /\ p.copy = 0 /\ budget.dup > 0
    /\ net' = net \cup {[p EXCEPT !.copy = 1]}
    /\ budget' = [budget EXCEPT !.dup = @ - 1]
    /\ UNCHANGED <<call, inflight, got, channel, result, merger, tasks, runs>>

Next ==
    \/ \E c \in Call : StartCall(c) \/ Answered(c) \/ TimedOut(c) \/ CloseChannel(c) \/ DropMerger(c)
    \/ \E p \in net : ReceiveResponse(p) \/ ReceiveRequest(p) \/ Lose(p) \/ Duplicate(p)
    \/ \E t \in tasks : Respond(t)

Spec == Init /\ [][Next]_vars

\* The tasks run on, the timers of the calls and of the mergers fire, and a
\* packet that is not lost arrives.
Fairness ==
    /\ \A c \in Call : WF_vars(Answered(c) \/ TimedOut(c)) /\ WF_vars(CloseChannel(c)) /\ WF_vars(DropMerger(c))
    /\ WF_vars(\E p \in net : ReceiveResponse(p) \/ ReceiveRequest(p))
    /\ WF_vars(\E t \in tasks : Respond(t))

----------------------------------------------------------------------------
(* Properties *)

\* Mergers hold pieces of the request; what a call returns comes from runs of
\* its handler.
TypeOK ==
    /\ call \in [Call -> {"idle", "waiting", "leaving", "ended"}]
    /\ inflight \subseteq Call
    /\ merger \in [Call -> SUBSET [idx : Pieces(ReqPieces), run : {0}]]
    /\ \A c \in Call : result[c] \cup channel[c] \subseteq 1 .. runs[c]

\* The receive task finds an entry only while the receiver of its call is there
\* (the defer! of `call' runs before rx is dropped), so that its
\* sender.send(..).unwrap() never panics and answers keep being received.
ReceiverAlive == \A c \in inflight : call[c] = "waiting"

\* The handler runs a second time for a call only if the transport has doubled
\* as many packets as the request has pieces: a late or doubled piece alone
\* starts nothing.
Duplicated == MaxDup - budget.dup
RunsAgainOnlyIfDuplicated ==
    \A c \in Call : runs[c] > 1 => Duplicated >= ReqPieces

\* Lost, doubled and late packets leave nothing behind: neither an entry of the
\* caller nor a half-filled merger of the server.
Drained == <>[](inflight = {} /\ net = {} /\ \A c \in Call : merger[c] = {})
=============================================================================
