--------------------------- MODULE RouteElection ---------------------------
(***************************************************************************)
(* Which peers keep a route synchronisation session.  Every second         *)
(* maintain_sessions picks one connected peer that does not already        *)
(* initiate towards this node and initiates a session with it; sessions    *)
(* that neither end initiates are dropped.  The two ends tell each other   *)
(* whether they initiate in every sync_route_info call and its answer.     *)
(*                                                                         *)
(* Route information itself is left to RouteSync: here a call is only the  *)
(* initiator flag it carries.                                              *)
(***************************************************************************)
EXTENDS Naturals, FiniteSets, FiniteSetsExt

CONSTANTS
    Node,      \* peer ids
    Links,     \* connections: sets of two nodes
    Open,      \* peers whose NAT type is OpenInternet or NoPat
    MaxFails,  \* bound: calls that fail
    Flapping,  \* links that may break and come back
    MaxFlaps   \* bound: links that break

VARIABLES
    links,     \* connections that are up
    sess,      \* sess[n]: n's sessions, a function from peers to flags
    cur,       \* cur[n]: cur_dst_peer_id_to_initiate, 0 for None
    rpc,       \* rpc[n]: calls n waits for, a function from peers to calls
    stray,     \* calls given up by their sender that may still arrive
    nat,       \* nat[n]: open peers whose NAT type n has learnt
    budget     \* failures and broken links left

vars == <<links, sess, cur, rpc, stray, nat, budget>>

PeersOf(n) == {p \in Node : {n, p} \in links}

Flags == [we : BOOLEAN, dst : BOOLEAN, need : BOOLEAN]
Call == [init : BOOLEAN, answer : {"none", "initiator", "other"}]

SessionsOf(n) == DOMAIN sess[n]

\* A new SyncRouteSession.
NewFlags == [we |-> FALSE, dst |-> FALSE, need |-> FALSE]

\* The function f without, or with, the peers of S.
Without(f, S) == [p \in DOMAIN f \ S |-> f[p]]
With(f, p, v) == [q \in DOMAIN f \cup {p} |-> IF q = p THEN v ELSE f[q]]

Init ==
    /\ links = Links
    /\ sess = [n \in Node |-> [p \in {} |-> NewFlags]]
    /\ cur = [n \in Node |-> 0]
    /\ rpc = [n \in Node |-> [p \in {} |-> NewFlags]]
    /\ stray = {}
    /\ nat = [n \in Node |-> {}]
    /\ budget = [fails |-> MaxFails, flaps |-> MaxFlaps]

----------------------------------------------------------------------------
(* maintain_sessions *)

\* Fault: only peers with a session are considered.
CandidatesKnown(n) == {p \in PeersOf(n) \cap SessionsOf(n) : ~sess[n][p].dst}

\* Connected peers that n may initiate a session with.
Candidates(n) == {p \in PeersOf(n) : p \in SessionsOf(n) => ~sess[n][p].dst}

\* The first candidate that is known to be reachable from anywhere, else the
\* first candidate: peers are visited in the order of their ids.
Choice(n) ==
    IF Candidates(n) \cap nat[n] # {} THEN Min(Candidates(n) \cap nat[n])
                                      ELSE Min(Candidates(n))

\* Fault: the session initiated before keeps its flag.
SwitchedOnly(n, p) ==
    With(sess[n], p, [we |-> TRUE, need |-> TRUE, dst |-> p \in SessionsOf(n) /\ sess[n][p].dst])

\* n's sessions when it initiates towards p instead of cur[n].
Switched(n, p) ==
    LET told == [q \in SessionsOf(n) |->
                    IF q = cur[n] THEN [sess[n][q] EXCEPT !.we = FALSE, !.need = TRUE]
                                  ELSE sess[n][q]]
    IN With(told, p, [we |-> TRUE, need |-> TRUE,
                      dst |-> p \in SessionsOf(n) /\ sess[n][p].dst])

\* Sessions that nobody initiates and that have nothing to tell; those
\* created in this round are not looked at.
Idle(n, ss) == {p \in SessionsOf(n) : ss[p] = NewFlags}

\* The sessions of peers that are no longer connected.
Gone(n) == SessionsOf(n) \ PeersOf(n)

\* A call whose session is dropped may still arrive.
Dropped(n, S) ==
    {[from |-> n, to |-> p, init |-> rpc[n][p].init] :
        p \in {q \in S \cap DOMAIN rpc[n] : rpc[n][q].answer = "none"}}

\* Fault: the task of a session outlives it.
StopSessionsOnly(n, ss, S) ==
    /\ sess' = [sess EXCEPT ![n] = Without(ss, S)]
    /\ UNCHANGED <<stray, rpc>>

StopSessions(n, ss, S) ==
    /\ sess' = [sess EXCEPT ![n] = Without(ss, S)]
    /\ stray' = stray \cup Dropped(n, S)
    /\ rpc' = [rpc EXCEPT ![n] = Without(@, S)]

\* One round of maintain_sessions.  Without a candidate it ends early and idle
\* sessions stay; what it initiated before is forgotten with its session.
Maintain(n) ==
    /\ LET stay == IF cur[n] \in Gone(n) THEN 0 ELSE cur[n]
       IN IF Candidates(n) = {}
          THEN /\ cur' = [cur EXCEPT ![n] = stay]
               /\ StopSessions(n, sess[n], Gone(n))
          ELSE LET p  == Choice(n)
                   ss == IF p = stay THEN sess[n] ELSE Switched(n, p)
               IN /\ cur' = [cur EXCEPT ![n] = p]
                  /\ StopSessions(n, ss, Gone(n) \cup Idle(n, ss))
    /\ UNCHANGED <<links, nat, budget>>

\* A connection breaks, or is made again.
Flap(l) ==
    /\ \/ /\ l \in links /\ budget.flaps > 0
          /\ links' = links \ {l}
          /\ budget' = [budget EXCEPT !.flaps = @ - 1]
       \/ /\ l \notin links
          /\ links' = links \cup {l}
          /\ UNCHANGED budget
    /\ UNCHANGED <<sess, cur, rpc, stray, nat>>

\* The route table of n learns the NAT type of an open peer.
LearnNat(n, p) ==
    /\ p \in Open \cap PeersOf(n)
    /\ nat' = [nat EXCEPT ![n] = @ \cup {p}]
    /\ UNCHANGED <<links, sess, cur, rpc, stray, budget>>

----------------------------------------------------------------------------
(* sync_route_with_peer and do_sync_route_info *)

\* The session task of n calls p: when the initiator flag is to be told, every
\* ten seconds when it initiates, and at any time for route information.
Send(n, p) ==
    /\ p \in SessionsOf(n) /\ p \notin DOMAIN rpc[n]
    /\ rpc' = [rpc EXCEPT ![n] = With(@, p, [init |-> sess[n][p].we, answer |-> "none"])]
    /\ sess' = [sess EXCEPT ![n][p].need = FALSE]
    /\ UNCHANGED <<links, cur, stray, nat, budget>>

\* p's sessions after a call of n that says whether n initiates.
Told(p, n, init) ==
    With(sess[p], n, [(IF n \in SessionsOf(p) THEN sess[p][n] ELSE NewFlags)
                          EXCEPT !.dst = init])

\* p handles a call of n, creating its session if there is none, and answers
\* whether it initiates itself.
Handle(n, p) ==
    /\ p \in DOMAIN rpc[n] /\ rpc[n][p].answer = "none"
    /\ sess' = [sess EXCEPT ![p] = Told(p, n, rpc[n][p].init)]
    /\ rpc' = [rpc EXCEPT ![n][p].answer =
                  IF sess'[p][n].we THEN "initiator" ELSE "other"]
    /\ UNCHANGED <<links, cur, stray, nat, budget>>

\* Fault: only calls, not their answers, say who initiates.
AnsweredUnread(n, p) ==
    /\ p \in DOMAIN rpc[n] /\ rpc[n][p].answer # "none"
    /\ rpc' = [rpc EXCEPT ![n] = Without(@, {p})]
    /\ UNCHANGED <<links, sess, cur, stray, nat, budget>>

\* The answer reaches n.
Answered(n, p) ==
    /\ p \in DOMAIN rpc[n] /\ rpc[n][p].answer # "none"
    /\ sess' = [sess EXCEPT ![n][p].dst = rpc[n][p].answer = "initiator"]
    /\ rpc' = [rpc EXCEPT ![n] = Without(@, {p})]
    /\ UNCHANGED <<links, cur, stray, nat, budget>>

\* The call of n to p times out, before or after p handled it.
Fail(n, p) ==
    /\ p \in DOMAIN rpc[n] /\ budget.fails > 0
    /\ budget' = [budget EXCEPT !.fails = @ - 1]
    /\ stray' = stray \cup Dropped(n, {p})
    /\ sess' = [sess EXCEPT ![n][p].need = TRUE]
    /\ rpc' = [rpc EXCEPT ![n] = Without(@, {p})]
    /\ UNCHANGED <<links, cur, nat>>

\* A call arrives whose sender no longer waits for it, or it is lost.
HandleStray(m) ==
    /\ stray' = stray \ {m}
    /\ \/ sess' = [sess EXCEPT ![m.to] = Told(m.to, m.from, m.init)]
       \/ UNCHANGED sess
    /\ UNCHANGED <<links, cur, rpc, nat, budget>>

Next ==
    \/ \E n \in Node : Maintain(n)
    \/ \E n, p \in Node :
          \/ LearnNat(n, p) \/ Send(n, p) \/ Handle(n, p)
          \/ Answered(n, p) \/ Fail(n, p)
    \/ \E m \in stray : HandleStray(m)
    \/ \E l \in Flapping : Flap(l)

Spec == Init /\ [][Next]_vars

\* Every node runs maintain_sessions once a second; calls are handled and
\* answered unless they fail.  Every session calls again and again: a node
\* renews its own route information at least once an hour.
Fairness ==
    /\ \A n \in Node : WF_vars(Maintain(n))
    /\ \A n, p \in Node :
          {n, p} \in Links => WF_vars(Send(n, p) \/ Handle(n, p) \/ Answered(n, p))
    /\ WF_vars(\E m \in stray : HandleStray(m))


----------------------------------------------------------------------------
(* Properties *)

\* The types of the state.
TypeOK ==
    /\ links \subseteq Links
    /\ \A n \in Node :
          /\ SessionsOf(n) \subseteq Node
          /\ \A p \in SessionsOf(n) : sess[n][p] \in Flags
          /\ DOMAIN rpc[n] \subseteq SessionsOf(n)
          /\ \A p \in DOMAIN rpc[n] : rpc[n][p] \in Call
    /\ cur \in [Node -> Node \cup {0}]
    /\ stray \subseteq [from : Node, to : Node, init : BOOLEAN]
    /\ nat \in [Node -> SUBSET Open]
    /\ budget \in [fails : 0 .. MaxFails, flaps : 0 .. MaxFlaps]

Initiates(n, p) == p \in SessionsOf(n) /\ sess[n][p].we
Believes(p, n) == n \in SessionsOf(p) /\ sess[p][n].dst

\* The comment on we_are_initiator, "every node should have exactly one
\* initator session": however maintain_sessions changes its mind while links
\* break and calls are under way, a node initiates at most one session.
OneInitiated ==
    \A n \in Node : Cardinality({p \in Node : Initiates(n, p)}) <= 1

Agree == \A n, p \in Node : Initiates(n, p) <=> Believes(p, n)

\* The two ends come to agree on who initiates: dst_is_initiator at one end is
\* we_are_initiator of the other, although the call that tells a change can
\* fail, be aborted with its session by the next round, or arrive late.
InitiatorsAgree == <>[]Agree

\* Peers between which both ends keep a session.
SessionLinks == {l \in links : \A n, p \in l : n # p => p \in SessionsOf(n)}

\* No connected part of the network is without a session to the rest of it.
Spans ==
    \A S \in SUBSET Node \ {{}, Node} :
        \/ \A l \in links : l \subseteq S \/ l \cap S = {}
        \/ \E l \in SessionLinks : l \cap S # {} /\ ~(l \subseteq S)

\* The sessions maintain_sessions settles on connect whatever the links
\* connect, so that route information reaches every node.
SessionsSpan == <>[]Spans
=============================================================================
