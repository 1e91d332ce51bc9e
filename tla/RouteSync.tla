----------------------------- MODULE RouteSync -----------------------------
(***************************************************************************)
(* Synchronisation of route information between connected peers.  Every    *)
(* peer owns versioned items (its peer info, its list of connections, its  *)
(* foreign networks); every peer keeps the newest version of every item it *)
(* has heard of and pushes to each session partner what it believes the    *)
(* partner does not have: not in dst_saved_*_versions, and changed since   *)
(* the last successful call or withheld so far as its owner was            *)
(* unreachable.                                                            *)
(*                                                                         *)
(* Which peers keep sessions is RouteElection's question; here there is a  *)
(* session on every link.  An item is its version: what a version says is  *)
(* only needed for connections, and kept in hist.                          *)
(***************************************************************************)
EXTENDS Naturals, FiniteSets, Sequences, FiniteSetsExt

CONSTANTS
    Node,
    Kinds,       \* kinds of items: "peer", "conn" and perhaps "foreign"
    Links,       \* connections that may exist: sets of two nodes
    Flapping,    \* links that may go down and come back
    MaxFlaps,    \* bound: how often a link goes down
    MaxUpdates,  \* bound: changes of a peer's own items
    MaxFails,    \* bound: calls that fail
    Expiring,    \* whether unreachable peers are forgotten
    Gap          \* whether other tasks run before a change reaches the tables

VARIABLES
    links,    \* connections that exist
    hist,     \* hist[p]: the connections of p, one set per version
    ver,      \* ver[n][k][p]: the version of p's item of kind k at n, 0 for none
    tables,   \* tables[n]: what n derives from ver[n]: the route table and the bitmap
    sess,     \* sess[n][d]: n's session with d
    born,     \* born[n][d]: sessions n has created with d
    rpc,      \* rpc[n][d]: the call n waits for
    budget    \* flaps, updates and failures left

vars == <<links, hist, ver, tables, sess, born, rpc, budget>>

\* Kinds that are pushed only when changed and when their owner is reachable.
Timed == {"peer", "conn"}
Nothing == [k \in Kinds |-> [p \in Node |-> 0]]
NoSession == [id |-> 0]
NoRpc == [id |-> 0]

\* A new SyncRouteSession: nothing is known of the partner, so every item
\* counts as changed.
NewSession(id) ==
    [id |-> id, dst |-> 0, saved |-> Nothing,
     recent |-> Timed \X Node, withheld |-> Nothing]

Up(n) == {p \in Node : {n, p} \in links}

----------------------------------------------------------------------------
(* The tables of a node *)

\* The connections of p in version v, as recorded in h.
ConnsAt(h, p, v) == IF v = 0 THEN {} ELSE h[p][v]

\* Nodes that are reachable from n in the graph of the versions v: those in
\* every set that holds n and the connections of its members.  Peers without a
\* peer info are not in the graph.
ReachableFrom(n, v, h) ==
    LET known == {p \in Node : v["peer"][p] > 0}
        Closed(S) == \A p \in S : known \cap ConnsAt(h, p, v["conn"][p]) \subseteq S
    IN {q \in known : n \in known /\ \A S \in SUBSET known : n \in S /\ Closed(S) => q \in S}

\* update_route_table_and_cached_local_conn_bitmap: the bitmap has the
\* connections of all reachable peers.
Tables(n, v, h) ==
    LET r == ReachableFrom(n, v, h)
    IN [reach |-> r, fresh |-> TRUE,
        bitmap |-> [p \in Node |-> IF p \in r THEN v["conn"][p] ELSE 0]]

\* The tables of n after a change of its versions.
Derived(n, v, h) == IF Gap THEN [tables[n] EXCEPT !.fresh = FALSE] ELSE Tables(n, v, h)

Reachable(n) == tables[n].reach

----------------------------------------------------------------------------
(* Sessions *)

\* n's sessions ss, and its calls, after the items I at n changed: they are
\* newer than the time at which any call was built.
Touched(ss, I) ==
    [d \in Node |-> IF ss[d] = NoSession THEN NoSession ELSE [ss[d] EXCEPT !.recent = @ \cup I]]
CallsTouched(n, I) ==
    [d \in Node |-> IF rpc[n][d] = NoRpc THEN NoRpc ELSE [rpc[n][d] EXCEPT !.since = @ \cup I]]

\* update_dst_session_id: versions of foreign networks stay.
Met(s, id) ==
    IF s.dst = id THEN s
    ELSE [s EXCEPT !.dst = id, !.recent = Timed \X Node, !.withheld = Nothing,
                   !.saved = [k \in Kinds |-> IF k \in Timed THEN Nothing[k] ELSE @[k]]]

MaxOf(a, b) == IF a < b THEN b ELSE a
Merged(f, g) == [k \in Kinds |-> [p \in Node |-> MaxOf(f[k][p], g[k][p])]]
\* The partner is never told about its own items.
Except(f, d) == [k \in Kinds |-> [p \in Node |-> IF p = d THEN 0 ELSE f[k][p]]]

----------------------------------------------------------------------------
(* Initial state: everybody has the same information *)

Synchronised(d) ==
    [NewSession(1) EXCEPT !.dst = 1, !.recent = {},
        !.saved = [k \in Kinds |-> [p \in Node |-> IF p = d THEN 0 ELSE 1]]]

Init ==
    /\ links = Links
    /\ hist = [p \in Node |-> << {q \in Node : {p, q} \in Links} >>]
    /\ ver = [n \in Node |-> [k \in Kinds |-> [p \in Node |-> 1]]]
    /\ tables = [n \in Node |-> Tables(n, ver[n], hist)]
    /\ sess = [n \in Node |-> [d \in Node |->
                  IF {n, d} \in Links THEN Synchronised(d) ELSE NoSession]]
    /\ born = [n \in Node |-> [d \in Node |-> 1]]
    /\ rpc = [n \in Node |-> [d \in Node |-> NoRpc]]
    /\ budget = [flaps |-> MaxFlaps, updates |-> MaxUpdates, fails |-> MaxFails]

----------------------------------------------------------------------------
(* Pushing *)

\* Whether n has to push p's item of the timed kind k to d, reachable or not.
Unsaved(s, d, k, p, v) == p # d /\ <<k, p>> \in s.recent /\ s.saved[k][p] < v

\* The withheld version of p's item after a look at it: new ones are noted,
\* those the partner has or n forgot are dropped.
Withheld(s, d, k, p, v, reach) ==
    LET w == IF p \notin reach /\ Unsaved(s, d, k, p, v) THEN v ELSE s.withheld[k][p]
    IN IF w <= s.saved[k][p] \/ v = 0 THEN 0 ELSE w

Pushed(n, d, k) ==
    LET s == sess[n][d]  v == ver[n][k]  reach == Reachable(n)
    IN IF k \in Timed
       THEN {p \in reach : Unsaved(s, d, k, p, v[p]) \/ Withheld(s, d, k, p, v[p], reach) > 0}
       ELSE {p \in Node \ {d} : s.saved[k][p] < v[p]}

Only(f, S) == [p \in Node |-> IF p \in S THEN f[p] ELSE 0]

\* Connections are sent as a list of those due when that is shorter, and d is
\* known to support it, else as the bitmap of all reachable peers.
ListSize(n, S) ==
    MapThenSumSet(LAMBDA p : 8 + 4 * Cardinality(ConnsAt(hist, p, ver[n]["conn"][p])), S)
ConnsSent(n, d) ==
    LET due == Pushed(n, d, "conn")
        named == {p \in Node : tables[n].bitmap[p] > 0} \cup
                 UNION {ConnsAt(hist, p, tables[n].bitmap[p]) : p \in Node}
        bitmapSize == 8 * Cardinality(named) + (Cardinality(named) * Cardinality(named) + 7) \div 8
    IN IF due = {} THEN Nothing["conn"]
       ELSE IF ver[n]["peer"][d] > 0 /\ ListSize(n, due) < bitmapSize
       THEN Only(ver[n]["conn"], due)
       ELSE tables[n].bitmap

\* What n sends d.
Request(n, d) ==
    [k \in Kinds |-> IF k = "conn" THEN ConnsSent(n, d) ELSE Only(ver[n][k], Pushed(n, d, k))]

\* What n notes as withheld from d.
Noted(n, d) ==
    [k \in Kinds |-> [p \in Node |->
        IF k \in Timed THEN Withheld(sess[n][d], d, k, p, ver[n][k][p], Reachable(n)) ELSE 0]]

NewCall(n, d, items) == [id |-> sess[n][d].id, answer |-> 0, items |-> items, since |-> {}]

\* Fault: what is sent counts as saved before it is answered.
SyncSaves(n, d) ==
    /\ sess[n][d] # NoSession /\ rpc[n][d] = NoRpc
    /\ LET items == Request(n, d)
       IN /\ rpc' = IF items = Nothing THEN rpc ELSE [rpc EXCEPT ![n][d] = NewCall(n, d, items)]
          /\ sess' = [sess EXCEPT ![n][d].withheld = Noted(n, d),
                                  ![n][d].saved = Merged(@, Except(items, d))]
    /\ UNCHANGED <<links, hist, ver, tables, born, budget>>

\* sync_route_with_peer up to its call.  When nothing is due nothing is sent,
\* but withheld items are noted.
Sync(n, d) ==
    /\ sess[n][d] # NoSession /\ rpc[n][d] = NoRpc
    /\ LET items == Request(n, d)
       IN rpc' = IF items = Nothing THEN rpc ELSE [rpc EXCEPT ![n][d] = NewCall(n, d, items)]
    /\ sess' = [sess EXCEPT ![n][d].withheld = Noted(n, d)]
    /\ UNCHANGED <<links, hist, ver, tables, born, budget>>

\* do_sync_route_info at d for the call of n; d's session is created if there
\* is none.
Handle(n, d) ==
    /\ rpc[n][d] # NoRpc /\ rpc[n][d].answer = 0 /\ {n, d} \in links
    /\ LET items == rpc[n][d].items
           fresh == {i \in Timed \X Node : items[i[1]][i[2]] > ver[d][i[1]][i[2]]}
           s == IF sess[d][n] = NoSession THEN NewSession(born[d][n] + 1) ELSE sess[d][n]
           met == [Met(s, rpc[n][d].id) EXCEPT !.saved = Merged(@, Except(items, n))]
           calls == [rpc EXCEPT ![d] = CallsTouched(d, fresh)]
       IN /\ ver' = [ver EXCEPT ![d] = Merged(@, items)]
          /\ tables' = [tables EXCEPT ![d] = Derived(d, ver'[d], hist)]
          /\ sess' = [sess EXCEPT ![d] = Touched([@ EXCEPT ![n] = met], fresh)]
          /\ born' = [born EXCEPT ![d][n] = s.id]
          /\ rpc' = [calls EXCEPT ![n][d].answer = s.id]
    /\ UNCHANGED <<links, hist, budget>>

\* Fault: what changed while the call was under way counts as sent.
AnsweredForgets(n, d) ==
    /\ rpc[n][d] # NoRpc /\ rpc[n][d].answer # 0
    /\ LET met == Met(sess[n][d], rpc[n][d].answer)
       IN sess' = [sess EXCEPT ![n][d] =
             [met EXCEPT !.saved = Merged(@, Except(rpc[n][d].items, d)), !.recent = {}]]
    /\ rpc' = [rpc EXCEPT ![n][d] = NoRpc]
    /\ UNCHANGED <<links, hist, ver, tables, born, budget>>

\* The answer reaches n.
Answered(n, d) ==
    /\ rpc[n][d] # NoRpc /\ rpc[n][d].answer # 0
    /\ LET met == Met(sess[n][d], rpc[n][d].answer)
       IN sess' = [sess EXCEPT ![n][d] =
             [met EXCEPT !.saved = Merged(@, Except(rpc[n][d].items, d)), !.recent = rpc[n][d].since]]
    /\ rpc' = [rpc EXCEPT ![n][d] = NoRpc]
    /\ UNCHANGED <<links, hist, ver, tables, born, budget>>

\* The call, or its answer, is lost and times out; so are the calls on a link
\* that is down.
Fail(n, d) ==
    /\ rpc[n][d] # NoRpc
    /\ \/ {n, d} \notin links /\ UNCHANGED budget
       \/ /\ {n, d} \in links /\ budget.fails > 0
          /\ budget' = [budget EXCEPT !.fails = @ - 1]
    /\ rpc' = [rpc EXCEPT ![n][d] = NoRpc]
    /\ UNCHANGED <<links, hist, ver, tables, sess, born>>

----------------------------------------------------------------------------
(* Changes *)

\* update_my_peer_info and update_my_foreign_network of n.
Update(n, k) ==
    /\ budget.updates > 0
    /\ budget' = [budget EXCEPT !.updates = @ - 1]
    /\ ver' = [ver EXCEPT ![n][k][n] = @ + 1]
    /\ sess' = [sess EXCEPT ![n] = Touched(@, {<<k, n>>} \cap (Timed \X Node))]
    /\ rpc' = [rpc EXCEPT ![n] = CallsTouched(n, {<<k, n>>} \cap (Timed \X Node))]
    /\ tables' = [tables EXCEPT ![n] = IF k = "foreign" THEN @ ELSE Derived(n, ver'[n], hist)]
    /\ UNCHANGED <<links, hist, born>>

\* update_my_conn_info.
UpdateConns(n) ==
    /\ hist[n][Len(hist[n])] # Up(n)
    /\ hist' = [hist EXCEPT ![n] = Append(@, Up(n))]
    /\ ver' = [ver EXCEPT ![n]["conn"][n] = @ + 1]
    /\ sess' = [sess EXCEPT ![n] = Touched(@, {<<"conn", n>>})]
    /\ rpc' = [rpc EXCEPT ![n] = CallsTouched(n, {<<"conn", n>>})]
    /\ tables' = [tables EXCEPT ![n] = Derived(n, ver'[n], hist')]
    /\ UNCHANGED <<links, born, budget>>

\* The task that changed n's information comes to derive the tables from it.
Refresh(n) ==
    /\ ~tables[n].fresh
    /\ tables' = [tables EXCEPT ![n] = Tables(n, ver[n], hist)]
    /\ UNCHANGED <<links, hist, ver, sess, born, rpc, budget>>

LinkDown(l) ==
    /\ l \in links \cap Flapping /\ budget.flaps > 0
    /\ budget' = [budget EXCEPT !.flaps = @ - 1]
    /\ links' = links \ {l}
    /\ UNCHANGED <<hist, ver, tables, sess, born, rpc>>

LinkUp(l) ==
    /\ l \in Flapping \ links
    /\ links' = links \cup {l}
    /\ UNCHANGED <<hist, ver, tables, sess, born, rpc, budget>>

\* maintain_sessions stops the session with a peer that is gone, and starts
\* one with a peer that is there.
StopSession(n, d) ==
    /\ sess[n][d] # NoSession /\ d \notin Up(n)
    /\ sess' = [sess EXCEPT ![n][d] = NoSession]
    /\ rpc' = [rpc EXCEPT ![n][d] = NoRpc]
    /\ UNCHANGED <<links, hist, ver, tables, born, budget>>

StartSession(n, d) ==
    /\ sess[n][d] = NoSession /\ d \in Up(n)
    /\ born' = [born EXCEPT ![n][d] = @ + 1]
    /\ sess' = [sess EXCEPT ![n][d] = NewSession(born'[n][d])]
    /\ UNCHANGED <<links, hist, ver, tables, rpc, budget>>

Removed(n, p) == [k \in Kinds |-> [ver[n][k] EXCEPT ![p] = 0]]

\* Fault: peers are removed whether reachable or not.
ExpireReachable(n, p) ==
    /\ Expiring /\ ver[n]["peer"][p] > 0
    /\ ver' = [ver EXCEPT ![n] = Removed(n, p)]
    /\ tables' = [tables EXCEPT ![n] = Derived(n, ver'[n], hist)]
    /\ UNCHANGED <<links, hist, sess, born, rpc, budget>>

\* clear_expired_peer at n removes everything of the unreachable peer p.  The
\* 90 seconds count from the last change of its peer info, which is renewed
\* once an hour, not from when p became unreachable: they have mostly passed.
Expire(n, p) ==
    /\ Expiring
    /\ ver[n]["peer"][p] > 0 /\ p \notin Reachable(n)
    /\ ver' = [ver EXCEPT ![n] = Removed(n, p)]
    /\ tables' = [tables EXCEPT ![n] = Derived(n, ver'[n], hist)]
    /\ UNCHANGED <<links, hist, sess, born, rpc, budget>>

\* clean_dst_saved_map, after a minute without a change: versions that no
\* push looked at are dropped.
Cleaned(n, d, k) ==
    [p \in Node |->
        IF IF k \in Timed THEN <<k, p>> \in sess[n][d].recent \/ sess[n][d].withheld[k][p] > 0
                          ELSE ver[n][k][p] > 0
        THEN sess[n][d].saved[k][p] ELSE 0]

Quiet ==
    /\ \A n, d \in Node : rpc[n][d] = NoRpc
    /\ \A n, d \in Node, k \in Kinds : sess[n][d] # NoSession => Pushed(n, d, k) = {}

CleanSaved(n, d) ==
    /\ sess[n][d] # NoSession /\ Quiet
    /\ sess' = [sess EXCEPT ![n][d].saved = [k \in Kinds |-> Cleaned(n, d, k)]]
    /\ UNCHANGED <<links, hist, ver, tables, born, rpc, budget>>

Next ==
    \/ \E n, d \in Node :
          \/ Sync(n, d) \/ Handle(n, d) \/ Answered(n, d) \/ Fail(n, d)
          \/ StopSession(n, d) \/ StartSession(n, d) \/ Expire(n, d)
          \/ CleanSaved(n, d)
    \/ \E n \in Node : UpdateConns(n) \/ Refresh(n) \/ \E k \in Kinds \ {"conn"} : Update(n, k)
    \/ \E l \in Links : LinkDown(l) \/ LinkUp(l)

Spec == Init /\ [][Next]_vars

\* Session tasks and maintain_sessions run every second and answer each other;
\* a link that broke comes back.
Fairness ==
    /\ \A n, d \in Node : {n, d} \in Links =>
        /\ WF_vars(Sync(n, d) \/ Handle(n, d) \/ Answered(n, d) \/ Fail(n, d))
        /\ WF_vars(StopSession(n, d) \/ StartSession(n, d))
    /\ \A n \in Node : WF_vars(UpdateConns(n)) /\ WF_vars(Refresh(n))
    /\ \A l \in Flapping : WF_vars(LinkUp(l))

----------------------------------------------------------------------------
(* Properties *)

\* The types of the state.
TypeOK ==
    /\ links \subseteq Links
    /\ \A n \in Node : tables[n].reach \subseteq Node /\ tables[n].fresh \in BOOLEAN
    /\ \A n, p \in Node, k \in Kinds : ver[n][k][p] \in Nat
    /\ \A n, d \in Node :
        /\ sess[n][d] # NoSession => /\ sess[n][d].id \in 1 .. born[n][d]
                                    /\ sess[n][d].recent \subseteq Timed \X Node
        /\ rpc[n][d] # NoRpc => /\ sess[n][d] # NoSession
                                /\ rpc[n][d].since \subseteq Timed \X Node

\* What n believes d has (dst_saved_*_versions), and so never pushes again, d
\* really has: lost answers, sessions that end or start on one side only and
\* calls crossing in both directions included.
SavedIsHeld ==
    \A n, d \in Node : sess[n][d] # NoSession =>
        \A k \in Kinds, p \in Node : sess[n][d].saved[k][p] <= ver[d][k][p]

\* Nobody has a newer version of an item than its owner, who alone assigns
\* versions and never forgets its own items, unreachable or not.
OwnerNewest == \A n, p \in Node, k \in Kinds : ver[n][k][p] <= ver[p][k][p]

Synced == \A n, d \in Node, k \in Kinds : {n, d} \in Links => ver[n][k] = ver[d][k]

\* All links are up and seen, and no node has anything to push.
Settled ==
    /\ Quiet /\ links = Links
    /\ \A n \in Node :
        /\ tables[n].fresh /\ hist[n][Len(hist[n])] = Up(n)
        /\ \A d \in Node : sess[n][d] # NoSession <=> d \in Up(n)

\* When the network has settled, with nothing left to push, every node has the
\* newest version of every item: nothing is stuck behind last_sync_succ_timestamp,
\* the versions saved, or the items withheld while their owner was unreachable.
\* Checked for one link that breaks: with two, an answer with a new session id
\* can clear the withheld items without pushing them, until their owner renews
\* them.
SettledIsSynced == Settled => Synced

\* Route information converges: in the end every node has the newest version
\* of everything, although calls fail and tables lag behind the information.
Converges == <>[]Synced
=============================================================================
