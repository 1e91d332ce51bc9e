----------------------------- MODULE Connectors -----------------------------
(***************************************************************************)
(* The manual connector manager of one node.  A routine collects, every    *)
(* tick, the configured urls with no live connection, moves each from      *)
(* `connectors' to `reconnecting' and spawns a task that tries to connect: *)
(* directly, then through signed peer hints and the local peer cache, then *)
(* through a borrowed relay.  The user adds, lists and removes urls        *)
(* meanwhile; a removal is only noted in `removed' and carried out by      *)
(* whoever lists the connectors next.  The sets are concurrent sets        *)
(* without a common lock, so the steps of the routine, the tasks and the   *)
(* user interleave.                                                        *)
(***************************************************************************)
EXTENDS Integers, FiniteSets

CONSTANTS
    Url,
    Configured,   \* the urls of the configuration
    Addable,      \* urls the user may add
    Hints,        \* urls of the signed peer hints
    Caching,      \* whether there is a trust context, hence a local peer cache
    BorrowAfter,  \* attempts before a borrowed relay is tried (3 in the code)
    MaxAdds, MaxLists, MaxRemoves,  \* bounds: user requests ...
    MaxDrops                        \* ... and connections lost

VARIABLES
    connectors, reconnecting, removed,
    alive,     \* urls with an open client connection (is_client_url_alive)
    borrowed,  \* alive_conn_urls: urls a borrowed relay stands in for
    failures,  \* borrowed_failures
    cache,     \* the local peer cache: urls that were connected once
    routine,   \* the routine's step and what it holds
    user,      \* the user request being served
    task,      \* task[u]: the step of the reconnect task of u
    wanted,    \* urls the user added and has not asked to remove
    budget

vars == <<connectors, reconnecting, removed, alive, borrowed, failures, cache,
          routine, user, task, wanted, budget>>

Idle == [pc |-> "idle", later |-> {}, dead |-> {}, ask |-> {}]

Init ==
    /\ connectors = Configured
    /\ reconnecting = {} /\ removed = {} /\ alive = {} /\ borrowed = {} /\ cache = {}
    /\ failures = [u \in Url |-> 0]
    /\ routine = Idle
    /\ user = Idle
    /\ task = [u \in Url |-> "none"]
    /\ wanted = Configured
    /\ budget = [adds |-> MaxAdds, lists |-> MaxLists, removes |-> MaxRemoves, drops |-> MaxDrops]

----------------------------------------------------------------------------
(* handle_remove_connector, called by the routine and by the user          *)

\* Urls in neither set are dropped as not found.
Scanned(a) == [a EXCEPT !.pc = "clear", !.later = (removed \ connectors) \cap reconnecting]
Scan ==
    /\ connectors' = connectors \ removed
    /\ borrowed' = borrowed \ (removed \cap connectors)
    /\ failures' = [u \in Url |-> IF u \in removed \cap connectors THEN 0 ELSE failures[u]]
    /\ UNCHANGED <<reconnecting, removed, alive, cache>>
Clear ==
    /\ removed' = {}
    /\ UNCHANGED <<connectors, reconnecting, alive, borrowed, failures, cache>>
Reinsert(later) ==
    /\ removed' = removed \cup later
    /\ UNCHANGED <<connectors, reconnecting, alive, borrowed, failures, cache>>

\* The rest of collect_dead_conns: a url that is connected as itself starts to
\* count its failures anew.
Dead == connectors \ (alive \cup borrowed)
ResetFailures ==
    failures' = [u \in Url |-> IF u \in (connectors \cap alive) \ borrowed THEN 0 ELSE failures[u]]

----------------------------------------------------------------------------
(* The routine *)

TickScan ==
    /\ routine.pc = "idle"
    /\ Scan
    /\ routine' = Scanned(routine)
    /\ UNCHANGED <<user, task, wanted, budget>>

TickClear ==
    /\ routine.pc = "clear"
    /\ Clear
    /\ routine' = [routine EXCEPT !.pc = "reinsert"]
    /\ UNCHANGED <<user, task, wanted, budget>>

TickReinsert ==
    /\ routine.pc = "reinsert"
    /\ Reinsert(routine.later)
    /\ routine' = [routine EXCEPT !.pc = "collect", !.later = {}]
    /\ UNCHANGED <<user, task, wanted, budget>>

\* Fault: a url that has failed too often is not collected any more.
CollectGivesUp ==
    /\ routine.pc = "collect"
    /\ routine' = [routine EXCEPT !.pc = "move", !.dead = {u \in Dead : failures[u] < BorrowAfter}]
    /\ ResetFailures
    /\ UNCHANGED <<connectors, reconnecting, removed, alive, borrowed, cache, user, task, wanted, budget>>

Collect ==
    /\ routine.pc = "collect"
    /\ routine' = [routine EXCEPT !.pc = "move", !.dead = Dead]
    /\ ResetFailures
    /\ UNCHANGED <<connectors, reconnecting, removed, alive, borrowed, cache, user, task, wanted, budget>>

\* connectors.remove(u).unwrap() and assert!(insert_succ) panic when u is gone
\* from the one or already in the other: the routine ends.
Panics(u) == u \notin connectors \/ u \in reconnecting
Move(u) ==
    /\ routine.pc = "move" /\ u \in routine.dead
    /\ connectors' = connectors \ {u}
    /\ IF Panics(u)
       THEN /\ routine' = [Idle EXCEPT !.pc = "panicked"]
            /\ UNCHANGED <<reconnecting, task>>
       ELSE /\ reconnecting' = reconnecting \cup {u}
            /\ task' = [task EXCEPT ![u] = "direct"]
            /\ routine' = [routine EXCEPT !.dead = @ \ {u}]
    /\ UNCHANGED <<removed, alive, borrowed, failures, cache, user, wanted, budget>>

TickDone ==
    /\ routine.pc = "move" /\ routine.dead = {}
    /\ routine' = Idle
    /\ UNCHANGED <<connectors, reconnecting, removed, alive, borrowed, failures, cache, user, task, wanted, budget>>

Routine == TickScan \/ TickClear \/ TickReinsert \/ Collect \/ TickDone \/ \E u \in Url : Move(u)

----------------------------------------------------------------------------
(* A reconnect task: conn_reconnect *)

Step(u, pc) == task' = [task EXCEPT ![u] = pc]

\* conn_reconnect_with_ip_version succeeds for u.
Connected(u) ==
    /\ alive' = alive \cup {u}
    /\ cache' = IF Caching THEN cache \cup {u} ELSE cache

\* The url cannot be resolved: nothing else is tried.
ResolveFails(u) ==
    /\ task[u] = "direct"
    /\ Step(u, "done")
    /\ UNCHANGED <<connectors, reconnecting, removed, alive, borrowed, failures, cache, routine, user, wanted, budget>>

\* The attempt is counted, which decides whether to borrow in the end, and the
\* url itself is tried; the hints are tried whatever came of it.
ConnectDirect(u) ==
    LET n == IF failures[u] < BorrowAfter THEN failures[u] + 1 ELSE failures[u]
    IN /\ task[u] = "direct"
       /\ failures' = [failures EXCEPT ![u] = n]
       /\ Connected(u) \/ UNCHANGED <<alive, cache>>
       /\ Step(u, IF n = BorrowAfter THEN "hints or borrow" ELSE "hints")
       /\ UNCHANGED <<connectors, reconnecting, removed, borrowed, routine, user, wanted, budget>>

AtHints(u) == task[u] \in {"hints", "hints or borrow"}

\* A hint, or a url of the cache, that connects becomes a connector of its own.
ConnectHint(u, h) ==
    /\ AtHints(u)
    /\ h \in (Hints \cup cache) \ (removed \cup {u})
    /\ Connected(h)
    /\ connectors' = connectors \cup {h}
    /\ failures' = [failures EXCEPT ![u] = 0]
    /\ Step(u, "done")
    /\ UNCHANGED <<reconnecting, removed, borrowed, routine, user, wanted, budget>>

NoHint(u) ==
    /\ AtHints(u)
    /\ Step(u, IF task[u] = "hints" THEN "done" ELSE "borrow")
    /\ UNCHANGED <<connectors, reconnecting, removed, alive, borrowed, failures, cache, routine, user, wanted, budget>>

\* A borrowed relay stands for the url while its connection lives.
Borrow(u) ==
    /\ task[u] = "borrow"
    /\ borrowed' = borrowed \cup {u} \/ UNCHANGED borrowed
    /\ Step(u, "done")
    /\ UNCHANGED <<connectors, reconnecting, removed, alive, failures, cache, routine, user, wanted, budget>>

\* Fault: the url goes back to the connectors and stays in reconnecting.
LeaveReconnectingNever(u) ==
    /\ task[u] = "done"
    /\ connectors' = connectors \cup {u}
    /\ Step(u, "back")
    /\ UNCHANGED <<reconnecting, removed, alive, borrowed, failures, cache, routine, user, wanted, budget>>

LeaveReconnecting(u) ==
    /\ task[u] = "done"
    /\ reconnecting' = reconnecting \ {u}
    /\ Step(u, "back")
    /\ UNCHANGED <<connectors, removed, alive, borrowed, failures, cache, routine, user, wanted, budget>>

\* Fault: a url that was connected is not put back.
BackUnlessAlive(u) ==
    /\ task[u] = "back"
    /\ connectors' = IF u \in alive THEN connectors ELSE connectors \cup {u}
    /\ Step(u, "none")
    /\ UNCHANGED <<reconnecting, removed, alive, borrowed, failures, cache, routine, user, wanted, budget>>

BackToConnectors(u) ==
    /\ task[u] = "back"
    /\ connectors' = connectors \cup {u}
    /\ Step(u, "none")
    /\ UNCHANGED <<reconnecting, removed, alive, borrowed, failures, cache, routine, user, wanted, budget>>

Task(u) ==
    \/ ResolveFails(u) \/ ConnectDirect(u) \/ (\E h \in Url : ConnectHint(u, h)) \/ NoHint(u)
    \/ Borrow(u) \/ LeaveReconnecting(u) \/ BackToConnectors(u)

\* The connection of a url closes, or the borrowed one.
Drop(u) ==
    /\ budget.drops > 0
    /\ \/ u \in alive /\ alive' = alive \ {u} /\ UNCHANGED borrowed
       \/ u \in borrowed /\ borrowed' = borrowed \ {u} /\ UNCHANGED alive
    /\ budget' = [budget EXCEPT !.drops = @ - 1]
    /\ UNCHANGED <<connectors, reconnecting, removed, failures, cache, routine, user, task, wanted>>

----------------------------------------------------------------------------
(* The user *)

\* add_connector, and its two variants.
AddConnector(u) ==
    /\ user.pc = "idle" /\ budget.adds > 0
    /\ budget' = [budget EXCEPT !.adds = @ - 1]
    /\ connectors' = connectors \cup {u}
    /\ wanted' = wanted \cup {u}
    /\ UNCHANGED <<reconnecting, removed, alive, borrowed, failures, cache, routine, user, task>>

\* list_connectors, alone or as the first part of remove_connector (one url) and
\* clear_connectors (all of them), carries out removals.
ListScan(U) ==
    LET kind == IF U = {} THEN "lists" ELSE "removes"
    IN /\ user.pc = "idle" /\ budget[kind] > 0
       /\ budget' = [budget EXCEPT ![kind] = @ - 1]
       /\ Scan
       /\ user' = [Scanned(user) EXCEPT !.ask = U]
       /\ UNCHANGED <<routine, task, wanted>>

ListClear ==
    /\ user.pc = "clear"
    /\ Clear
    /\ user' = [user EXCEPT !.pc = "reinsert"]
    /\ UNCHANGED <<routine, task, wanted, budget>>

ListReinsert ==
    /\ user.pc = "reinsert"
    /\ Reinsert(user.later)
    /\ user' = [user EXCEPT !.pc = "note", !.later = {}]
    /\ UNCHANGED <<routine, task, wanted, budget>>

\* What is listed and asked for is noted as removed; a url that is not listed
\* is answered NotFound.
ListNote ==
    LET gone == user.ask \cap (connectors \cup reconnecting)
    IN /\ user.pc = "note"
       /\ user' = Idle
       /\ removed' = removed \cup gone
       /\ wanted' = wanted \ gone
       /\ ResetFailures
       /\ UNCHANGED <<connectors, reconnecting, alive, borrowed, cache, routine, task, budget>>

User ==
    \/ \E u \in Addable : AddConnector(u)
    \/ \E U \in {{}, Url} \cup {{u} : u \in Url} : ListScan(U)
    \/ ListClear \/ ListReinsert \/ ListNote

Next == Routine \/ User \/ \E u \in Url : Task(u) \/ Drop(u)

Spec == Init /\ [][Next]_vars

\* The interval of the routine ticks and the reconnect tasks, which all run
\* under time limits, end.
Fairness == WF_vars(Routine) /\ \A u \in Url : WF_vars(Task(u))

----------------------------------------------------------------------------
(* Properties *)

\* The sets hold urls; the failure counter stops at the point where borrowing
\* starts.
TypeOK ==
    /\ UNION {connectors, reconnecting, removed, alive, borrowed, cache, wanted} \subseteq Url
    /\ failures \in [Url -> 0 .. BorrowAfter]
    /\ routine.pc \in {"idle", "clear", "reinsert", "collect", "move", "panicked"}
    /\ task \in [Url -> {"none", "direct", "hints", "hints or borrow", "borrow", "done", "back"}]

\* The reconnect routine never meets a dead url that has left the connectors or
\* is being reconnected already (the unwrap and the assert!(insert_succ) of
\* conn_mgr_reconn_routine): after such a panic nothing reconnects any more.
RoutineSurvives == routine.pc # "panicked"

\* A url the user wants is not lost between the sets: it is a connector, or its
\* task is about to put it back.
Kept == \A u \in wanted : u \in connectors \/ task[u] # "none"

\* A wanted url is tried again and again for as long as it has no connection.
Retried == \A u \in Url : []<>(u \notin wanted \/ u \in alive \cup borrowed \/ task[u] # "none")
=============================================================================
