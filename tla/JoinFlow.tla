------------------------------ MODULE JoinFlow ------------------------------
(***************************************************************************)
(* Online admission of a new device: a signed join request is submitted to *)
(* one daemon's admission endpoint, flooded from daemon to daemon with a   *)
(* hop limit, a list of nodes already visited and a duplicate filter,      *)
(* queued where a daemon answers for the trust domain, approved or         *)
(* rejected there by an operator, and the certificate is polled for by the *)
(* applicant at the endpoint it submitted to.                              *)
(*                                                                         *)
(* A request is identified by its applicant and nonce; requests whose      *)
(* self-signature is bad are dropped on arrival and not modelled.          *)
(***************************************************************************)
EXTENDS Naturals, FiniteSets

CONSTANTS
    Nodes,       \* daemons
    Neighbors,   \* Neighbors[n]: daemons n has connections to
    Enqueuers,   \* daemons whose am_root_for names the trust domain
    Applicants,
    Requests,    \* join requests; each submission signs a fresh one
    ApplicantOf, \* ApplicantOf[q]
    SubmitTtl,   \* hop limit a submission starts with (6 in the code)
    Faulty,      \* whether calls may be lost and daemons restart
    NoRequest,
    NoNode

ASSUME GraphAssumption ==
    /\ \A n \in Nodes : Neighbors[n] \subseteq Nodes
    /\ Enqueuers \subseteq Nodes
    /\ \A q \in Requests : ApplicantOf[q] \in Applicants
    /\ SubmitTtl \in Nat
    /\ Faulty \in BOOLEAN
    /\ NoRequest \notin Requests
    /\ NoNode \notin Nodes

VARIABLES
    calls,     \* forward_join_request calls in flight
    dedup,     \* dedup[n]: requests in the JoinDedup of n
    pending,   \* pending[n][a]: entry of n's PendingCertQueue
    cache,     \* cache[n]: applicants with a certificate in n's PendingCertCache
    app,       \* app[a]: what applicant a is doing
    used,      \* requests already signed and submitted
    approved,  \* approved[n]: requests approved at n since it started
    rejected   \* rejected[n]: requests rejected at n since it started

vars == <<calls, dedup, pending, cache, app, used, approved, rejected>>

Call == [to : Nodes, req : Requests, ttl : 0 .. SubmitTtl, seen : SUBSET Nodes]

NotJoining == [pc |-> "idle", node |-> NoNode, req |-> NoRequest]

Init ==
    /\ calls = {}
    /\ dedup = [n \in Nodes |-> {}]
    /\ pending = [n \in Nodes |-> [a \in Applicants |-> NoRequest]]
    /\ cache = [n \in Nodes |-> {}]
    /\ app = [a \in Applicants |-> NotJoining]
    /\ used = {}
    /\ approved = [n \in Nodes |-> {}]
    /\ rejected = [n \in Nodes |-> {}]

----------------------------------------------------------------------------
(* The applicant *)

\* The call by which the admission endpoint of n takes request q.
Submission(n, q) == [to |-> n, req |-> q, ttl |-> SubmitTtl, seen |-> {}]

\* accept_invite signs a request with a fresh nonce and submits it to the
\* admission endpoint of n, the first seed of the invite that answers.
Submit(a, n, q) ==
    /\ app[a].pc = "idle"
    /\ q \notin used
    /\ ApplicantOf[q] = a
    /\ used' = used \cup {q}
    /\ calls' = calls \cup {Submission(n, q)}
    /\ app' = [app EXCEPT ![a] = [pc |-> "submitting", node |-> n, req |-> q]]
    /\ UNCHANGED <<dedup, pending, cache, approved, rejected>>

\* The submit call returns once the endpoint has handled the request.
Submitted(a) ==
    /\ app[a].pc = "submitting"
    /\ Submission(app[a].node, app[a].req) \notin calls
    /\ app' = [app EXCEPT ![a].pc = "waiting"]
    /\ UNCHANGED <<calls, dedup, pending, cache, used, approved, rejected>>

\* A poll at that endpoint finds the certificate.
PollFound(a) ==
    /\ app[a].pc = "waiting"
    /\ a \in cache[app[a].node]
    /\ app' = [app EXCEPT ![a].pc = "joined"]
    /\ UNCHANGED <<calls, dedup, pending, cache, used, approved, rejected>>

\* The submit call fails or times out, a poll fails or the deadline passes: the
\* command ends with an error and may be run again.  What it submitted travels
\* on, unless the submit call failed because it was lost.
GiveUp(a) ==
    /\ app[a].pc \in {"submitting", "waiting"}
    /\ app' = [app EXCEPT ![a] = NotJoining]
    /\ \/ UNCHANGED calls
       \/ Faulty /\ calls' = calls \ {Submission(app[a].node, app[a].req)}
    /\ UNCHANGED <<dedup, pending, cache, used, approved, rejected>>

----------------------------------------------------------------------------
(* JoinForwardService *)

\* Fault: the copy is forwarded as it came.
ForwardedUnchanged(m, n, k) ==
    [to |-> k, req |-> m.req, ttl |-> m.ttl, seen |-> m.seen]

\* Fault: a hop is counted twice.
ForwardedTwoHops(m, n, k) ==
    [to |-> k, req |-> m.req, ttl |-> IF m.ttl > 1 THEN m.ttl - 2 ELSE 0,
     seen |-> m.seen \cup {n}]

\* The copy that n sends to its neighbour k.
Forwarded(m, n, k) ==
    [to |-> k, req |-> m.req, ttl |-> m.ttl - 1, seen |-> m.seen \cup {n}]

\* Fault: the duplicate filter is skipped.
FreshUnfiltered(m) == m.to \notin m.seen

\* The call is neither back where it was nor a duplicate (record_or_drop).
Fresh(m) ==
    /\ m.to \notin m.seen
    /\ m.req \notin dedup[m.to]

\* A call that is not fresh is answered without effect.
DropStale(m) ==
    /\ ~ Fresh(m)
    /\ calls' = calls \ {m}
    /\ UNCHANGED <<dedup, pending, cache, app, used, approved, rejected>>

\* A daemon that answers for the trust domain queues the request, replacing an
\* older one of the same applicant.
Enqueue(m) ==
    LET n == m.to IN
    /\ Fresh(m)
    /\ n \in Enqueuers
    /\ calls' = calls \ {m}
    /\ dedup' = [dedup EXCEPT ![n] = @ \cup {m.req}]
    /\ pending' = [pending EXCEPT ![n][ApplicantOf[m.req]] = m.req]
    /\ UNCHANGED <<cache, app, used, approved, rejected>>

\* Fault: the hop limit is not looked at before the copies are made.
ForwardUnlimited(m) ==
    LET n == m.to IN
    /\ Fresh(m)
    /\ n \notin Enqueuers
    /\ dedup' = [dedup EXCEPT ![n] = @ \cup {m.req}]
    /\ calls' = (calls \ {m}) \cup {Forwarded(m, n, k) : k \in Neighbors[n]}
    /\ UNCHANGED <<pending, cache, app, used, approved, rejected>>

\* Any other daemon forwards it to all its neighbours while hops are left.  The
\* duplicate filter has recorded it in either case.  The calls are made one
\* after the other, each after the answer to the previous one or its timeout;
\* after a timeout the callee still works on its copy, so the copies are
\* handled in any order.
Forward(m) ==
    LET n == m.to IN
    /\ Fresh(m)
    /\ n \notin Enqueuers
    /\ dedup' = [dedup EXCEPT ![n] = @ \cup {m.req}]
    /\ calls' = (calls \ {m}) \cup
                  {Forwarded(m, n, k) : k \in IF m.ttl = 0 THEN {} ELSE Neighbors[n]}
    /\ UNCHANGED <<pending, cache, app, used, approved, rejected>>

\* A call between daemons is lost; the caller goes on to the next neighbour.
Lose(m) ==
    /\ Faulty
    /\ m.seen # {}
    /\ calls' = calls \ {m}
    /\ UNCHANGED <<dedup, pending, cache, app, used, approved, rejected>>

\* DEDUP_TTL (10 minutes) passes.  Calls do not live that long.
DedupExpire(n, q) ==
    /\ q \in dedup[n]
    /\ \A m \in calls : m.req # q
    /\ dedup' = [dedup EXCEPT ![n] = @ \ {q}]
    /\ UNCHANGED <<calls, pending, cache, app, used, approved, rejected>>

----------------------------------------------------------------------------
(* PendingCertQueue, as driven by the operator *)

\* Fault: the certificate is not put into the cache.
ApproveUncached(n, a) ==
    /\ n \in Enqueuers
    /\ pending[n][a] # NoRequest
    /\ approved' = [approved EXCEPT ![n] = @ \cup {pending[n][a]}]
    /\ pending' = [pending EXCEPT ![n][a] = NoRequest]
    /\ UNCHANGED <<calls, dedup, cache, app, used, rejected>>

\* approve_join_request: the entry leaves the queue and the certificate enters
\* the cache of this daemon while the queue is locked.
Approve(n, a) ==
    /\ n \in Enqueuers
    /\ pending[n][a] # NoRequest
    /\ approved' = [approved EXCEPT ![n] = @ \cup {pending[n][a]}]
    /\ pending' = [pending EXCEPT ![n][a] = NoRequest]
    /\ cache' = [cache EXCEPT ![n] = @ \cup {a}]
    /\ UNCHANGED <<calls, dedup, app, used, rejected>>

\* reject_join_request: the entry leaves the queue.
Reject(n, a) ==
    /\ n \in Enqueuers
    /\ pending[n][a] # NoRequest
    /\ rejected' = [rejected EXCEPT ![n] = @ \cup {pending[n][a]}]
    /\ pending' = [pending EXCEPT ![n][a] = NoRequest]
    /\ UNCHANGED <<calls, dedup, cache, app, used, approved>>

\* Queue, duplicate filter and cache live in memory only.
Restart(n) ==
    /\ Faulty
    /\ dedup' = [dedup EXCEPT ![n] = {}]
    /\ pending' = [pending EXCEPT ![n] = [a \in Applicants |-> NoRequest]]
    /\ cache' = [cache EXCEPT ![n] = {}]
    /\ approved' = [approved EXCEPT ![n] = {}]
    /\ rejected' = [rejected EXCEPT ![n] = {}]
    /\ UNCHANGED <<calls, app, used>>

----------------------------------------------------------------------------

Handle(m) == DropStale(m) \/ Enqueue(m) \/ Forward(m)

Next ==
    \/ \E a \in Applicants, n \in Nodes, q \in Requests : Submit(a, n, q)
    \/ \E a \in Applicants : Submitted(a) \/ PollFound(a) \/ GiveUp(a)
    \/ \E m \in calls : Handle(m) \/ Lose(m)
    \/ \E n \in Nodes, q \in Requests : DedupExpire(n, q)
    \/ \E n \in Nodes, a \in Applicants : Approve(n, a) \/ Reject(n, a)
    \/ \E n \in Nodes : Restart(n)

Spec == Init /\ [][Next]_vars

\* Calls are handled, and applicants keep polling until their deadline.
Fairness ==
    /\ WF_vars(\E m \in calls : Handle(m))
    /\ \A a \in Applicants : WF_vars(PollFound(a))

----------------------------------------------------------------------------
(* Properties *)

\* Every variable stays in its set.
TypeOK ==
    /\ calls \in SUBSET Call
    /\ dedup \in [Nodes -> SUBSET Requests]
    /\ pending \in [Nodes -> [Applicants -> Requests \cup {NoRequest}]]
    /\ cache \in [Nodes -> SUBSET Applicants]
    /\ app \in [Applicants -> [pc : {"idle", "submitting", "waiting", "joined"},
                               node : Nodes \cup {NoNode},
                               req : Requests \cup {NoRequest}]]
    /\ used \in SUBSET Requests
    /\ approved \in [Nodes -> SUBSET Requests]
    /\ rejected \in [Nodes -> SUBSET Requests]

\* A request the operator approved or rejected does not come back to the queue
\* of that daemon, whatever copies of it are still travelling: record_or_drop
\* outlasts them.
DecidedStaysDecided ==
    \A n \in Nodes, a \in Applicants :
        pending[n][a] \notin approved[n] \cup rejected[n]

\* The flood of a request (forward_join_request) comes to an end on a network
\* with cycles, also when daemons keep restarting and forget what they dropped.
FloodEnds ==
    (calls # {}) ~> (calls = {})

\* q waits for the operator somewhere, or was decided somewhere.
Arrived(q) ==
    \E n \in Enqueuers : q \in approved[n] \cup rejected[n] \/ \E a \in Applicants : pending[n][a] = q

\* Without loss, and with a hop limit that no path without repetition exceeds,
\* a submitted request reaches a daemon that answers for the trust domain, or
\* is replaced there by a newer request of the applicant.
RequestArrives ==
    \A q \in Requests :
        (q \in used) ~> \E p \in used : ApplicantOf[p] = ApplicantOf[q] /\ Arrived(p)

\* Some request of applicant a was approved at daemon n since n started.
ApprovedAt(a, n) == \E q \in approved[n] : ApplicantOf[q] = a

\* "Approval signs the member_cert with the root key; B's poll fetches it"
\* (deploy.md): an applicant that was approved at the daemon it polls joins,
\* unless it gives up or that daemon restarts.
ApprovedIsFetched ==
    \A a \in Applicants, n \in Nodes :
        (app[a].pc = "waiting" /\ app[a].node = n /\ ApprovedAt(a, n))
            ~> (app[a].pc # "waiting" \/ ~ ApprovedAt(a, n))
=============================================================================
