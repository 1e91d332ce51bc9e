--------------------------- MODULE JoinFlowProofs ---------------------------
(***************************************************************************)
(* Proofs about joining a domain: the queue that join requests wait in,    *)
(* and (last sections) the limit on the calls that fetch the configuration *)
(* and the address that a node gets.                                       *)
(*                                                                         *)
(* For any network of daemons, any hop limit and any losses and restarts,  *)
(* a join request that the operator of a daemon decided does not return to *)
(* the queue of that daemon.                                               *)
(*                                                                         *)
(* The argument.  What is queued or decided at a daemon is in its          *)
(* duplicate filter, or no call carries it any more (Filtered); requests   *)
(* in calls and queues were submitted, so a new submission is none of them *)
(* (Known); and an applicant's place in the queue holds a request of that  *)
(* applicant (Placed).                                                     *)
(***************************************************************************)
EXTENDS JoinFlow, Sequences, FiniteSetTheorems, WellFoundedInduction, TLAPS

\* What waits for the operator of n or was decided there.
Seen(n) == {pending[n][a] : a \in Applicants} \cup approved[n] \cup rejected[n]

\* Calls and queues hold requests that were submitted.
Known ==
    /\ \A m \in calls : m.req \in used
    /\ \A n \in Nodes : Seen(n) \subseteq used \cup {NoRequest}

\* An applicant's place in the queue holds a request of that applicant.
Placed == \A n \in Nodes, a \in Applicants :
              pending[n][a] # NoRequest => ApplicantOf[pending[n][a]] = a

\* The duplicate filter knows what is queued or decided, or no call carries it.
Filtered ==
    \A n \in Nodes : \A q \in Seen(n) \ {NoRequest} :
        q \in dedup[n] \/ \A m \in calls : m.req # q

----------------------------------------------------------------------------
(* Types *)

\* The copies that a daemon sends have a hop less, so they stay within the limit.
LEMMA ForwardedType ==
    ASSUME NEW m \in Call, NEW k \in Nodes, m.ttl # 0
    PROVE  Forwarded(m, m.to, k) \in Call
<1>1. m.ttl - 1 \in 0 .. SubmitTtl /\ m.to \in Nodes /\ m.req \in Requests /\ m.seen \subseteq Nodes
  BY GraphAssumption DEF Call
<1>2. QED
  BY <1>1 DEF Forwarded, Call

\* Every step keeps the variables in their sets.
LEMMA StepType == ASSUME TypeOK, [Next]_vars PROVE TypeOK'
<1> USE GraphAssumption
<1>1. ASSUME NEW a \in Applicants, NEW n \in Nodes, NEW q \in Requests, Submit(a, n, q) PROVE TypeOK'
  <2>1. Submission(n, q) \in Call
    BY DEF Submission, Call
  <2>2. QED
    BY <1>1, <2>1 DEF Submit, TypeOK
<1>2. ASSUME NEW a \in Applicants, Submitted(a) \/ PollFound(a) PROVE TypeOK'
  <2> DEFINE Stage == [pc : {"idle", "submitting", "waiting", "joined"},
                       node : Nodes \cup {NoNode}, req : Requests \cup {NoRequest}]
  <2>1. PICK pc \in {"waiting", "joined"} : app' = [app EXCEPT ![a].pc = pc]
    BY <1>2 DEF Submitted, PollFound
  <2>2. app' \in [Applicants -> Stage]
    <3>1. app \in [Applicants -> Stage]
      BY DEF TypeOK
    <3>2. [app[a] EXCEPT !.pc = pc] \in Stage
      BY <3>1
    <3>3. app' = [app EXCEPT ![a] = [app[a] EXCEPT !.pc = pc]]
      BY <2>1
    <3> HIDE DEF Stage
    <3>4. QED
      BY <3>1, <3>2, <3>3
  <2>3. UNCHANGED <<calls, dedup, pending, cache, used, approved, rejected>>
    BY <1>2 DEF Submitted, PollFound
  <2>4. QED
    BY <2>2, <2>3 DEF TypeOK
<1>3. ASSUME NEW a \in Applicants, GiveUp(a) PROVE TypeOK'
  BY <1>3 DEF GiveUp, NotJoining, TypeOK
<1>4. ASSUME NEW m \in calls, DropStale(m) \/ Lose(m) PROVE TypeOK'
  BY <1>4 DEF DropStale, Lose, TypeOK
<1>5. ASSUME NEW m \in calls, Enqueue(m) PROVE TypeOK'
  <2>1. m.to \in Nodes /\ m.req \in Requests /\ ApplicantOf[m.req] \in Applicants
    BY DEF TypeOK, Call
  <2>2. QED
    BY <1>5, <2>1 DEF Enqueue, TypeOK
<1>6. ASSUME NEW m \in calls, Forward(m) PROVE TypeOK'
  <2>1. m \in Call /\ m.to \in Nodes /\ m.req \in Requests
    BY DEF TypeOK, Call
  <2>2. \A k \in IF m.ttl = 0 THEN {} ELSE Neighbors[m.to] : Forwarded(m, m.to, k) \in Call
    BY <2>1, ForwardedType
  <2>3. calls' \subseteq Call
    BY <1>6, <2>2 DEF Forward, TypeOK
  <2>4. QED
    BY <1>6, <2>1, <2>3 DEF Forward, TypeOK
<1>7. ASSUME NEW n \in Nodes, NEW q \in Requests, DedupExpire(n, q) PROVE TypeOK'
  BY <1>7 DEF DedupExpire, TypeOK
<1>8. ASSUME NEW n \in Nodes, NEW a \in Applicants, Approve(n, a) PROVE TypeOK'
  BY <1>8 DEF Approve, TypeOK
<1>9. ASSUME NEW n \in Nodes, NEW a \in Applicants, Reject(n, a) PROVE TypeOK'
  BY <1>9 DEF Reject, TypeOK
<1>10. ASSUME NEW n \in Nodes, Restart(n) PROVE TypeOK'
  BY <1>10 DEF Restart, TypeOK
<1>11. CASE UNCHANGED vars
  BY <1>11 DEF vars, TypeOK
<1>12. QED
  BY <1>1, <1>2, <1>3, <1>4, <1>5, <1>6, <1>7, <1>8, <1>9, <1>10, <1>11 DEF Next, Handle

----------------------------------------------------------------------------
(* The queue *)

\* The inductive invariant, besides the types.
Safe == Known /\ Placed /\ Filtered /\ DecidedStaysDecided

\* Calls that end change nothing.
LEMMA CallsEnd ==
    ASSUME Safe, calls' \subseteq calls, UNCHANGED <<dedup, pending, used, approved, rejected>>
    PROVE  Safe'
  BY DEF Safe, Known, Placed, Filtered, DecidedStaysDecided, Seen

\* Every step preserves the invariant on queues and filters.
LEMMA StepSafe == ASSUME TypeOK, Safe, [Next]_vars PROVE Safe'
<1> USE GraphAssumption
<1>1. ASSUME NEW a \in Applicants, NEW n \in Nodes, NEW q \in Requests, Submit(a, n, q) PROVE Safe'
  <2>1. /\ calls' = calls \cup {Submission(n, q)} /\ used' = used \cup {q} /\ q \notin used
        /\ UNCHANGED <<dedup, pending, approved, rejected>>
    BY <1>1 DEF Submit
  <2>2. Submission(n, q).req = q
    BY DEF Submission
  <2>3. \A k \in Nodes : Seen(k)' = Seen(k) /\ q \notin Seen(k)
    BY <2>1 DEF Safe, Known, Seen
  <2>4. Known'
    BY <2>1, <2>2, <2>3 DEF Safe, Known
  <2>5. Filtered'
    BY <2>1, <2>2, <2>3 DEF Safe, Filtered
  <2>6. QED
    BY <2>1, <2>4, <2>5 DEF Safe, Placed, DecidedStaysDecided
<1>2. ASSUME NEW a \in Applicants, Submitted(a) \/ PollFound(a) \/ GiveUp(a) PROVE Safe'
  BY <1>2, CallsEnd DEF Submitted, PollFound, GiveUp
<1>3. ASSUME NEW m \in calls, DropStale(m) \/ Lose(m) PROVE Safe'
  BY <1>3, CallsEnd DEF DropStale, Lose
<1>4. ASSUME NEW m \in calls, Enqueue(m) PROVE Safe'
  <2> DEFINE n == m.to
             q == m.req
             b == ApplicantOf[q]
  <2>1. n \in Nodes /\ q \in Requests /\ b \in Applicants /\ q \in used /\ q # NoRequest
    BY DEF TypeOK, Call, Safe, Known
  <2>2. /\ q \notin dedup[n] /\ calls' \subseteq calls /\ UNCHANGED <<used, approved, rejected>>
        /\ \A k \in Nodes : dedup'[k] = IF k = n THEN dedup[k] \cup {q} ELSE dedup[k]
        /\ \A k \in Nodes, a \in Applicants :
             pending'[k][a] = IF k = n /\ a = b THEN q ELSE pending[k][a]
    BY <1>4, <2>1 DEF Enqueue, Fresh, TypeOK
  <2>3. q \notin Seen(n)
    BY <2>1, <2>2 DEF Safe, Filtered
  <2> HIDE DEF n, q
  <2>4. \A k \in Nodes : Seen(k)' \subseteq IF k = n THEN Seen(k) \cup {q} ELSE Seen(k)
    BY <2>1, <2>2 DEF Seen
  <2>5. Known'
    BY <2>1, <2>2, <2>4 DEF Safe, Known
  <2>6. Placed'
    BY <2>1, <2>2 DEF Safe, Placed
  <2>7. Filtered'
    <3> SUFFICES ASSUME NEW k \in Nodes, NEW p \in Seen(k)' \ {NoRequest}
                 PROVE  p \in dedup'[k] \/ \A x \in calls' : x.req # p
      BY DEF Filtered
    <3>1. CASE k = n /\ p = q
      BY <2>2, <3>1
    <3>2. CASE p \in Seen(k)
      BY <2>2, <3>2 DEF Safe, Filtered
    <3>3. QED
      BY <2>4, <3>1, <3>2
  <2>8. DecidedStaysDecided'
    BY <2>1, <2>2, <2>3 DEF Safe, DecidedStaysDecided, Seen
  <2>9. QED
    BY <2>5, <2>6, <2>7, <2>8 DEF Safe
<1>5. ASSUME NEW m \in calls, Forward(m) PROVE Safe'
  <2>1. m.to \in Nodes
    BY DEF TypeOK, Call
  <2>2. UNCHANGED <<used, pending, approved, rejected>>
    BY <1>5 DEF Forward
  <2>3. \A x \in calls' : x \in calls \/ x.req = m.req
    BY <1>5 DEF Forward, Forwarded
  <2>4. \A k \in Nodes : dedup[k] \subseteq dedup'[k]
    BY <1>5, <2>1 DEF Forward, TypeOK
  <2>5. \A k \in Nodes : Seen(k)' = Seen(k)
    BY <2>2 DEF Seen
  <2>6. Known'
    BY <2>2, <2>3, <2>5 DEF Safe, Known
  <2>7. Filtered'
    BY <2>3, <2>4, <2>5 DEF Safe, Filtered
  <2>8. QED
    BY <2>2, <2>6, <2>7 DEF Safe, Placed, DecidedStaysDecided
<1>6. ASSUME NEW n \in Nodes, NEW q \in Requests, DedupExpire(n, q) PROVE Safe'
  <2>1. UNCHANGED <<calls, used, pending, approved, rejected>> /\ \A m \in calls : m.req # q
    BY <1>6 DEF DedupExpire
  <2>2. \A k \in Nodes : dedup[k] \ {q} \subseteq dedup'[k]
    BY <1>6 DEF DedupExpire, TypeOK
  <2>3. \A k \in Nodes : Seen(k)' = Seen(k)
    BY <2>1 DEF Seen
  <2>4. Filtered'
    BY <2>1, <2>2, <2>3 DEF Safe, Filtered
  <2>5. QED
    BY <2>1, <2>3, <2>4 DEF Safe, Known, Placed, DecidedStaysDecided
<1>7. ASSUME NEW n \in Nodes, NEW a \in Applicants, Approve(n, a) \/ Reject(n, a) PROVE Safe'
  <2> DEFINE q == pending[n][a]
  <2>1. q # NoRequest /\ UNCHANGED <<calls, dedup, used>>
    BY <1>7 DEF Approve, Reject
  <2>2. \A k \in Nodes, b \in Applicants :
          pending'[k][b] = IF k = n /\ b = a THEN NoRequest ELSE pending[k][b]
    BY <1>7 DEF Approve, Reject, TypeOK
  <2>3. \A k \in Nodes : (approved[k] \cup rejected[k])' =
          IF k = n THEN approved[k] \cup rejected[k] \cup {q} ELSE approved[k] \cup rejected[k]
    BY <1>7 DEF Approve, Reject, TypeOK
  <2>4. q \in Seen(n) /\ \A b \in Applicants : pending[n][b] = q => b = a
    BY <2>1 DEF Seen, Safe, Placed
  <2>5. NoRequest \notin (approved[n] \cup rejected[n])'
    BY <2>1, <2>3 DEF TypeOK
  <2> HIDE DEF q
  <2>6. \A k \in Nodes : Seen(k)' \subseteq Seen(k) \cup {NoRequest}
    BY <2>2, <2>3, <2>4 DEF Seen
  <2>7. Known' /\ Placed' /\ Filtered'
    BY <2>1, <2>2, <2>6 DEF Safe, Known, Placed, Filtered
  <2>8. DecidedStaysDecided'
    BY <2>2, <2>3, <2>4, <2>5 DEF Safe, DecidedStaysDecided
  <2>9. QED
    BY <2>7, <2>8 DEF Safe
<1>8. ASSUME NEW n \in Nodes, Restart(n) PROVE Safe'
  <2>1. UNCHANGED <<calls, used>>
    BY <1>8 DEF Restart
  <2>2. \A k \in Nodes \ {n} :
          /\ dedup'[k] = dedup[k] /\ pending'[k] = pending[k]
          /\ approved'[k] = approved[k] /\ rejected'[k] = rejected[k]
    BY <1>8 DEF Restart, TypeOK
  <2>3. approved'[n] = {} /\ rejected'[n] = {} /\ \A b \in Applicants : pending'[n][b] = NoRequest
    BY <1>8 DEF Restart, TypeOK
  <2>4. \A k \in Nodes : Seen(k)' \subseteq IF k = n THEN {NoRequest} ELSE Seen(k)
    BY <2>2, <2>3 DEF Seen
  <2>5. Known' /\ Placed'
    BY <2>1, <2>2, <2>3, <2>4 DEF Safe, Known, Placed
  <2>6. Filtered'
    BY <2>1, <2>2, <2>4 DEF Safe, Filtered
  <2>7. DecidedStaysDecided'
    BY <2>2, <2>3 DEF Safe, DecidedStaysDecided
  <2>8. QED
    BY <2>5, <2>6, <2>7 DEF Safe
<1>9. CASE UNCHANGED vars
  BY <1>9, CallsEnd DEF vars
<1>10. QED
  BY <1>1, <1>2, <1>3, <1>4, <1>5, <1>6, <1>7, <1>8, <1>9 DEF Next, Handle

\* The first state satisfies all of it.
LEMMA InitSafe == Init => TypeOK /\ Safe
<1> SUFFICES ASSUME Init PROVE TypeOK /\ Safe
  OBVIOUS
<1>1. TypeOK
  BY GraphAssumption DEF Init, TypeOK, NotJoining
<1>2. \A n \in Nodes : Seen(n) \subseteq {NoRequest}
  BY DEF Init, Seen
<1>3. Known /\ Placed /\ Filtered
  BY <1>2 DEF Init, Known, Placed, Filtered
<1>4. DecidedStaysDecided
  BY DEF Init, DecidedStaysDecided
<1>5. QED
  BY <1>1, <1>3, <1>4 DEF Safe

\* A request that was approved or rejected at a daemon is not queued there
\* again, however many copies the flood of forward_join_request still carries:
\* record_or_drop remembers it for longer than any of them travels.
THEOREM DecidedStaysDecidedHolds == Spec => []DecidedStaysDecided
<1>1. TypeOK /\ Safe /\ [Next]_vars => TypeOK' /\ Safe'
  BY StepType, StepSafe
<1>2. Safe => DecidedStaysDecided
  BY DEF Safe
<1>3. QED
  BY <1>1, <1>2, InitSafe, PTL DEF Spec

\* Every variable stays in its set: no copy of a request has more hops left than
\* forward_join_request may give it, and queues hold requests of the network.
THEOREM TypeCorrect == Spec => []TypeOK
<1>1. TypeOK /\ [Next]_vars => TypeOK'
  BY StepType
<1> QED BY <1>1, InitSafe, PTL DEF Spec

----------------------------------------------------------------------------
(* FetchLimit: for any number of concurrent fetch_config calls, any window *)
(* and any limit, a caller gets at most MaxCalls calls through in a window,*)
(* and is refused only when it got MaxCalls.                               *)
(*                                                                         *)
(* Neither is inductive.  The clock is read before the lock is taken, so   *)
(* the queue need not be sorted; what relates it to the calls let through  *)
(* is that its instants belong to the last of them, each read at most      *)
(* MaxLag before its grant, and that the earlier ones are old (Follows).   *)

CONSTANTS Fetch, KeyOf, Window, MaxCalls, MaxLag, MaxTime
VARIABLES now, call, queue, grants

L == INSTANCE FetchLimit WITH Call <- Fetch

\* What the proofs assume of the constants.
FetchConstants == Window \in Nat /\ MaxCalls \in Nat /\ MaxLag \in Nat

\* At time z queue q holds the instants that the last of the grants g read; the grants
\* before them have left it because they were old.
Follows(q, g, z) ==
    /\ q \in Seq(Nat) /\ g \in Seq(Nat) /\ Len(q) <= Len(g)
    /\ \A i \in 1 .. Len(g) - Len(q) : z - g[i] >= Window - MaxLag
    /\ \A j \in 1 .. Len(q) : LET i == Len(g) - Len(q) + j IN q[j] <= g[i] /\ g[i] <= q[j] + MaxLag

\* The grants g come one after the other and keep to the limit.
Limited(g, z) ==
    /\ g \in Seq(Nat)
    /\ \A i \in 1 .. Len(g) : g[i] <= z
    /\ \A i, j \in 1 .. Len(g) : i <= j => g[i] <= g[j]
    /\ \A i \in 1 .. Len(g) - MaxCalls : g[i + MaxCalls] - g[i] >= Window - MaxLag

\* The inductive invariant: a call waits for at most MaxLag.
FetchInv ==
    /\ now \in Nat
    /\ call = [c \in Fetch |-> call[c]]
    /\ \A c \in Fetch : call[c] # L!Idle => call[c] \in Nat /\ call[c] <= now /\ now - call[c] <= MaxLag
    /\ queue = [k \in L!Key |-> queue[k]] /\ grants = [k \in L!Key |-> grants[k]]
    /\ \A k \in L!Key : Follows(queue[k], grants[k], now) /\ Limited(grants[k], now)

\* Every nonempty set of natural numbers has a least element.
LEMMA Least == ASSUME NEW T, T \subseteq Nat, T # {} PROVE \E x \in T : \A y \in T : x <= y
<1> DEFINE R == OpToRel(<, Nat)
<1>1. IsWellFoundedOn(R, Nat)
  BY NatLessThanWellFounded, Zenon
<1>2. R = {p \in Nat \X Nat : p[1] < p[2]}
  BY DEF OpToRel
<1> HIDE DEF R
<1>3. PICK x \in T : \A y \in T : ~ (<<y, x>> \in R)
  BY <1>1, WFMin, Zenon
<1>4. ASSUME NEW y \in T PROVE x <= y
  <2>1. x \in Nat /\ y \in Nat /\ ~ (<<y, x>> \in R)
    BY <1>3
  <2>2. ~ (y < x)
    BY <1>2, <2>1
  <2> QED BY <2>1, <2>2
<1> QED BY <1>4

\* t is q without n old instants, and starts with one that is not old.
Drops(t, q, at, n) ==
    /\ t \in Seq(Nat) /\ Len(t) = Len(q) - n
    /\ \A j \in 1 .. Len(t) : t[j] = q[n + j]
    /\ \A j \in 1 .. n : at - q[j] >= Window
    /\ Len(t) > 0 => at - t[1] < Window

\* Trimming drops the old instants at the front.
LEMMA TrimmedDrops ==
    ASSUME FetchConstants, NEW q \in Seq(Nat), NEW at \in Nat
    PROVE  \E n \in 0 .. Len(q) : Drops(L!Trimmed(q, at), q, at, n)
<1> DEFINE fresh == {i \in 1 .. Len(q) : ~ L!Expired(q[i], at)}
           m == L!Min(fresh)
<1>1. CASE fresh = {}
  <2>1. L!Trimmed(q, at) = <<>>
    BY <1>1 DEF L!Trimmed
  <2>2. \A j \in 1 .. Len(q) : at - q[j] >= Window
    BY <1>1 DEF L!Expired
  <2> QED BY <2>1, <2>2 DEF Drops
<1>2. CASE fresh # {}
  <2>1. m \in fresh /\ \A i \in fresh : m <= i
    <3>1. fresh \subseteq Nat
      OBVIOUS
    <3> HIDE DEF fresh
    <3>2. \E x \in fresh : \A y \in fresh : x <= y
      BY <1>2, <3>1, Least
    <3> QED BY <3>2 DEF L!Min
  <2>2. L!Trimmed(q, at) = SubSeq(q, m, Len(q))
    BY <1>2 DEF L!Trimmed
  <2> HIDE DEF m
  <2>3. m \in 1 .. Len(q) /\ at - q[m] < Window
    BY <2>1 DEF L!Expired, FetchConstants
  <2>4. \A j \in 1 .. m - 1 : at - q[j] >= Window
    BY <2>1, <2>3 DEF L!Expired
  <2>5. /\ SubSeq(q, m, Len(q)) \in Seq(Nat) /\ Len(SubSeq(q, m, Len(q))) = Len(q) - (m - 1)
        /\ \A j \in 1 .. Len(q) - (m - 1) : SubSeq(q, m, Len(q))[j] = q[(m - 1) + j]
    BY <2>3
  <2> HIDE DEF fresh
  <2>6. m - 1 \in 0 .. Len(q)
    BY <2>3
  <2>7. Drops(SubSeq(q, m, Len(q)), q, at, m - 1)
    BY <2>3, <2>4, <2>5 DEF Drops
  <2> QED BY <2>2, <2>6, <2>7
<1> QED BY <1>1, <1>2

\* The queue that is left still holds the last grants.
LEMMA FollowsTrimmed ==
    ASSUME FetchConstants, NEW z \in Nat, NEW q, NEW g, NEW at \in Nat, at <= z, Follows(q, g, z),
           NEW n \in 0 .. Len(q), NEW t, Drops(t, q, at, n)
    PROVE  Follows(t, g, z)
<1> USE DEF FetchConstants
<1>0. q \in Seq(Nat) /\ g \in Seq(Nat) /\ t \in Seq(Nat) /\ Len(q) <= Len(g) /\ Len(t) = Len(q) - n
  BY DEF Follows, Drops
<1>1. ASSUME NEW i \in 1 .. Len(g) - Len(t) PROVE z - g[i] >= Window - MaxLag
  <2>1. CASE i <= Len(g) - Len(q)
    BY <1>0, <2>1 DEF Follows
  <2>2. CASE i > Len(g) - Len(q)
    <3> DEFINE j == i - (Len(g) - Len(q))
    <3>0. Len(g) \in Nat /\ Len(q) \in Nat /\ n \in 0 .. Len(q) /\ Len(t) = Len(q) - n
      BY <1>0
    <3>1. j \in 1 .. n /\ j \in 1 .. Len(q) /\ i = Len(g) - Len(q) + j
      BY <2>2, <3>0
    <3> HIDE DEF j
    <3>2. g[i] <= q[j] + MaxLag
      BY <1>0, <3>1 DEF Follows
    <3>3. at - q[j] >= Window
      BY <3>1 DEF Drops
    <3>4. i \in 1 .. Len(g)
      BY <1>0
    <3>5. g[i] \in Nat /\ q[j] \in Nat
      <4>1. \A x \in 1 .. Len(g) : g[x] \in Nat
        BY <1>0
      <4>2. \A x \in 1 .. Len(q) : q[x] \in Nat
        BY <1>0
      <4> QED BY <3>1, <3>4, <4>1, <4>2, Zenon
    <3> DEFINE granted == g[i]
               read == q[j]
    <3>6. granted \in Nat /\ read \in Nat /\ granted <= read + MaxLag /\ at - read >= Window
      BY <3>2, <3>3, <3>5, Zenon
    <3> HIDE DEF granted, read
    <3>7. z - granted >= Window - MaxLag
      BY <3>6
    <3> QED BY <3>7 DEF granted
  <2> QED BY <1>0, <2>1, <2>2
<1>2. ASSUME NEW j \in 1 .. Len(t)
      PROVE  t[j] <= g[Len(g) - Len(t) + j] /\ g[Len(g) - Len(t) + j] <= t[j] + MaxLag
  <2>1. n + j \in 1 .. Len(q) /\ t[j] = q[n + j] /\ Len(g) - Len(q) + (n + j) = Len(g) - Len(t) + j
    BY <1>0 DEF Drops
  <2> DEFINE h == n + j
             i == Len(g) - Len(t) + j
  <2> HIDE DEF h, i
  <2>2. q[h] <= g[Len(g) - Len(q) + h] /\ g[Len(g) - Len(q) + h] <= q[h] + MaxLag
    BY <2>1 DEF Follows, h
  <2> QED BY <2>1, <2>2 DEF h
<1> QED BY <1>0, <1>1, <1>2 DEF Follows

\* A call that is granted appends the instant it read, at most MaxLag ago.
LEMMA FollowsGranted ==
    ASSUME FetchConstants, NEW z \in Nat, NEW t, NEW g, NEW at \in Nat, at <= z, z - at <= MaxLag,
           Follows(t, g, z)
    PROVE  Follows(Append(t, at), Append(g, z), z)
<1> USE DEF FetchConstants
<1> DEFINE u == Append(t, at)
           h == Append(g, z)
<1>0. t \in Seq(Nat) /\ g \in Seq(Nat) /\ Len(t) \in Nat /\ Len(g) \in Nat /\ Len(t) <= Len(g)
  BY DEF Follows
<1>1. /\ u \in Seq(Nat) /\ Len(u) = Len(t) + 1 /\ u[Len(t) + 1] = at
      /\ \A j \in 1 .. Len(t) : u[j] = t[j]
  BY <1>0
<1>2. /\ h \in Seq(Nat) /\ Len(h) = Len(g) + 1 /\ h[Len(g) + 1] = z
      /\ \A i \in 1 .. Len(g) : h[i] = g[i]
  BY <1>0
<1> HIDE DEF u, h
<1>3. ASSUME NEW i \in 1 .. Len(h) - Len(u) PROVE z - h[i] >= Window - MaxLag
  <2>0. Len(t) \in Nat /\ Len(g) \in Nat /\ Len(u) = Len(t) + 1 /\ Len(h) = Len(g) + 1
    BY <1>0, <1>1, <1>2, Zenon
  <2>1. i \in 1 .. Len(g) - Len(t) /\ i \in 1 .. Len(g)
    BY <2>0
  <2> QED BY <1>2, <2>1 DEF Follows
<1>4. ASSUME NEW j \in 1 .. Len(u)
      PROVE  u[j] <= h[Len(h) - Len(u) + j] /\ h[Len(h) - Len(u) + j] <= u[j] + MaxLag
  <2>0. Len(h) - Len(u) + j = Len(g) - Len(t) + j
    BY <1>0, <1>1, <1>2
  <2>1. CASE j = Len(t) + 1
    <3>1. Len(g) - Len(t) + j = Len(g) + 1
      BY <1>0, <2>1
    <3> QED BY <1>1, <1>2, <2>0, <2>1, <3>1
  <2>2. CASE j <= Len(t)
    <3>1. Len(g) - Len(t) + j \in 1 .. Len(g) /\ j \in 1 .. Len(t)
      BY <1>0, <1>1, <2>2
    <3>2. t[j] <= g[Len(g) - Len(t) + j] /\ g[Len(g) - Len(t) + j] <= t[j] + MaxLag
      BY <3>1 DEF Follows
    <3> QED BY <1>1, <1>2, <2>0, <3>1, <3>2
  <2> QED BY <1>0, <1>1, <2>1, <2>2
<1>5. Len(u) <= Len(h)
  BY <1>0, <1>1, <1>2
<1>6. Follows(u, h, z)
  BY <1>1, <1>2, <1>3, <1>4, <1>5 DEF Follows
<1> QED BY <1>6 DEF u, h

\* It keeps to the limit, since the grant MaxCalls before it has left the queue.
LEMMA LimitedGranted ==
    ASSUME FetchConstants, NEW z \in Nat, NEW t, NEW g, Follows(t, g, z), Limited(g, z), Len(t) < MaxCalls
    PROVE  Limited(Append(g, z), z)
<1> USE DEF FetchConstants
<1> DEFINE h == Append(g, z)
<1>0. t \in Seq(Nat) /\ g \in Seq(Nat) /\ Len(t) \in Nat /\ Len(g) \in Nat /\ Len(t) <= Len(g)
  BY DEF Follows
<1>1. /\ h \in Seq(Nat) /\ Len(h) = Len(g) + 1 /\ h[Len(g) + 1] = z
      /\ \A i \in 1 .. Len(g) : h[i] = g[i] /\ g[i] \in Nat /\ g[i] <= z
  BY <1>0 DEF Limited
<1> HIDE DEF h
<1>2. ASSUME NEW i \in 1 .. Len(h), NEW j \in 1 .. Len(h), i <= j PROVE h[i] <= h[j]
  <2>1. CASE j = Len(g) + 1
    <3>1. i = Len(g) + 1 \/ i \in 1 .. Len(g)
      BY <1>0, <1>1
    <3> QED BY <1>1, <2>1, <3>1
  <2>2. CASE j # Len(g) + 1
    <3>1. i \in 1 .. Len(g) /\ j \in 1 .. Len(g)
      BY <1>0, <1>1, <1>2, <2>2
    <3> QED BY <1>1, <1>2, <3>1 DEF Limited
  <2> QED BY <2>1, <2>2
<1>3. ASSUME NEW i \in 1 .. Len(h) - MaxCalls PROVE h[i + MaxCalls] - h[i] >= Window - MaxLag
  <2>1. CASE i + MaxCalls = Len(g) + 1
    <3>1. i \in 1 .. Len(g) - Len(t) /\ i \in 1 .. Len(g)
      BY <1>0, <2>1
    <3> QED BY <1>1, <2>1, <3>1 DEF Follows
  <2>2. CASE i + MaxCalls <= Len(g)
    <3>1. i \in 1 .. Len(g) - MaxCalls /\ i \in 1 .. Len(g) /\ i + MaxCalls \in 1 .. Len(g)
      BY <1>0, <2>2
    <3> QED BY <1>1, <3>1 DEF Limited
  <2>3. i + MaxCalls = Len(g) + 1 \/ i + MaxCalls <= Len(g)
    <3>1. Len(g) \in Nat /\ Len(h) = Len(g) + 1
      BY <1>0, <1>1, Zenon
    <3> QED BY <3>1
  <2> QED BY <2>1, <2>2, <2>3
<1>4. ASSUME NEW i \in 1 .. Len(h) PROVE h[i] <= z
  <2>1. i = Len(g) + 1 \/ i \in 1 .. Len(g)
    BY <1>0, <1>1
  <2> QED BY <1>1, <2>1
<1>5. Limited(h, z)
  BY <1>1, <1>2, <1>3, <1>4 DEF Limited
<1> QED BY <1>5 DEF h

\* Time only makes the grants that left the queue older.
LEMMA FollowsLater ==
    ASSUME FetchConstants, NEW z \in Nat, NEW q, NEW g, Follows(q, g, z), Limited(g, z)
    PROVE  Follows(q, g, z + 1) /\ Limited(g, z + 1)
<1> USE DEF FetchConstants
<1>0. q \in Seq(Nat) /\ g \in Seq(Nat) /\ Len(q) \in Nat /\ Len(g) \in Nat /\ Len(q) <= Len(g)
  BY DEF Follows
<1>1. \A i \in 1 .. Len(g) : g[i] \in Nat
  BY <1>0
<1>2. ASSUME NEW i \in 1 .. Len(g) - Len(q) PROVE (z + 1) - g[i] >= Window - MaxLag
  <2>1. z - g[i] >= Window - MaxLag
    BY DEF Follows
  <2>2. i \in 1 .. Len(g)
    BY <1>0
  <2> QED BY <1>1, <2>1, <2>2
<1>3. ASSUME NEW i \in 1 .. Len(g) PROVE g[i] <= z + 1
  BY <1>1 DEF Limited
<1> QED BY <1>2, <1>3 DEF Follows, Limited

\* A full queue stands for MaxCalls recent grants: its first instant is not
\* old, and no later grant is older.
LEMMA FullIsRecent ==
    ASSUME FetchConstants, NEW z \in Nat, NEW q, NEW g, NEW t, NEW at \in Nat, NEW n \in 0 .. Len(q),
           at <= z, z - at <= MaxLag, Follows(t, g, z), Limited(g, z), Drops(t, q, at, n),
           Len(t) >= MaxCalls
    PROVE  Cardinality({i \in DOMAIN g : z - g[i] < Window + MaxLag}) >= MaxCalls
<1> USE DEF FetchConstants
<1> DEFINE S == {i \in DOMAIN g : z - g[i] < Window + MaxLag}
           a == Len(g) - Len(t) + 1
           I == a .. Len(g)
<1>0. t \in Seq(Nat) /\ g \in Seq(Nat) /\ Len(t) \in Nat /\ Len(g) \in Nat /\ Len(t) <= Len(g)
  BY DEF Follows
<1>1. DOMAIN g = 1 .. Len(g) /\ \A i \in 1 .. Len(g) : g[i] \in Nat
  BY <1>0
<1>1t. \A i \in 1 .. Len(t) : t[i] \in Nat
  BY <1>0
<1>2. ASSUME NEW i \in I PROVE i \in S
  <2>1. i \in 1 .. Len(g) /\ a \in 1 .. Len(g) /\ a <= i /\ Len(t) > 0 /\ 1 \in 1 .. Len(t)
    BY <1>0
  <2>2. t[1] <= g[a]
    BY <2>1 DEF Follows
  <2>3. at - t[1] < Window
    BY <2>1 DEF Drops
  <2> HIDE DEF a
  <2>4. g[a] <= g[i]
    BY <2>1 DEF Limited
  <2>5. t[1] \in Nat /\ g[a] \in Nat /\ g[i] \in Nat
    BY <1>1, <1>1t, <2>1, Zenon
  <2> DEFINE first == g[a]
             granted == g[i]
             read == t[1]
  <2>6. /\ read \in Nat /\ first \in Nat /\ granted \in Nat
        /\ read <= first /\ first <= granted /\ at - read < Window
    BY <2>2, <2>3, <2>4, <2>5, Zenon
  <2> HIDE DEF first, granted, read
  <2>7. z - granted < Window + MaxLag
    BY <2>6
  <2> USE DEF granted
  <2> QED BY <1>1, <2>1, <2>7
<1>3. IsFiniteSet(1 .. Len(g)) /\ IsFiniteSet(I) /\ Cardinality(I) = Len(t)
  <2>1. a \in Int /\ Len(g) \in Int /\ 1 \in Int
    BY <1>0
  <2> HIDE DEF a
  <2>2. /\ IsFiniteSet(1 .. Len(g)) /\ IsFiniteSet(a .. Len(g))
        /\ Cardinality(a .. Len(g)) = IF a > Len(g) THEN 0 ELSE Len(g) - a + 1
    BY <2>1, FS_Interval
  <2>3. (IF a > Len(g) THEN 0 ELSE Len(g) - a + 1) = Len(t)
    BY <1>0 DEF a
  <2>4. Cardinality(a .. Len(g)) = Len(t)
    BY <2>2, <2>3
  <2> QED BY <2>2, <2>4 DEF I
<1>4. S \subseteq 1 .. Len(g) /\ I \subseteq S
  BY <1>1, <1>2
<1> HIDE DEF S, I
<1>5. IsFiniteSet(S) /\ Cardinality(I) <= Cardinality(S)
  <2>1. IsFiniteSet(S)
    BY <1>3, <1>4, FS_Subset, Zenon
  <2> QED BY <1>4, <2>1, FS_Subset, Zenon
<1>6. Cardinality(S) \in Nat
  BY <1>5, FS_CardinalityType
<1>7. Cardinality(S) >= MaxCalls
  BY <1>0, <1>3, <1>5, <1>6
<1> QED BY <1>7 DEF S

\* FetchLimit counts with the Cardinality of FiniteSets.
LEMMA SameCount == ASSUME NEW S PROVE L!Cardinality(S) = Cardinality(S)
  BY Zenon DEF L!Cardinality, Cardinality

\* What EnforceFetchRateLimit leaves of its caller's queue and grants.
LEMMA Enforced ==
    ASSUME FetchConstants, FetchInv, NEW c \in Fetch, L!EnforceFetchRateLimit(c)
    PROVE  LET k == KeyOf[c]
               t == L!Trimmed(queue[k], call[c])
           IN /\ k \in L!Key /\ Follows(t, grants[k], now)
              /\ IF Len(t) >= MaxCalls
                 THEN Cardinality({i \in DOMAIN grants[k] : now - grants[k][i] < Window + MaxLag}) >= MaxCalls
                 ELSE /\ Follows(Append(t, call[c]), Append(grants[k], now), now)
                      /\ Limited(Append(grants[k], now), now)
<1> DEFINE k == KeyOf[c]
           at == call[c]
           q == queue[k]
           g == grants[k]
           t == L!Trimmed(q, at)
<1>0. now \in Nat /\ at \in Nat /\ at <= now /\ now - at <= MaxLag
  BY DEF L!EnforceFetchRateLimit, FetchInv
<1>1. k \in L!Key
  BY DEF L!Key
<1> HIDE DEF k
<1>2. Follows(q, g, now) /\ Limited(g, now)
  BY <1>1 DEF FetchInv
<1>3. q \in Seq(Nat) /\ Len(q) \in Nat
  BY <1>2 DEF Follows
<1> HIDE DEF q, g, at, t
<1>4. PICK n \in 0 .. Len(q) : Drops(t, q, at, n)
  BY <1>0, <1>3, TrimmedDrops DEF t
<1>5. Follows(t, g, now)
  BY <1>0, <1>2, <1>4, FollowsTrimmed
<1>6. t \in Seq(Nat) /\ Len(t) \in Nat
  BY <1>5 DEF Follows
<1>7. CASE Len(t) >= MaxCalls
  <2>1. Cardinality({i \in DOMAIN g : now - g[i] < Window + MaxLag}) >= MaxCalls
    BY <1>0, <1>2, <1>4, <1>5, <1>7, FullIsRecent
  <2> QED BY <1>1, <1>5, <1>7, <2>1 DEF k, q, g, at, t
<1>8. CASE ~ (Len(t) >= MaxCalls)
  <2>1. Len(t) < MaxCalls
    BY <1>6, <1>8 DEF FetchConstants
  <2>2. Follows(Append(t, at), Append(g, now), now)
    BY <1>0, <1>5, FollowsGranted
  <2>3. Limited(Append(g, now), now)
    BY <1>0, <1>2, <1>5, <2>1, LimitedGranted
  <2> QED BY <1>1, <1>5, <1>8, <2>2, <2>3 DEF k, q, g, at, t
<1> QED BY <1>7, <1>8

\* FetchInv holds initially and every step keeps it.
LEMMA FetchInvHolds ==
    ASSUME FetchConstants PROVE L!Spec => []FetchInv
<1>1. ASSUME L!Init PROVE FetchInv
  <2>1. Follows(<<>>, <<>>, 0) /\ Limited(<<>>, 0)
    BY DEF Follows, Limited, FetchConstants
  <2>2. \A k \in L!Key : queue[k] = <<>> /\ grants[k] = <<>>
    BY <1>1 DEF L!Init
  <2>3. now = 0 /\ \A c \in Fetch : call[c] = L!Idle
    BY <1>1 DEF L!Init
  <2>4. /\ call = [c \in Fetch |-> call[c]]
        /\ queue = [k \in L!Key |-> queue[k]] /\ grants = [k \in L!Key |-> grants[k]]
    BY <1>1 DEF L!Init
  <2> QED BY <2>1, <2>2, <2>3, <2>4 DEF FetchInv
<1>2. ASSUME FetchInv, [L!Next]_L!vars PROVE FetchInv'
  <2>0. now \in Nat
    BY <1>2 DEF FetchInv
  <2>1. CASE UNCHANGED L!vars
    BY <1>2, <2>1 DEF FetchInv, L!vars
  <2>2. CASE L!Tick
    <3>1. now' = now + 1 /\ call' = call /\ queue' = queue /\ grants' = grants
      BY <2>2 DEF L!Tick
    <3>2. ASSUME NEW c \in Fetch, call[c] # L!Idle
          PROVE  call[c] \in Nat /\ call[c] <= now + 1 /\ (now + 1) - call[c] <= MaxLag
      BY <1>2, <2>2, <3>2 DEF FetchInv, L!Tick, FetchConstants
    <3>3. ASSUME NEW k \in L!Key
          PROVE  Follows(queue[k], grants[k], now + 1) /\ Limited(grants[k], now + 1)
      <4>1. Follows(queue[k], grants[k], now) /\ Limited(grants[k], now)
        BY <1>2 DEF FetchInv
      <4> QED BY <2>0, <4>1, FollowsLater
    <3>4. now + 1 \in Nat
      BY <2>0
    <3> QED BY <1>2, <3>1, <3>2, <3>3, <3>4, Zenon DEF FetchInv
  <2>3. ASSUME NEW c \in Fetch, L!ReadClock(c) PROVE FetchInv'
    <3>1. now' = now /\ queue' = queue /\ grants' = grants /\ call' = [call EXCEPT ![c] = now]
      BY <2>3 DEF L!ReadClock
    <3>2. call' = [d \in Fetch |-> call'[d]] /\ call'[c] = now /\ \A d \in Fetch \ {c} : call'[d] = call[d]
      BY <1>2, <3>1 DEF FetchInv
    <3>3. ASSUME NEW d \in Fetch, call'[d] # L!Idle
          PROVE  call'[d] \in Nat /\ call'[d] <= now /\ now - call'[d] <= MaxLag
      BY <1>2, <2>0, <3>2, <3>3 DEF FetchInv, FetchConstants
    <3> QED BY <1>2, <3>1, <3>2, <3>3 DEF FetchInv
  <2>4. ASSUME NEW c \in Fetch, L!EnforceFetchRateLimit(c) PROVE FetchInv'
    <3> DEFINE k == KeyOf[c]
               t == L!Trimmed(queue[k], call[c])
    <3>1. /\ k \in L!Key /\ Follows(t, grants[k], now)
          /\ ~ (Len(t) >= MaxCalls) => /\ Follows(Append(t, call[c]), Append(grants[k], now), now)
                                       /\ Limited(Append(grants[k], now), now)
      BY <1>2, <2>4, Enforced
    <3>2. now' = now /\ call' = [call EXCEPT ![c] = L!Idle]
      BY <2>4 DEF L!EnforceFetchRateLimit
    <3>3. \/ Len(t) >= MaxCalls /\ queue' = [queue EXCEPT ![k] = t] /\ grants' = grants
          \/ /\ ~ (Len(t) >= MaxCalls) /\ queue' = [queue EXCEPT ![k] = Append(t, call[c])]
             /\ grants' = [grants EXCEPT ![k] = Append(grants[k], now)]
      BY <2>4 DEF L!EnforceFetchRateLimit
    <3> HIDE DEF k, t
    <3>4. call' = [d \in Fetch |-> call'[d]] /\ call'[c] = L!Idle /\ \A d \in Fetch \ {c} : call'[d] = call[d]
      BY <1>2, <3>2 DEF FetchInv
    <3>5. ASSUME NEW d \in Fetch, call'[d] # L!Idle
          PROVE  call'[d] \in Nat /\ call'[d] <= now /\ now - call'[d] <= MaxLag
      BY <1>2, <3>4, <3>5, Zenon DEF FetchInv
    <3>6. queue' = [j \in L!Key |-> queue'[j]] /\ grants' = [j \in L!Key |-> grants'[j]]
      BY <1>2, <3>1, <3>3 DEF FetchInv
    <3>7. \A j \in L!Key \ {k} : queue'[j] = queue[j] /\ grants'[j] = grants[j]
      BY <1>2, <3>1, <3>3 DEF FetchInv
    <3>8. Follows(queue'[k], grants'[k], now) /\ Limited(grants'[k], now)
      BY <1>2, <3>1, <3>3 DEF FetchInv
    <3>9. ASSUME NEW j \in L!Key PROVE Follows(queue'[j], grants'[j], now) /\ Limited(grants'[j], now)
      BY <1>2, <3>7, <3>8, Zenon DEF FetchInv
    <3> QED BY <2>0, <3>2, <3>4, <3>5, <3>6, <3>9, Zenon DEF FetchInv
  <2> QED BY <1>2, <2>1, <2>2, <2>3, <2>4 DEF L!Next
<1> QED BY <1>1, <1>2, PTL DEF L!Spec

\* enforce_fetch_rate_limit lets at most MaxCalls calls of one caller through
\* in any window, less the time between reading the clock and taking the lock.
THEOREM AtMostMaxCallsHolds == ASSUME FetchConstants PROVE L!Spec => []L!AtMostMaxCalls
<1>1. FetchInv => L!AtMostMaxCalls
  BY DEF FetchInv, Limited, L!AtMostMaxCalls
<1> QED BY <1>1, FetchInvHolds, PTL

\* A call is refused only after MaxCalls calls of its own caller were granted
\* within the window: refused calls are not counted.
THEOREM RefusedWhenFullHolds == ASSUME FetchConstants PROVE L!Spec => L!RefusedWhenFull
<1>1. ASSUME FetchInv, [L!Next]_L!vars PROVE [L!RefusalJustified]_L!vars
  <2> SUFFICES L!RefusalJustified
    BY Zenon
  <2> SUFFICES ASSUME NEW c \in Fetch, call[c] # L!Idle, call'[c] = L!Idle, grants' = grants
               PROVE  Cardinality({i \in DOMAIN grants[KeyOf[c]] :
                            now - grants[KeyOf[c]][i] < Window + MaxLag}) >= MaxCalls
    BY SameCount, Zenon DEF L!RefusalJustified
  <2>0. now \in Nat /\ call = [d \in Fetch |-> call[d]]
    BY <1>1 DEF FetchInv
  <2>1. ~ (UNCHANGED L!vars) /\ ~ L!Tick
    BY DEF L!vars, L!Tick
  <2>2. ASSUME NEW d \in Fetch, L!ReadClock(d) PROVE FALSE
    BY <2>0, <2>2 DEF L!ReadClock, L!Idle
  <2>3. PICK d \in Fetch : L!EnforceFetchRateLimit(d)
    BY <1>1, <2>1, <2>2 DEF L!Next
  <2>4. c = d
    BY <2>0, <2>3 DEF L!EnforceFetchRateLimit
  <2>5. Len(L!Trimmed(queue[KeyOf[c]], call[c])) >= MaxCalls
    <3> DEFINE k == KeyOf[c]
    <3> SUFFICES ASSUME ~ (Len(L!Trimmed(queue[k], call[c])) >= MaxCalls) PROVE FALSE
      OBVIOUS
    <3>1. grants' = [grants EXCEPT ![k] = Append(grants[k], now)]
      BY <2>3, <2>4 DEF L!EnforceFetchRateLimit
    <3>2. k \in L!Key
      BY DEF L!Key
    <3> HIDE DEF k
    <3>3. grants = [j \in L!Key |-> grants[j]] /\ grants[k] \in Seq(Nat)
      BY <1>1, <3>2 DEF FetchInv, Limited
    <3>4. grants[k] = Append(grants[k], now)
      BY <3>1, <3>2, <3>3
    <3>5. Len(Append(grants[k], now)) = Len(grants[k]) + 1 /\ Len(grants[k]) \in Nat
      BY <2>0, <3>3
    <3> QED BY <3>4, <3>5
  <2> QED BY <1>1, <2>3, <2>4, <2>5, Enforced
<1> QED BY <1>1, FetchInvHolds, PTL DEF L!Spec, L!RefusedWhenFull

----------------------------------------------------------------------------
(* AddressChoice: for any nodes, addresses and subnets, an interface that  *)
(* is up has the address that its node has chosen and announces.  That is  *)
(* not inductive: an interface that comes up at the end of a round must    *)
(* not meet the notification that an earlier one has closed, so there is   *)
(* none, nor an interface, while a round is in progress.                   *)

CONSTANTS Node, Dhcp, Ip, Subnet, MaxAssigns, MaxFailed, MaxClosed
VARIABLES current, ipv4, nic, closed, round, route, assigned, budget

D == INSTANCE AddressChoice

\* A node has an interface only between rounds, and none once it has closed; the
\* address of an interface is the current and the announced one.
Consistent(n) ==
    /\ round[n] # D!Rest => nic[n] = D!None /\ ~ closed[n]
    /\ closed[n] => nic[n] = D!None
    /\ nic[n] # D!None => nic[n] = current[n] /\ nic[n] = ipv4[n]

\* The inductive invariant of check_dhcp_ip_conflict.
AddressInv ==
    /\ current = [n \in Node |-> current[n]] /\ ipv4 = [n \in Node |-> ipv4[n]]
    /\ nic = [n \in Node |-> nic[n]] /\ closed \in [Node -> BOOLEAN]
    /\ round = [n \in Node |-> round[n]]
    /\ \A n \in Node : Consistent(n)

\* No node has an interface at the start.
LEMMA AddressInit == D!Init => AddressInv
  BY DEF D!Init, AddressInv, Consistent, D!None, D!Rest

\* A round that changes nothing but a closed interface's address.
LEMMA StayConsistent ==
    ASSUME AddressInv, NEW n \in Node, round[n] = D!Rest, D!Stay(n),
           closed' = [closed EXCEPT ![n] = FALSE]
    PROVE  AddressInv'
<1>1. closed' \in [Node -> BOOLEAN] /\ ~ closed'[n]
  BY DEF AddressInv
<1>2. /\ current' = [current EXCEPT ![n] = IF closed[n] THEN D!None ELSE current[n]]
      /\ ipv4' = ipv4 /\ nic' = nic /\ round' = round
  BY DEF D!Stay, D!Now
<1>3. Consistent(n)'
  <2>1. current'[n] = IF closed[n] THEN D!None ELSE current[n]
    BY <1>2 DEF AddressInv
  <2> QED BY <1>1, <1>2, <2>1 DEF AddressInv, Consistent
<1>4. ASSUME NEW m \in Node, m # n PROVE Consistent(m)'
  <2>1. current'[m] = current[m] /\ closed'[m] = closed[m]
    BY <1>2, <1>4 DEF AddressInv
  <2> QED BY <1>2, <2>1 DEF AddressInv, Consistent
<1>5. \A m \in Node : Consistent(m)'
  BY <1>3, <1>4
<1>6. current' = [m \in Node |-> current'[m]]
  BY <1>2 DEF AddressInv
<1> QED BY <1>1, <1>2, <1>5, <1>6 DEF AddressInv

\* A round that changes the address takes the interface away first.
LEMMA ChangeConsistent ==
    ASSUME AddressInv, NEW n \in Node, NEW to, D!Change(n, to),
           closed' = [closed EXCEPT ![n] = FALSE]
    PROVE  AddressInv'
<1>1. closed' \in [Node -> BOOLEAN] /\ ~ closed'[n]
  BY DEF AddressInv
<1>2. nic' = [nic EXCEPT ![n] = D!None] /\ nic'[n] = D!None /\ nic' = [m \in Node |-> nic'[m]]
  BY DEF D!Change, AddressInv
<1>3. /\ current' = [m \in Node |-> current'[m]] /\ ipv4' = [m \in Node |-> ipv4'[m]]
      /\ round' = [m \in Node |-> round'[m]]
  BY DEF D!Change, AddressInv
<1>4. ASSUME NEW m \in Node, m # n PROVE Consistent(m)'
  <2>1. /\ nic'[m] = nic[m] /\ closed'[m] = closed[m] /\ current'[m] = current[m]
        /\ ipv4'[m] = ipv4[m] /\ round'[m] = round[m]
    BY <1>4 DEF D!Change, AddressInv
  <2> QED BY <2>1 DEF AddressInv, Consistent
<1>5. Consistent(n)'
  BY <1>1, <1>2 DEF Consistent
<1>6. \A m \in Node : Consistent(m)'
  BY <1>4, <1>5
<1> QED BY <1>1, <1>2, <1>3, <1>6 DEF AddressInv

\* Every way a round can start is one of the two.
LEMMA RoundStays ==
    ASSUME NEW n \in Node, D!StartRound(n)
    PROVE  /\ round[n] = D!Rest /\ closed' = [closed EXCEPT ![n] = FALSE]
           /\ D!Stay(n) \/ \E to : D!Change(n, to)
<1>1. ASSUME NEW to, D!Candidate(n, to) PROVE D!Stay(n) \/ \E x : D!Change(n, x)
  BY <1>1 DEF D!Candidate
<1>2. ASSUME D!Withdraw(n) PROVE D!Stay(n) \/ \E x : D!Change(n, x)
  BY <1>2 DEF D!Withdraw
<1>3. ASSUME D!Choose(n) PROVE D!Stay(n) \/ \E x : D!Change(n, x)
  BY <1>1, <1>3 DEF D!Choose
<1>4. \/ D!Candidate(n, assigned[n]) \/ D!Choose(n) \/ D!Withdraw(n)
  BY DEF D!StartRound
<1> QED BY <1>1, <1>2, <1>3, <1>4 DEF D!StartRound

\* Every step keeps the invariant.
LEMMA AddressNext == ASSUME AddressInv, [D!Next]_D!vars PROVE AddressInv'
<1>1. ASSUME NEW n \in Node, D!StartRound(n) PROVE AddressInv'
  BY <1>1, RoundStays, StayConsistent, ChangeConsistent
<1>2. ASSUME NEW n \in Node, D!InterfaceUp(n) PROVE AddressInv'
  <2>1. /\ nic' = [nic EXCEPT ![n] = round[n]] /\ current' = [current EXCEPT ![n] = round[n]]
        /\ ipv4' = [ipv4 EXCEPT ![n] = round[n]] /\ round' = [round EXCEPT ![n] = D!Rest]
        /\ round[n] # D!Rest /\ closed' = closed
    BY <1>2 DEF D!InterfaceUp
  <2>2. /\ nic'[n] = round[n] /\ current'[n] = round[n] /\ ipv4'[n] = round[n]
        /\ round'[n] = D!Rest /\ ~ closed[n]
    BY <2>1 DEF AddressInv, Consistent
  <2>3. Consistent(n)'
    BY <2>1, <2>2 DEF Consistent
  <2>4. ASSUME NEW m \in Node, m # n PROVE Consistent(m)'
    <3>1. /\ nic'[m] = nic[m] /\ current'[m] = current[m] /\ ipv4'[m] = ipv4[m]
          /\ round'[m] = round[m]
      BY <2>1, <2>4 DEF AddressInv
    <3> QED BY <2>1, <3>1 DEF AddressInv, Consistent
  <2>5. \A m \in Node : Consistent(m)'
    BY <2>3, <2>4
  <2>6. /\ current' = [m \in Node |-> current'[m]] /\ ipv4' = [m \in Node |-> ipv4'[m]]
        /\ nic' = [m \in Node |-> nic'[m]] /\ round' = [m \in Node |-> round'[m]]
    BY <2>1 DEF AddressInv
  <2> QED BY <2>1, <2>5, <2>6 DEF AddressInv
<1>3. ASSUME NEW n \in Node, D!InterfaceFails(n) PROVE AddressInv'
  <2>1. /\ nic' = nic /\ current' = current /\ closed' = closed /\ round[n] # D!Rest
        /\ ipv4' = [ipv4 EXCEPT ![n] = D!None] /\ round' = [round EXCEPT ![n] = D!Rest]
    BY <1>3 DEF D!InterfaceFails
  <2>2. nic[n] = D!None
    BY <2>1 DEF AddressInv, Consistent
  <2>3. Consistent(n)'
    <3>1. round'[n] = D!Rest
      BY <2>1 DEF AddressInv
    <3> QED BY <2>1, <2>2, <3>1 DEF Consistent
  <2>4. ASSUME NEW m \in Node, m # n PROVE Consistent(m)'
    <3>1. ipv4'[m] = ipv4[m] /\ round'[m] = round[m]
      BY <2>1, <2>4 DEF AddressInv
    <3> QED BY <2>1, <3>1 DEF AddressInv, Consistent
  <2>5. \A m \in Node : Consistent(m)'
    BY <2>3, <2>4
  <2>6. ipv4' = [m \in Node |-> ipv4'[m]] /\ round' = [m \in Node |-> round'[m]]
    BY <2>1 DEF AddressInv
  <2> QED BY <2>1, <2>5, <2>6 DEF AddressInv
<1>4. ASSUME NEW n \in Node, D!InterfaceCloses(n) PROVE AddressInv'
  <2>1. /\ nic' = [nic EXCEPT ![n] = D!None] /\ closed' = [closed EXCEPT ![n] = TRUE]
        /\ current' = current /\ ipv4' = ipv4 /\ round' = round /\ nic[n] # D!None
    BY <1>4 DEF D!InterfaceCloses
  <2>2. nic'[n] = D!None /\ round[n] = D!Rest /\ closed' \in [Node -> BOOLEAN]
    BY <2>1 DEF AddressInv, Consistent
  <2>3. Consistent(n)'
    BY <2>1, <2>2 DEF Consistent
  <2>4. ASSUME NEW m \in Node, m # n PROVE Consistent(m)'
    <3>1. nic'[m] = nic[m] /\ closed'[m] = closed[m]
      BY <2>1, <2>4 DEF AddressInv
    <3> QED BY <2>1, <3>1 DEF AddressInv, Consistent
  <2>5. \A m \in Node : Consistent(m)'
    BY <2>3, <2>4
  <2>6. nic' = [m \in Node |-> nic'[m]]
    BY <2>1 DEF AddressInv
  <2> QED BY <2>1, <2>2, <2>5, <2>6 DEF AddressInv
<1>5. ASSUME UNCHANGED <<current, ipv4, nic, closed, round>> PROVE AddressInv'
  BY <1>5 DEF AddressInv, Consistent
<1>6. ASSUME NEW n \in Node,
             (\E m \in Node : D!LearnRoute(n, m)) \/ \E a \in Ip \cup {D!None} : D!Assign(n, a)
      PROVE  AddressInv'
  BY <1>5, <1>6 DEF D!LearnRoute, D!Assign
<1>7. CASE UNCHANGED D!vars
  BY <1>5, <1>7 DEF D!vars
<1> QED BY <1>1, <1>2, <1>3, <1>4, <1>6, <1>7 DEF D!Next

\* Whatever fails, closes, is assigned or withdrawn, and however far the routes
\* lag behind, an interface that is up has the address its node has chosen and
\* announces (check_dhcp_ip_conflict).
THEOREM InterfaceIsAnnouncedHolds == D!Spec => []D!InterfaceIsAnnounced
<1>1. AddressInv => D!InterfaceIsAnnounced
  BY DEF AddressInv, Consistent, D!InterfaceIsAnnounced
<1>2. AddressInv /\ [D!Next]_D!vars => AddressInv'
  BY AddressNext
<1> QED BY <1>1, <1>2, AddressInit, PTL DEF D!Spec
=============================================================================
