----------------------------- MODULE FetchLimit -----------------------------
(***************************************************************************)
(* The rate limit of fetch_config.  A call reads the clock, takes the lock *)
(* of rate_limits, drops the expired instants at the front of its caller's *)
(* queue and is refused when the queue is still full.  The clock is read   *)
(* before the lock is taken, so calls can enter the queue out of order; a  *)
(* call waits for the lock for at most MaxLag.                             *)
(***************************************************************************)
EXTENDS Integers, Sequences, FiniteSets, FiniteSetsExt

CONSTANTS
    Call,      \* concurrent fetch_config calls
    KeyOf,     \* KeyOf[c]: the rate-limit key of the caller behind c
    Window,    \* FETCH_RATE_LIMIT_WINDOW
    MaxCalls,  \* FETCH_RATE_LIMIT_MAX_CALLS
    MaxLag,    \* the longest wait for the lock
    MaxTime    \* bound: the time at which the clock stops

Key == {KeyOf[c] : c \in Call}

VARIABLES
    now,
    call,      \* call[c]: the instant c read, Idle before and after
    queue,     \* queue[k]: the instants of rate_limits
    grants     \* grants[k]: when the calls of k were let through

vars == <<now, call, queue, grants>>

Idle == -1

Init ==
    /\ now = 0
    /\ call = [c \in Call |-> Idle]
    /\ queue = [k \in Key |-> <<>>]
    /\ grants = [k \in Key |-> <<>>]

\* The lock is held for a few instructions: no call waits longer than MaxLag.
Tick ==
    /\ now < MaxTime
    /\ \A c \in Call : call[c] # Idle => now - call[c] < MaxLag
    /\ now' = now + 1
    /\ UNCHANGED <<call, queue, grants>>

ReadClock(c) ==
    /\ call[c] = Idle
    /\ call' = [call EXCEPT ![c] = now]
    /\ UNCHANGED <<now, queue, grants>>

\* Fault: the window ends a tick early.
ExpiredEarly(t, at) == at - t >= Window - 1

\* duration_since saturates: an instant later than the call's own is not old.
Expired(t, at) == at - t >= Window

\* The queue without the expired instants at its front.
Trimmed(q, at) ==
    LET fresh == {i \in 1 .. Len(q) : ~Expired(q[i], at)}
    IN IF fresh = {} THEN <<>> ELSE SubSeq(q, Min(fresh), Len(q))

\* Fault: the instant is recorded before the limit is checked.
EnforceCountingRefused(c) ==
    LET k == KeyOf[c]
        q == Trimmed(queue[k], call[c])
    IN /\ call[c] # Idle
       /\ call' = [call EXCEPT ![c] = Idle]
       /\ queue' = [queue EXCEPT ![k] = Append(q, call[c])]
       /\ grants' = IF Len(q) >= MaxCalls THEN grants ELSE [grants EXCEPT ![k] = Append(@, now)]
       /\ UNCHANGED now

EnforceFetchRateLimit(c) ==
    LET k == KeyOf[c]
        q == Trimmed(queue[k], call[c])
    IN /\ call[c] # Idle
       /\ call' = [call EXCEPT ![c] = Idle]
       /\ IF Len(q) >= MaxCalls
          THEN /\ queue' = [queue EXCEPT ![k] = q]
               /\ UNCHANGED grants
          ELSE /\ queue' = [queue EXCEPT ![k] = Append(q, call[c])]
               /\ grants' = [grants EXCEPT ![k] = Append(@, now)]
       /\ UNCHANGED now

Next == Tick \/ \E c \in Call : ReadClock(c) \/ EnforceFetchRateLimit(c)

Spec == Init /\ [][Next]_vars
----------------------------------------------------------------------------
(* Properties *)

\* The types of the state.
TypeOK ==
    /\ now \in 0 .. MaxTime
    /\ call \in [Call -> {Idle} \cup 0 .. now]
    /\ \A k \in Key : \A i \in DOMAIN queue[k] : queue[k][i] \in 0 .. now
    /\ \A k \in Key : \A i \in DOMAIN grants[k] : grants[k][i] \in 0 .. now

\* The limit of enforce_fetch_rate_limit, measured where the calls are let
\* through: any MaxCalls + 1 calls granted to one caller span the window, less
\* at most the time a call waits between reading the clock and the lock.
AtMostMaxCalls ==
    \A k \in Key : \A i \in 1 .. Len(grants[k]) - MaxCalls :
        grants[k][i + MaxCalls] - grants[k][i] >= Window - MaxLag

\* A step that refuses a call finds MaxCalls calls granted to its caller.
RefusalJustified ==
    \A c \in Call :
        (call[c] # Idle /\ call'[c] = Idle /\ grants' = grants) =>
            Cardinality({i \in DOMAIN grants[KeyOf[c]] :
                            now - grants[KeyOf[c]][i] < Window + MaxLag}) >= MaxCalls

\* A call is refused only when its own caller was granted MaxCalls calls
\* within the window (and the wait for the lock): refused calls, and the calls
\* of other callers, do not count against it.
RefusedWhenFull == [][RefusalJustified]_vars
=============================================================================
