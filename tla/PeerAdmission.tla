--------------------------- MODULE PeerAdmission ---------------------------
(***************************************************************************)
(* How one daemon admits direct peers and cuts them off again when the     *)
(* signed state changes.                                                   *)
(*                                                                         *)
(* A connection is admitted in several steps with awaits between them: the *)
(* handshake verifies the member certificate against the pool, the peer's  *)
(* identity is computed and remembered, and only then the connection       *)
(* enters the peer map.  Concurrently, a refresh task started after every  *)
(* configuration pull (and by every pushed configuration) walks over the   *)
(* remembered identities, closes the peers the current state rejects, and  *)
(* recomputes the capabilities of the others.  Several refreshes may run   *)
(* at once.  The pool itself changes at any moment.                        *)
(***************************************************************************)
EXTENDS Naturals, FiniteSets

CONSTANTS
    Peers,      \* peer ids
    Certs,      \* member certificates (fingerprints)
    Conns,      \* slots for connections
    Tasks,      \* slots for refresh tasks
    NoIdentity, \* no entry in peer_trust_acl_identities
    NoPeer

ASSUME SentinelAssumption ==
    /\ NoPeer \notin Peers
    /\ NoIdentity \notin [cert : Certs, relay : BOOLEAN]

VARIABLES
    revoked,    \* certificates the pool's state revokes
    disabled,   \* certificates it disables, counting only unexpired entries
    grant,      \* grant[c]: whether it lets c relay (effective capabilities)
    conn,       \* conn[k]: admission progress of connection k
    identity,   \* identity[p]: entry of peer_trust_acl_identities
    task        \* task[t]: progress of refresh task t

vars == <<revoked, disabled, grant, conn, identity, task>>

Identity == [cert : Certs, relay : BOOLEAN]

NoConn == [pc |-> "none"]

Admission ==
    [pc : {"verified"}, peer : Peers, cert : Certs]
      \cup [pc : {"computed", "remembered", "live"},
            peer : Peers, cert : Certs, relay : BOOLEAN]

NoTask == [pc |-> "idle", todo |-> {}, closing |-> NoPeer]

Init ==
    /\ revoked = {}
    /\ disabled = {}
    /\ grant \in [Certs -> BOOLEAN]
    /\ conn = [k \in Conns |-> NoConn]
    /\ identity = [p \in Peers |-> NoIdentity]
    /\ task = [t \in Tasks |-> NoTask]

----------------------------------------------------------------------------
(* The pool *)

\* A newer state is applied (or a disable period ends): a certificate is
\* revoked for good, disabled, enabled, or its capabilities change.
ApplyState(c) ==
    /\ \/ revoked' = revoked \cup {c} /\ UNCHANGED <<disabled, grant>>
       \/ disabled' = disabled \cup {c} /\ UNCHANGED <<revoked, grant>>
       \/ disabled' = disabled \ {c} /\ UNCHANGED <<revoked, grant>>
       \/ grant' = [grant EXCEPT ![c] = ~ @] /\ UNCHANGED <<revoked, disabled>>
    /\ UNCHANGED <<conn, identity, task>>

\* peer_identity_allowed_by_current_trust_state, and the same test inside
\* verify_member_cert.
Allowed(c) == c \notin revoked /\ c \notin disabled

----------------------------------------------------------------------------
(* Admission of a connection *)

\* The handshake verifies the peer's certificate against the pool.
Verify(k, p, c) ==
    /\ conn[k].pc = "none"
    /\ Allowed(c)
    /\ conn' = [conn EXCEPT ![k] = [pc |-> "verified", peer |-> p, cert |-> c]]
    /\ UNCHANGED <<revoked, disabled, grant, identity, task>>

\* Fault: the capabilities are not computed.
SkipComputeCaps(k) ==
    /\ conn[k].pc = "verified"
    /\ conn' = [conn EXCEPT ![k].pc = "computed"]
    /\ UNCHANGED <<revoked, disabled, grant, identity, task>>

\* remember_trust_acl_identity: effective_caps_for reads the pool ...
ComputeCaps(k) ==
    /\ conn[k].pc = "verified"
    /\ conn' = [conn EXCEPT ![k] =
                  [pc |-> "computed", peer |-> conn[k].peer, cert |-> conn[k].cert,
                   relay |-> grant[conn[k].cert]]]
    /\ UNCHANGED <<revoked, disabled, grant, identity, task>>

\* ... and the identity is inserted after the pool's lock was released.
Remember(k) ==
    /\ conn[k].pc = "computed"
    /\ identity' = [identity EXCEPT ![conn[k].peer] =
                      [cert |-> conn[k].cert, relay |-> conn[k].relay]]
    /\ conn' = [conn EXCEPT ![k].pc = "remembered"]
    /\ UNCHANGED <<revoked, disabled, grant, task>>

\* PeerMap::add_new_peer_conn.
AddConn(k) ==
    /\ conn[k].pc = "remembered"
    /\ conn' = [conn EXCEPT ![k].pc = "live"]
    /\ UNCHANGED <<revoked, disabled, grant, identity, task>>

\* The connection is lost, before or after admission.  The remembered identity
\* stays.
LoseConn(k) ==
    /\ conn[k].pc # "none"
    /\ conn' = [conn EXCEPT ![k] = NoConn]
    /\ UNCHANGED <<revoked, disabled, grant, identity, task>>

----------------------------------------------------------------------------
(* refresh_runtime_trust_state *)

\* enforce_current_trust_state copies the remembered identities.
Snapshot(t) ==
    /\ task[t].pc = "idle"
    /\ task' = [task EXCEPT ![t] =
                  [pc |-> "enforce", closing |-> NoPeer,
                   todo |-> {<<p, identity[p].cert>> :
                               p \in {q \in Peers : identity[q] # NoIdentity}}]]
    /\ UNCHANGED <<revoked, disabled, grant, conn, identity>>

\* The next copied identity is allowed: nothing to do.
Keep(t) ==
    /\ task[t].pc = "enforce"
    /\ \E x \in task[t].todo :
         /\ Allowed(x[2])
         /\ task' = [task EXCEPT ![t].todo = @ \ {x}]
    /\ UNCHANGED <<revoked, disabled, grant, conn, identity>>

\* It is rejected.  The test releases the pool's lock before the peer is dealt
\* with.
Condemn(t) ==
    /\ task[t].pc = "enforce"
    /\ \E x \in task[t].todo :
         /\ ~ Allowed(x[2])
         /\ task' = [task EXCEPT ![t] =
                       [pc |-> "forget", todo |-> @.todo \ {x}, closing |-> x[1]]]
    /\ UNCHANGED <<revoked, disabled, grant, conn, identity>>

\* Fault: the identity is removed and the peer stays in the peer map.
ForgetOnly(t) ==
    /\ task[t].pc = "forget"
    /\ identity' = [identity EXCEPT ![task[t].closing] = NoIdentity]
    /\ task' = [task EXCEPT ![t].pc = "enforce", ![t].closing = NoPeer]
    /\ UNCHANGED <<revoked, disabled, grant, conn>>

\* Its identity is removed, whatever it is by now ...
Forget(t) ==
    /\ task[t].pc = "forget"
    /\ identity' = [identity EXCEPT ![task[t].closing] = NoIdentity]
    /\ task' = [task EXCEPT ![t].pc = "close"]
    /\ UNCHANGED <<revoked, disabled, grant, conn>>

\* ... and then the peer is removed from the peer map with the connections it
\* has there (close_peer).
ClosePeer(t) ==
    /\ task[t].pc = "close"
    /\ conn' = [k \in Conns |->
                  IF conn[k].pc = "live" /\ conn[k].peer = task[t].closing
                    THEN NoConn ELSE conn[k]]
    /\ task' = [task EXCEPT ![t].pc = "enforce", ![t].closing = NoPeer]
    /\ UNCHANGED <<revoked, disabled, grant, identity>>

\* Fault: capabilities are not recomputed after enforcement.
SkipRefreshCaps(t) ==
    /\ task[t].pc = "enforce" /\ task[t].todo = {}
    /\ task' = [task EXCEPT ![t] = NoTask]
    /\ UNCHANGED <<revoked, disabled, grant, conn, identity>>

\* refresh_effective_trust_capabilities, under the pool's read lock.
RefreshCaps(t) ==
    /\ task[t].pc = "enforce" /\ task[t].todo = {}
    /\ identity' = [p \in Peers |->
                      IF identity[p] = NoIdentity THEN NoIdentity
                      ELSE [identity[p] EXCEPT !.relay = grant[identity[p].cert]]]
    /\ task' = [task EXCEPT ![t] = NoTask]
    /\ UNCHANGED <<revoked, disabled, grant, conn>>

TaskStep(t) == Snapshot(t) \/ Keep(t) \/ Condemn(t) \/ Forget(t) \/ ClosePeer(t) \/ RefreshCaps(t)

----------------------------------------------------------------------------

Next ==
    \/ \E c \in Certs : ApplyState(c)
    \/ \E k \in Conns, p \in Peers, c \in Certs : Verify(k, p, c)
    \/ \E k \in Conns : ComputeCaps(k) \/ Remember(k) \/ AddConn(k) \/ LoseConn(k)
    \/ \E t \in Tasks : TaskStep(t)

Spec == Init /\ [][Next]_vars

\* The pull loop starts a refresh after every round, and started tasks run on.
FairSpec == Spec /\ \A t \in Tasks : WF_vars(TaskStep(t))

----------------------------------------------------------------------------
(* Properties *)

\* Every variable stays in its set.
TypeOK ==
    /\ revoked \in SUBSET Certs
    /\ disabled \in SUBSET Certs
    /\ grant \in [Certs -> BOOLEAN]
    /\ conn \in [Conns -> {NoConn} \cup Admission]
    /\ identity \in [Peers -> {NoIdentity} \cup Identity]
    /\ task \in [Tasks -> [pc : {"idle", "enforce", "forget", "close"},
                           todo : SUBSET (Peers \X Certs),
                           closing : Peers \cup {NoPeer}]]

\* The connection k is in use under certificate c of peer p.
Live(k, p, c) == conn[k].pc = "live" /\ conn[k].peer = p /\ conn[k].cert = c

\* A connection whose certificate is revoked is closed by a refresh, as long as
\* the peer is remembered under that certificate (enforce_current_trust_state).
CutOff ==
    \A k \in Conns, p \in Peers, c \in Certs :
        (Live(k, p, c) /\ c \in revoked /\ identity[p] # NoIdentity /\ identity[p].cert = c)
            ~> (~ Live(k, p, c) \/ (identity[p] # NoIdentity /\ identity[p].cert # c))

\* "post-issue capability edits take effect without a re-handshake"
\* (refresh_effective_trust_capabilities): an identity remembered with
\* capabilities the state no longer gives is corrected, also when they were
\* computed before the state changed and remembered after.
CapsRefreshed ==
    \A p \in Peers, c \in Certs :
        (identity[p] # NoIdentity /\ identity[p].cert = c /\ identity[p].relay /\ ~ grant[c])
            ~> \/ identity[p] = NoIdentity
               \/ identity[p].cert # c
               \/ ~ identity[p].relay
               \/ grant[c]

\* "a compromised member is cut off as soon as the revoking state reaches each
\* node" (deploy.md): a connection whose certificate the pool revokes does not
\* stay.
RevokedDisconnected ==
    \A k \in Conns, p \in Peers, c \in Certs :
        (Live(k, p, c) /\ c \in revoked) ~> ~ Live(k, p, c)
=============================================================================
