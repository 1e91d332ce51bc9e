----------------------------- MODULE TrustSync -----------------------------
(***************************************************************************)
(* The signed configuration of one network of one trust domain: how a      *)
(* NetworkState is signed, written, loaded, gossiped and persisted.        *)
(*                                                                         *)
(* A device runs a daemon whose TrustDomainPool holds one NetworkState in  *)
(* memory, and keeps one network_state.cbor.pem on disk.  On the devices   *)
(* that hold sk_root.age, CLI commands and console endpoints (signing      *)
(* sessions) read the FILE, sign the next version and write the file; some *)
(* of them then also push the new version into the running daemon.         *)
(* Daemons pull newer versions from one another (ConfigSyncClient) and     *)
(* persist what they pulled.  The daemon reads the file only at start-up.  *)
(*                                                                         *)
(* A document is abstracted to its version and the three lists that decide *)
(* who belongs to the network.  Signatures are not modelled: the documents *)
(* that exist are exactly those a session signed.                          *)
(***************************************************************************)
EXTENDS Integers, FiniteSets

CONSTANTS
    Nodes,      \* devices
    Roots,      \* devices that hold sk_root.age and its passphrase
    Certs,      \* member certificates, named by their fingerprint
    CertOf,     \* CertOf[n]: the certificate device n presents
    Members,    \* certificates already issued when the behaviour starts
    Sessions,   \* signing sessions: CLI commands and console requests
    MaxVersion, \* bound: no session signs a version above this one
    NoDoc,      \* no document: no file, or no running daemon
    Torn,       \* a file truncated by fs::write and not yet rewritten
    NoCert

ASSUME ConstantsAssumption ==
    /\ Roots \subseteq Nodes
    /\ Members \subseteq Certs
    /\ CertOf \in [Nodes -> Certs]
    /\ MaxVersion \in Nat
    /\ NoCert \notin Certs

\* NetworkStatePayload and its header, down to what membership depends on.
Doc == [version  : Nat,
        index    : SUBSET Certs,
        revoked  : SUBSET Certs,
        disabled : SUBSET Certs]

ASSUME SentinelAssumption ==
    /\ NoDoc \notin Doc
    /\ Torn \notin Doc
    /\ NoDoc # Torn

VARIABLES
    mem,        \* mem[n]: the state in the pool of n's daemon; NoDoc: not running
    disk,       \* disk[n]: network_state.cbor.pem of device n
    persisting, \* persisting[n]: applied, pool write lock held, not yet renamed
    ioFailed,   \* ioFailed[n]: the last persist of the running daemon failed
    sync,       \* sync[n]: the pull in progress of n's ConfigSyncClient
    sess,       \* sess[s]: the signing session s
    certRef,    \* certRef[c]: network_state_version_ref of c; 0: not issued
    cache,      \* cache[n]: PendingCertCache of n's daemon
    released    \* history: every document that left its signing process

vars == <<mem, disk, persisting, ioFailed, sync, sess, certRef, cache, released>>

----------------------------------------------------------------------------
(* State *)

Genesis == [version |-> 1, index |-> Members, revoked |-> {}, disabled |-> {}]

IdleSync == [phase |-> "idle", peer |-> NoDoc, doc |-> NoDoc]

Kinds == {"revoke", "disable", "enable", "approve"}

IdleSession == [pc |-> "idle", host |-> NoDoc, kind |-> "none", cert |-> NoCert,
                hot |-> FALSE, next |-> NoDoc, orphan |-> FALSE]

Up(n) == mem[n] # NoDoc

\* The pool's RwLock is not held for writing by a persist in progress.
Unlocked(n) == persisting[n] = NoDoc

AskedSync == [phase : {"asked"}, peer : Nodes, doc : {NoDoc}]

FetchedSync == [phase : {"fetched"}, peer : Nodes, doc : Doc]

ActiveSession ==
    [pc : {"publish", "apply", "write", "writing", "hotload"},
     host : Roots, kind : Kinds, cert : Certs, hot : BOOLEAN,
     next : Doc, orphan : BOOLEAN]

Init ==
    /\ mem = [n \in Nodes |-> IF CertOf[n] \in Members THEN Genesis ELSE NoDoc]
    /\ disk = mem
    /\ persisting = [n \in Nodes |-> NoDoc]
    /\ ioFailed = [n \in Nodes |-> FALSE]
    /\ sync = [n \in Nodes |-> IdleSync]
    /\ sess = [s \in Sessions |-> IdleSession]
    /\ certRef = [c \in Certs |-> IF c \in Members THEN 1 ELSE 0]
    /\ cache = [n \in Nodes |-> {}]
    /\ released = {Genesis}

----------------------------------------------------------------------------
(* TrustDomainPool *)

\* Fault: any different version replaces the state.
NewerFault(d, e) == d.version # e.version

\* apply_network_state replaces the state only by a strictly newer one
\* (StaleVersion otherwise).
Newer(d, e) == d.version > e.version

\* verify_member_cert: a state accepts c when it is not older than the version
\* c was issued against and c is neither revoked nor disabled in it.
Accepts(d, c) ==
    /\ certRef[c] <= d.version
    /\ c \notin d.revoked
    /\ c \notin d.disabled

----------------------------------------------------------------------------
(* Signing sessions *)

\* The pre-checks of the commands, on the document read from the file.
MayRevoke(d, c) == c \in d.index

MayDisable(d, c) == c \in d.index /\ c \notin d.revoked

MayEnable(d, c) == c \in d.disabled /\ c \notin d.revoked

\* Approval signs a fresh certificate, so its fingerprint is never indexed yet.
MayApprove(c) == certRef[c] = 0

Permitted(d, kind, c) ==
    \/ kind = "revoke" /\ MayRevoke(d, c)
    \/ kind = "disable" /\ MayDisable(d, c)
    \/ kind = "enable" /\ MayEnable(d, c)
    \/ kind = "approve" /\ MayApprove(c)

\* Fault: the version is not incremented.
SignedSameVersion(d, kind, c) ==
    [version  |-> d.version,
     index    |-> IF kind = "approve" THEN d.index \cup {c} ELSE d.index,
     revoked  |-> IF kind = "revoke" THEN d.revoked \cup {c} ELSE d.revoked,
     disabled |-> IF kind = "disable" THEN d.disabled \cup {c} ELSE d.disabled \ {c}]

\* Fault: the revocation list is replaced instead of extended.
SignedReplacing(d, kind, c) ==
    [version  |-> d.version + 1,
     index    |-> IF kind = "approve" THEN d.index \cup {c} ELSE d.index,
     revoked  |-> IF kind = "revoke" THEN {c} ELSE d.revoked,
     disabled |-> IF kind = "disable" THEN d.disabled \cup {c} ELSE d.disabled \ {c}]

\* commit_signed / sign_next_network_state: version + 1 and one list edited.
Signed(d, kind, c) ==
    [version  |-> d.version + 1,
     index    |-> IF kind = "approve" THEN d.index \cup {c} ELSE d.index,
     revoked  |-> IF kind = "revoke" THEN d.revoked \cup {c} ELSE d.revoked,
     disabled |-> CASE kind = "disable" -> d.disabled \cup {c}
                    [] kind = "enable" -> d.disabled \ {c}
                    [] OTHER -> d.disabled]

\* Which commands push what they wrote into the running daemon: the CLI's
\* disable and enable do, the console's do not, and neither does any revoke.
\* Approval pushes before it writes.
MayHotLoad(kind) == IF kind \in {"disable", "enable"} THEN BOOLEAN ELSE {FALSE}

\* Read and parse the file, check, unlock the root key and sign.
SessionOpen(s, r, kind, c) ==
    /\ sess[s].pc = "idle"
    /\ disk[r] \in Doc
    /\ disk[r].version < MaxVersion
    /\ Permitted(disk[r], kind, c)
    /\ \E hot \in MayHotLoad(kind) :
         sess' = [sess EXCEPT ![s] =
                    [pc |-> IF kind = "approve" THEN "publish" ELSE "write",
                     host |-> r, kind |-> kind, cert |-> c, hot |-> hot,
                     next |-> Signed(disk[r], kind, c), orphan |-> FALSE]]
    /\ certRef' = IF kind = "approve"
                    THEN [certRef EXCEPT ![c] = disk[r].version] ELSE certRef
    /\ UNCHANGED <<mem, disk, persisting, ioFailed, sync, cache, released>>

\* approve_join_request, first half: the certificate enters the pending-cert
\* cache, where the applicant can fetch it, before the state is looked at.
ApprovePublish(s) ==
    LET r == sess[s].host IN
    /\ sess[s].pc = "publish"
    /\ Up(r)
    /\ cache' = [cache EXCEPT ![r] = @ \cup {sess[s].cert}]
    /\ sess' = [sess EXCEPT ![s].pc = "apply"]
    /\ UNCHANGED <<mem, disk, persisting, ioFailed, sync, certRef, released>>

\* approve_join_request, second half: the state is applied to the pool, in
\* memory only; a stale one makes the RPC fail and the command stop.
ApproveApply(s) ==
    LET r == sess[s].host IN
    /\ sess[s].pc = "apply"
    /\ Unlocked(r)
    /\ \/ /\ Newer(sess[s].next, mem[r])
          /\ mem' = [mem EXCEPT ![r] = sess[s].next]
          /\ released' = released \cup {sess[s].next}
          /\ sess' = [sess EXCEPT ![s].pc = "write"]
       \/ /\ ~ Newer(sess[s].next, mem[r])
          /\ sess' = [sess EXCEPT ![s] = IdleSession]
          /\ UNCHANGED <<mem, released>>
    /\ UNCHANGED <<disk, persisting, ioFailed, sync, certRef, cache>>

\* write_state_with_backup: the old text goes to a backup file, then fs::write
\* truncates the state file ...
BeginWrite(s) ==
    LET r == sess[s].host IN
    /\ sess[s].pc = "write"
    /\ disk' = [disk EXCEPT ![r] = Torn]
    /\ sess' = [sess EXCEPT ![s].pc = "writing"]
    /\ UNCHANGED <<mem, persisting, ioFailed, sync, certRef, cache, released>>

\* ... and writes the new text to the file it opened.  When the daemon renamed
\* another file over the path meanwhile, the text goes to the unlinked file
\* (orphan).  When another session finished writing the same file after this
\* one truncated it, the two texts may overlap.
FinishWrite(s) ==
    LET r == sess[s].host
        d == sess[s].next
    IN
    /\ sess[s].pc = "writing"
    /\ \/ /\ sess[s].orphan
          /\ UNCHANGED <<disk, released>>
       \/ /\ ~ sess[s].orphan
          /\ disk' = [disk EXCEPT ![r] = d]
          /\ released' = released \cup {d}
       \/ /\ ~ sess[s].orphan
          /\ disk[r] # Torn
          /\ disk' = [disk EXCEPT ![r] = Torn]
          /\ UNCHANGED released
    /\ sess' = IF sess[s].hot
                 THEN [sess EXCEPT ![s].pc = "hotload"]
                 ELSE [sess EXCEPT ![s] = IdleSession]
    /\ UNCHANGED <<mem, persisting, ioFailed, sync, certRef, cache>>

\* apply_network_state_to_daemon -> patch_config: the pool, in memory only.  A
\* stale version or a daemon that is not running only prints a warning.
HotLoad(s) ==
    LET r == sess[s].host
        d == sess[s].next
    IN
    /\ sess[s].pc = "hotload"
    /\ \/ /\ Up(r) /\ Unlocked(r) /\ Newer(d, mem[r])
          /\ mem' = [mem EXCEPT ![r] = d]
          /\ released' = released \cup {d}
       \/ /\ Up(r) => Unlocked(r) /\ ~ Newer(d, mem[r])
          /\ UNCHANGED <<mem, released>>
    /\ sess' = [sess EXCEPT ![s] = IdleSession]
    /\ UNCHANGED <<disk, persisting, ioFailed, sync, certRef, cache>>

\* The command is killed, or one of its calls fails, between two of its steps.
SessionAbort(s) ==
    /\ sess[s].pc # "idle"
    /\ sess' = [sess EXCEPT ![s] = IdleSession]
    /\ UNCHANGED <<mem, disk, persisting, ioFailed, sync, certRef, cache, released>>

----------------------------------------------------------------------------
(* ConfigSyncClient and ConfigSyncService *)

\* Fault: the next version is not worth a fetch.
ShouldFetchOffByOne(local, remote, force) ==
    remote.version > local.version + 1

\* should_fetch_by_version_and_digest: a newer version, or on a full (forced)
\* round a different document of the same version.
ShouldFetch(local, remote, force) ==
    \/ Newer(remote, local)
    \/ force /\ remote.version = local.version /\ remote # local

\* sync_once asks peer m for its version (query_config_version).
SyncQuery(n, m) ==
    /\ n # m
    /\ sync[n] = IdleSync
    /\ Up(n) /\ Unlocked(n)
    /\ Up(m) /\ Unlocked(m)
    /\ \E force \in BOOLEAN : ShouldFetch(mem[n], mem[m], force)
    /\ sync' = [sync EXCEPT ![n] = [phase |-> "asked", peer |-> m, doc |-> NoDoc]]
    /\ UNCHANGED <<mem, disk, persisting, ioFailed, sess, certRef, cache, released>>

\* fetch_network_state at the peer: the caller's certificate must verify in the
\* peer's pool; the answer is the state the peer holds by then.
SyncFetch(n) ==
    LET m == sync[n].peer IN
    /\ sync[n].phase = "asked"
    /\ Up(m) /\ Unlocked(m)
    /\ \/ /\ Accepts(mem[m], CertOf[n])
          /\ sync' = [sync EXCEPT ![n] = [phase |-> "fetched", peer |-> m, doc |-> mem[m]]]
       \/ /\ ~ Accepts(mem[m], CertOf[n])
          /\ sync' = [sync EXCEPT ![n] = IdleSync]
    /\ UNCHANGED <<mem, disk, persisting, ioFailed, sess, certRef, cache, released>>

\* The call fails or times out; the loop only logs it.
SyncDrop(n) ==
    /\ sync[n].phase = "asked"
    /\ sync' = [sync EXCEPT ![n] = IdleSync]
    /\ UNCHANGED <<mem, disk, persisting, ioFailed, sess, certRef, cache, released>>

\* Fault: the document is applied and never persisted.
ReceiveWithoutPersist(n) ==
    /\ sync[n].phase = "fetched"
    /\ Unlocked(n)
    /\ mem' = [mem EXCEPT ![n] = IF Newer(sync[n].doc, @) THEN sync[n].doc ELSE @]
    /\ sync' = [sync EXCEPT ![n] = IdleSync]
    /\ UNCHANGED <<disk, persisting, ioFailed, sess, certRef, cache, released>>

\* receive_network_state: apply under the pool's write lock; the lock stays
\* held until the document is persisted.
ReceiveApply(n) ==
    /\ sync[n].phase = "fetched"
    /\ Unlocked(n)
    /\ \/ /\ Newer(sync[n].doc, mem[n])
          /\ mem' = [mem EXCEPT ![n] = sync[n].doc]
          /\ persisting' = [persisting EXCEPT ![n] = sync[n].doc]
       \/ /\ ~ Newer(sync[n].doc, mem[n])
          /\ UNCHANGED <<mem, persisting>>
    /\ sync' = [sync EXCEPT ![n] = IdleSync]
    /\ UNCHANGED <<disk, ioFailed, sess, certRef, cache, released>>

\* persist_network_state: write a temporary file, rename it over the state
\* file, release the lock.
PersistRename(n) ==
    /\ ~ Unlocked(n)
    /\ disk' = [disk EXCEPT ![n] = persisting[n]]
    /\ persisting' = [persisting EXCEPT ![n] = NoDoc]
    /\ ioFailed' = [ioFailed EXCEPT ![n] = FALSE]
    /\ sess' = [s \in Sessions |->
                  IF sess[s].pc = "writing" /\ sess[s].host = n
                    THEN [sess[s] EXCEPT !.orphan = TRUE] ELSE sess[s]]
    /\ UNCHANGED <<mem, sync, certRef, cache, released>>

\* The write or the rename fails: the error is returned after the document was
\* already applied in memory.
PersistFail(n) ==
    /\ ~ Unlocked(n)
    /\ persisting' = [persisting EXCEPT ![n] = NoDoc]
    /\ ioFailed' = [ioFailed EXCEPT ![n] = TRUE]
    /\ UNCHANGED <<mem, disk, sync, sess, certRef, cache, released>>

----------------------------------------------------------------------------
(* Devices *)

\* The daemon stops: its pool, its pending-cert cache, its pull and the
\* approval RPCs it was serving are gone.
Crash(n) ==
    /\ Up(n)
    /\ mem' = [mem EXCEPT ![n] = NoDoc]
    /\ persisting' = [persisting EXCEPT ![n] = NoDoc]
    /\ ioFailed' = [ioFailed EXCEPT ![n] = FALSE]
    /\ sync' = [sync EXCEPT ![n] = IdleSync]
    /\ cache' = [cache EXCEPT ![n] = {}]
    /\ sess' = [s \in Sessions |->
                  IF sess[s].pc = "apply" /\ sess[s].host = n
                    THEN IdleSession ELSE sess[s]]
    /\ UNCHANGED <<disk, certRef, released>>

\* Fault: the file is loaded without being parsed.
StartUnparsed(n) ==
    /\ ~ Up(n)
    /\ mem' = [mem EXCEPT ![n] = disk[n]]
    /\ UNCHANGED <<disk, persisting, ioFailed, sync, sess, certRef, cache, released>>

\* inject_trust_pool_from_config: the daemon starts with the document on disk;
\* a missing or unparsable file makes the start fail.
Start(n) ==
    /\ ~ Up(n)
    /\ disk[n] \in Doc
    /\ mem' = [mem EXCEPT ![n] = disk[n]]
    /\ UNCHANGED <<disk, persisting, ioFailed, sync, sess, certRef, cache, released>>

\* submit_and_await_approval: the applicant polls daemon m until its
\* certificate is there and stores it with the state m holds at that moment.
Join(n, m) ==
    /\ ~ Up(n)
    /\ disk[n] = NoDoc
    /\ Up(m) /\ Unlocked(m)
    /\ CertOf[n] \in cache[m]
    /\ disk' = [disk EXCEPT ![n] = mem[m]]
    /\ UNCHANGED <<mem, persisting, ioFailed, sync, sess, certRef, cache, released>>

----------------------------------------------------------------------------
(* Specifications *)

SessionStep(s) ==
    \/ ApprovePublish(s)
    \/ ApproveApply(s)
    \/ BeginWrite(s)
    \/ FinishWrite(s)
    \/ HotLoad(s)
    \/ SessionAbort(s)

NodeStep(n) ==
    \/ \E m \in Nodes : SyncQuery(n, m)
    \/ SyncFetch(n)
    \/ SyncDrop(n)
    \/ ReceiveApply(n)
    \/ PersistRename(n)
    \/ PersistFail(n)
    \/ Crash(n)
    \/ Start(n)
    \/ \E m \in Nodes : Join(n, m)

Next ==
    \/ \E s \in Sessions, r \in Roots, kind \in Kinds, c \in Certs :
         SessionOpen(s, r, kind, c)
    \/ \E s \in Sessions : SessionStep(s)
    \/ \E n \in Nodes : NodeStep(n)

\* Every interleaving of sessions and daemons the code allows.
Spec == Init /\ [][Next]_vars

\* Nothing in the code orders two signing sessions; that is left to the
\* operator.  An operator who signs one document at a time, on a device whose
\* file holds the newest document there is, obeys this guard.
Orderly(r) ==
    /\ \A s \in Sessions : sess[s].pc = "idle"
    /\ disk[r] \in Doc
    /\ \A d \in released : d.version <= disk[r].version

OrderlyNext ==
    \/ \E s \in Sessions, r \in Roots, kind \in Kinds, c \in Certs :
         Orderly(r) /\ SessionOpen(s, r, kind, c)
    \/ \E s \in Sessions : SessionStep(s)
    \/ \E n \in Nodes : NodeStep(n)

OrderlySpec == Init /\ [][OrderlyNext]_vars

\* The scheduling the code gives: a daemon keeps polling every peer it knows,
\* waiting for the pool's lock (tokio's RwLock is fair), and calls to a peer do
\* not fail forever; a persist and a running command finish.
Fairness ==
    /\ \A n \in Nodes :
         /\ \A m \in Nodes \ {n} :
              /\ SF_vars(SyncQuery(n, m))
              /\ SF_vars(sync[n].peer = m /\ SyncFetch(n))
              /\ SF_vars(sync[n].peer = m /\ ReceiveApply(n))
         /\ WF_vars(PersistRename(n) \/ PersistFail(n))
    /\ \A s \in Sessions : WF_vars(SessionStep(s))

FairOrderlySpec == OrderlySpec /\ Fairness

----------------------------------------------------------------------------
(* Properties *)

\* Every variable stays in its set.
TypeOK ==
    /\ mem \in [Nodes -> Doc \cup {NoDoc}]
    /\ disk \in [Nodes -> Doc \cup {NoDoc, Torn}]
    /\ persisting \in [Nodes -> Doc \cup {NoDoc}]
    /\ ioFailed \in [Nodes -> BOOLEAN]
    /\ sync \in [Nodes -> {IdleSync} \cup AskedSync \cup FetchedSync]
    /\ sess \in [Sessions -> {IdleSession} \cup ActiveSession]
    /\ certRef \in [Certs -> Nat]
    /\ cache \in [Nodes -> SUBSET Certs]
    /\ released \in SUBSET Doc

\* A version number names one document: no two documents with the same version
\* ever leave their signing processes.  Peers compare states by version alone
\* (apply_network_state), so two such documents would never be reconciled.
NoForks ==
    \A d, e \in released : d.version = e.version => d = e

\* Revocation is permanent (revocation.rs): whatever is signed later, by
\* whichever session on whichever device, still revokes what was revoked.
RevocationPermanent ==
    \A d, e \in released : d.version <= e.version => d.revoked \subseteq e.revoked

\* A daemon that treats a certificate as revoked keeps doing so for as long as
\* it runs, whatever it pulls, is pushed or is told to approve.
RevocationSticks ==
    [][\A n \in Nodes : Up(n) /\ Up(n)' => mem[n].revoked \subseteq mem'[n].revoked]_vars

\* What the pools and the files of all devices amount to: one line of documents
\* that the daemons follow.
Log == INSTANCE TrustLog WITH log <- released, view <- mem

\* The pools of the daemons behave like readers of one line of documents,
\* although commands, pulls, approvals and restarts bring the documents to them
\* in any order (apply_network_state, commit_signed).
ImplementsLog == Log!Spec

\* On a device without the root key, a state that other tasks and peers can
\* read from the pool is already on disk, unless the write failed: a restart
\* does not forget a revocation that was acted upon or passed on
\* (receive_network_state keeps the lock until the rename).
ViewDurable ==
    \A n \in Nodes \ Roots :
        Up(n) /\ Unlocked(n) /\ ~ ioFailed[n] => disk[n] = mem[n]

\* Device n runs an older version than device m, which accepts n's certificate.
Behind(n, m) ==
    Up(m) /\ Up(n) /\ mem[n].version < mem[m].version /\ Accepts(mem[m], CertOf[n])

\* A running device does not stay behind a device that accepts its certificate
\* for ever (ConfigSyncClient::pull_loop): whatever version the other keeps in
\* its pool, this one pulls it or a newer one.
Spread ==
    \A m, n \in Nodes : []<> ~ Behind(n, m)

\* "Revocation ... propagates through the next signed-config refresh"
\* (deploy.md): a revocation that the revoke command wrote to the state file
\* reaches at least the running daemons of the devices with the root key.
RevokePropagates ==
    \A c \in Certs :
        (\E r \in Roots : disk[r] \in Doc /\ c \in disk[r].revoked)
            ~> (\A n \in Roots : Up(n) => c \in mem[n].revoked)
=============================================================================
