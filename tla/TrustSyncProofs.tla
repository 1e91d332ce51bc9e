-------------------------- MODULE TrustSyncProofs --------------------------
(***************************************************************************)
(* Proofs about TrustSync for every set of devices, certificates and       *)
(* sessions and every bound on versions, and (last section) about          *)
(* PeerAdmission, which enforces what TrustSync spreads.                   *)
(***************************************************************************)
EXTENDS TrustSync, TLAPS

----------------------------------------------------------------------------
(* Facts about the operators *)

\* A session that is not idle is an active one, and the other way round.
LEMMA ActiveLemma ==
    ASSUME NEW x \in {IdleSession} \cup ActiveSession
    PROVE  x.pc # "idle" <=> x \in ActiveSession
  BY DEF IdleSession, ActiveSession

\* A pull in progress is what its phase says.
LEMMA PullLemma ==
    ASSUME NEW x \in {IdleSync} \cup AskedSync \cup FetchedSync
    PROVE  /\ x.phase = "asked" => x \in AskedSync
           /\ x.phase = "fetched" => x \in FetchedSync
  BY DEF IdleSync, AskedSync, FetchedSync

\* Signing keeps a document a document, one version up, and keeps its
\* members members and what was revoked revoked.
LEMMA SignedLemma ==
    ASSUME NEW d \in Doc, NEW kind \in Kinds, NEW c \in Certs
    PROVE  /\ Signed(d, kind, c) \in Doc
           /\ Signed(d, kind, c).version = d.version + 1
           /\ d.index \subseteq Signed(d, kind, c).index
           /\ d.revoked \subseteq Signed(d, kind, c).revoked
  BY DEF Signed, Doc, Kinds

----------------------------------------------------------------------------
(* Type correctness *)

\* The initial states are well typed.
LEMMA InitType == Init => TypeOK
  BY ConstantsAssumption DEF Init, TypeOK, Genesis, Doc

\* Each step of a signing session keeps every variable in its set.
LEMMA SessionType ==
    ASSUME TypeOK,
           NEW s \in Sessions, SessionStep(s)
    PROVE  TypeOK'
<1>1. sess[s] \in {IdleSession} \cup ActiveSession
  BY DEF TypeOK
<1>2. sess[s].pc # "idle"
  BY DEF SessionStep, ApprovePublish, ApproveApply, BeginWrite, FinishWrite,
         HotLoad, SessionAbort
<1>3. sess[s] \in ActiveSession
  BY <1>1, <1>2, ActiveLemma
<1>4. /\ sess[s].host \in Nodes
      /\ sess[s].next \in Doc
      /\ sess[s].cert \in Certs
  BY <1>3, ConstantsAssumption DEF ActiveSession
<1>5. \A pc \in {"publish", "apply", "write", "writing", "hotload"} :
        [sess EXCEPT ![s].pc = pc] \in [Sessions -> {IdleSession} \cup ActiveSession]
  BY <1>3 DEF TypeOK, ActiveSession
<1>6. [sess EXCEPT ![s] = IdleSession] \in [Sessions -> {IdleSession} \cup ActiveSession]
  BY DEF TypeOK
<1>7. CASE ApprovePublish(s)
  <2>1. cache' \in [Nodes -> SUBSET Certs]
    BY <1>4, <1>7 DEF TypeOK, ApprovePublish
  <2>2. sess' \in [Sessions -> {IdleSession} \cup ActiveSession]
    BY <1>5, <1>7 DEF ApprovePublish
  <2> QED BY <1>7, <2>1, <2>2 DEF TypeOK, ApprovePublish
<1>8. CASE ApproveApply(s)
  <2>1. sess' \in [Sessions -> {IdleSession} \cup ActiveSession]
    BY <1>5, <1>6, <1>8 DEF ApproveApply
  <2>2. /\ mem' \in [Nodes -> Doc \cup {NoDoc}]
        /\ released' \in SUBSET Doc
    BY <1>4, <1>8 DEF TypeOK, ApproveApply
  <2> QED BY <1>8, <2>1, <2>2 DEF TypeOK, ApproveApply
<1>9. CASE BeginWrite(s)
  <2>1. sess' \in [Sessions -> {IdleSession} \cup ActiveSession]
    BY <1>5, <1>9 DEF BeginWrite
  <2>2. disk' \in [Nodes -> Doc \cup {NoDoc, Torn}]
    BY <1>4, <1>9 DEF TypeOK, BeginWrite
  <2> QED BY <1>9, <2>1, <2>2 DEF TypeOK, BeginWrite
<1>10. CASE FinishWrite(s)
  <2>1. sess' \in [Sessions -> {IdleSession} \cup ActiveSession]
    BY <1>5, <1>6, <1>10 DEF FinishWrite
  <2>2. /\ disk' \in [Nodes -> Doc \cup {NoDoc, Torn}]
        /\ released' \in SUBSET Doc
    BY <1>4, <1>10 DEF TypeOK, FinishWrite
  <2> QED BY <1>10, <2>1, <2>2 DEF TypeOK, FinishWrite
<1>11. CASE HotLoad(s)
  <2>1. sess' \in [Sessions -> {IdleSession} \cup ActiveSession]
    BY <1>6, <1>11 DEF HotLoad
  <2>2. /\ mem' \in [Nodes -> Doc \cup {NoDoc}]
        /\ released' \in SUBSET Doc
    BY <1>4, <1>11 DEF TypeOK, HotLoad
  <2> QED BY <1>11, <2>1, <2>2 DEF TypeOK, HotLoad
<1>12. CASE SessionAbort(s)
  BY <1>6, <1>12 DEF TypeOK, SessionAbort
<1> QED
  BY <1>7, <1>8, <1>9, <1>10, <1>11, <1>12 DEF SessionStep

\* Opening a session keeps every variable in its set.
LEMMA OpenType ==
    ASSUME TypeOK,
           NEW s \in Sessions, NEW r \in Roots, NEW kind \in Kinds, NEW c \in Certs,
           SessionOpen(s, r, kind, c)
    PROVE  TypeOK'
<1>1. disk[r] \in Doc /\ disk[r].version \in Nat
  BY DEF SessionOpen, Doc
<1>2. Signed(disk[r], kind, c) \in Doc
  BY <1>1, SignedLemma
<1>3. PICK hot \in BOOLEAN :
        sess' = [sess EXCEPT ![s] =
                    [pc |-> IF kind = "approve" THEN "publish" ELSE "write",
                     host |-> r, kind |-> kind, cert |-> c, hot |-> hot,
                     next |-> Signed(disk[r], kind, c), orphan |-> FALSE]]
  BY DEF SessionOpen, MayHotLoad
<1>4. sess' \in [Sessions -> {IdleSession} \cup ActiveSession]
  BY <1>2, <1>3 DEF TypeOK, ActiveSession
<1>5. certRef' \in [Certs -> Nat]
  BY <1>1 DEF TypeOK, SessionOpen
<1> QED
  BY <1>4, <1>5 DEF TypeOK, SessionOpen

\* Each step of a device keeps every variable in its set.
LEMMA NodeType ==
    ASSUME TypeOK,
           NEW n \in Nodes, NodeStep(n)
    PROVE  TypeOK'
<1>1. sync[n] \in {IdleSync} \cup AskedSync \cup FetchedSync
  BY DEF TypeOK
<1>2. sync[n].phase = "fetched" => sync[n].doc \in Doc
  BY <1>1, PullLemma DEF FetchedSync
<1>3. sync[n].phase = "asked" => sync[n].peer \in Nodes
  BY <1>1, PullLemma DEF AskedSync
<1>4. ASSUME NEW m \in Nodes, SyncQuery(n, m) PROVE TypeOK'
  BY <1>4 DEF TypeOK, SyncQuery, AskedSync
<1>5. CASE SyncFetch(n)
  <2>1. mem[sync[n].peer] \in Doc
    BY <1>3, <1>5 DEF SyncFetch, Up, TypeOK
  <2>2. sync' \in [Nodes -> {IdleSync} \cup AskedSync \cup FetchedSync]
    BY <1>3, <1>5, <2>1 DEF TypeOK, SyncFetch, FetchedSync
  <2> QED BY <1>5, <2>2 DEF TypeOK, SyncFetch
<1>6. CASE SyncDrop(n)
  BY <1>6 DEF TypeOK, SyncDrop
<1>7. CASE ReceiveApply(n)
  BY <1>2, <1>7 DEF TypeOK, ReceiveApply
<1>8. CASE PersistRename(n)
  <2>1. persisting[n] \in Doc
    BY <1>8 DEF PersistRename, Unlocked, TypeOK
  <2>2. sess' \in [Sessions -> {IdleSession} \cup ActiveSession]
    <3>1. ASSUME NEW t \in Sessions, sess[t].pc = "writing"
          PROVE  [sess[t] EXCEPT !.orphan = TRUE] \in ActiveSession
      <4>1. sess[t] \in ActiveSession
        BY <3>1, ActiveLemma DEF TypeOK
      <4> QED BY <4>1 DEF ActiveSession
    <3> QED BY <1>8, <3>1 DEF TypeOK, PersistRename
  <2> QED BY <1>8, <2>1, <2>2 DEF TypeOK, PersistRename
<1>9. CASE PersistFail(n)
  BY <1>9 DEF TypeOK, PersistFail
<1>10. CASE Crash(n)
  BY <1>10 DEF TypeOK, Crash
<1>11. CASE Start(n)
  BY <1>11 DEF TypeOK, Start
<1>12. ASSUME NEW m \in Nodes, Join(n, m) PROVE TypeOK'
  BY <1>12 DEF TypeOK, Join, Up
<1> QED
  BY <1>4, <1>5, <1>6, <1>7, <1>8, <1>9, <1>10, <1>11, <1>12 DEF NodeStep

\* Every step keeps every variable in its set.
LEMMA NextType == TypeOK /\ [Next]_vars => TypeOK'
<1> SUFFICES ASSUME TypeOK, [Next]_vars PROVE TypeOK'
  OBVIOUS
<1>1. CASE UNCHANGED vars
  BY <1>1 DEF TypeOK, vars
<1>2. CASE Next
  BY <1>2, OpenType, SessionType, NodeType DEF Next
<1> QED BY <1>1, <1>2

\* Every variable stays in its set, in every interleaving.
THEOREM TypeCorrect == Spec => []TypeOK
  BY InitType, NextType, PTL DEF Spec

----------------------------------------------------------------------------
(* One command at a time: no forks, no lost revocation *)

\* Everything a device holds, in memory, on disk or in flight, was released.
Authentic ==
    \A n \in Nodes :
        /\ mem[n] \in Doc => mem[n] \in released
        /\ disk[n] \in Doc => disk[n] \in released
        /\ persisting[n] \in Doc => persisting[n] \in released
        /\ sync[n].doc \in Doc => sync[n].doc \in released

\* At most one session is active, and what it signed is released already or
\* continues the line of released documents.
OneSigner ==
    /\ \A s, t \in Sessions : sess[s].pc # "idle" /\ sess[t].pc # "idle" => s = t
    /\ \A s \in Sessions :
         sess[s].pc # "idle" => sess[s].next \in released \/ Log!Continues(sess[s].next)

\* The released documents form one line in which revocations only grow.
Linear == NoForks /\ RevocationPermanent

OrderlyInv == TypeOK /\ Authentic /\ OneSigner /\ Linear

\* Releasing a document that continues the line, or one already released,
\* keeps it a line.
LEMMA ReleaseLemma ==
    ASSUME released \in SUBSET Doc, Linear, NEW d \in Doc,
           d \in released \/ Log!Continues(d),
           released' = released \cup {d}
    PROVE  Linear'
<1>1. \A e \in released : e.version \in Nat
  BY DEF Doc
<1>2. d.version \in Nat
  BY DEF Doc
<1>3. CASE d \in released
  BY <1>3 DEF Linear, NoForks, RevocationPermanent
<1>4. CASE Log!Continues(d)
  <2>1. PICK last \in released : Log!Newest(last) /\ Log!SignedOn(last, d)
    BY <1>4 DEF Log!Continues
  <2>2. ASSUME NEW e \in released
        PROVE  e.version < d.version /\ e.revoked \subseteq d.revoked
    <3>1. e.version <= last.version
      BY <2>1 DEF Log!Newest
    <3>2. e.revoked \subseteq last.revoked
      BY <3>1 DEF Linear, RevocationPermanent
    <3> QED BY <1>1, <1>2, <2>1, <3>1, <3>2 DEF Log!SignedOn
  <2> QED BY <1>1, <1>2, <2>2 DEF Linear, NoForks, RevocationPermanent
<1> QED BY <1>3, <1>4

\* A network that was just created has one released document, held by its
\* members, and no session.
LEMMA InitOrderly == Init => OrderlyInv
<1> SUFFICES ASSUME Init PROVE OrderlyInv
  OBVIOUS
<1>1. TypeOK
  BY InitType
<1>2. Authentic
  BY SentinelAssumption DEF Init, Authentic, IdleSync
<1>3. OneSigner
  BY DEF Init, OneSigner, IdleSession
<1>4. Linear
  BY DEF Init, Linear, NoForks, RevocationPermanent
<1> QED BY <1>1, <1>2, <1>3, <1>4 DEF OrderlyInv

\* A session opened on a current file signs a document that continues the line.
LEMMA OpenOrderly ==
    ASSUME OrderlyInv,
           NEW s \in Sessions, NEW r \in Roots, NEW kind \in Kinds, NEW c \in Certs,
           Orderly(r), SessionOpen(s, r, kind, c)
    PROVE  OrderlyInv'
<1>1. TypeOK'
  BY OpenType DEF OrderlyInv
<1>2. UNCHANGED <<mem, disk, persisting, sync, released>>
  BY DEF SessionOpen
<1>3. Authentic'
  BY <1>2 DEF OrderlyInv, Authentic
<1>4. Linear'
  BY <1>2 DEF OrderlyInv, Linear, NoForks, RevocationPermanent
<1>5. /\ disk[r] \in Doc
      /\ disk[r] \in released
      /\ disk[r].version \in Nat
      /\ \A e \in released : e.version \in Nat
  BY ConstantsAssumption DEF SessionOpen, OrderlyInv, Authentic, TypeOK, Doc
<1>6. Log!Continues(Signed(disk[r], kind, c))
  <2>1. Log!SignedOn(disk[r], Signed(disk[r], kind, c))
    BY <1>5, SignedLemma DEF Log!SignedOn
  <2>2. Log!Newest(disk[r])
    BY <1>5 DEF Orderly, Log!Newest
  <2> QED BY <1>5, <2>1, <2>2 DEF Log!Continues
<1>7. /\ sess'[s].next = Signed(disk[r], kind, c)
      /\ \A t \in Sessions \ {s} : sess'[t] = sess[t]
  BY DEF SessionOpen, OrderlyInv, TypeOK
<1>8. \A t \in Sessions \ {s} : sess'[t].pc = "idle"
  BY <1>7 DEF Orderly
<1>9. OneSigner'
  BY <1>2, <1>6, <1>7, <1>8 DEF OneSigner, Log!Continues, Log!Newest
<1> QED BY <1>1, <1>3, <1>4, <1>9 DEF OrderlyInv

\* A session's later steps release nothing but the document it signed.
LEMMA SessionOrderly ==
    ASSUME OrderlyInv, NEW s \in Sessions, SessionStep(s)
    PROVE  OrderlyInv'
<1> USE DEF OrderlyInv
<1>1. TypeOK'
  BY SessionType
<1>2. sess[s].pc # "idle"
  BY DEF SessionStep, ApprovePublish, ApproveApply, BeginWrite, FinishWrite,
         HotLoad, SessionAbort
<1>3. sess[s] \in ActiveSession
  BY <1>2, ActiveLemma DEF TypeOK
<1>4. sess[s].next \in Doc /\ sess[s].host \in Nodes
  BY <1>3, ConstantsAssumption DEF ActiveSession
<1>5. released' = released \/ released' = released \cup {sess[s].next}
  BY DEF SessionStep, ApprovePublish, ApproveApply, BeginWrite, FinishWrite,
         HotLoad, SessionAbort
<1>6. sess[s].next \in released \/ Log!Continues(sess[s].next)
  BY <1>2 DEF OneSigner
<1>7. Linear'
  <2>1. CASE released' = released
    BY <2>1 DEF Linear, NoForks, RevocationPermanent
  <2>2. CASE released' = released \cup {sess[s].next}
    BY <1>4, <1>6, <2>2, ReleaseLemma DEF TypeOK
  <2> QED BY <1>5, <2>1, <2>2
<1>8. /\ \A t \in Sessions \ {s} : sess'[t] = sess[t]
      /\ sess'[s].pc = "idle" \/ sess'[s].next = sess[s].next
  <2>1. \/ sess' = [sess EXCEPT ![s] = IdleSession]
        \/ \E pc \in {"publish", "apply", "write", "writing", "hotload"} :
             sess' = [sess EXCEPT ![s].pc = pc]
    BY DEF SessionStep, ApprovePublish, ApproveApply, BeginWrite, FinishWrite,
           HotLoad, SessionAbort
  <2>2. CASE sess' = [sess EXCEPT ![s] = IdleSession]
    BY <2>2 DEF TypeOK, IdleSession
  <2>3. ASSUME NEW pc \in {"publish", "apply", "write", "writing", "hotload"},
               sess' = [sess EXCEPT ![s].pc = pc]
        PROVE  sess'[s].next = sess[s].next /\ \A t \in Sessions \ {s} : sess'[t] = sess[t]
    BY <1>3, <2>3 DEF TypeOK, ActiveSession
  <2> QED BY <2>1, <2>2, <2>3
<1>9. OneSigner'
  <2>1. \A t \in Sessions \ {s} : sess'[t].pc = "idle"
    BY <1>2, <1>8 DEF OneSigner
  <2>2. CASE released' = released
    BY <1>6, <1>8, <2>1, <2>2 DEF OneSigner, Log!Continues, Log!Newest
  <2>3. CASE released' = released \cup {sess[s].next}
    BY <1>8, <2>1, <2>3 DEF OneSigner
  <2> QED BY <1>5, <2>2, <2>3
<1>10. Authentic'
  <2>1. UNCHANGED <<persisting, sync>> /\ released \subseteq released'
    BY DEF SessionStep, ApprovePublish, ApproveApply, BeginWrite, FinishWrite,
           HotLoad, SessionAbort
  <2>2. \A n \in Nodes : mem'[n] = mem[n] \/ mem'[n] \in released'
    BY <1>4 DEF SessionStep, ApprovePublish, ApproveApply, BeginWrite,
                FinishWrite, HotLoad, SessionAbort, TypeOK
  <2>3. \A n \in Nodes : \/ disk'[n] = disk[n]
                          \/ disk'[n] \in released'
                          \/ disk'[n] = Torn
    BY <1>4 DEF SessionStep, ApprovePublish, ApproveApply, BeginWrite,
                FinishWrite, HotLoad, SessionAbort, TypeOK
  <2> QED BY <2>1, <2>2, <2>3, SentinelAssumption DEF Authentic
<1> QED BY <1>1, <1>7, <1>9, <1>10

\* A device's steps release nothing; they only copy documents between places.
LEMMA NodeOrderly ==
    ASSUME OrderlyInv, NEW n \in Nodes, NodeStep(n)
    PROVE  OrderlyInv'
<1> USE DEF OrderlyInv
<1>1. TypeOK'
  BY NodeType
<1>2. released' = released
  BY DEF NodeStep, SyncQuery, SyncFetch, SyncDrop, ReceiveApply, PersistRename,
         PersistFail, Crash, Start, Join
<1>3. Linear'
  BY <1>2 DEF Linear, NoForks, RevocationPermanent
<1>4. \A t \in Sessions :
        /\ sess[t].pc = "idle" => sess'[t].pc = "idle"
        /\ sess'[t].pc # "idle" => sess'[t].next = sess[t].next
  <2>1. CASE PersistRename(n)
    <3> SUFFICES ASSUME NEW t \in Sessions
                 PROVE  /\ sess[t].pc = "idle" => sess'[t].pc = "idle"
                        /\ sess'[t].pc # "idle" => sess'[t].next = sess[t].next
      OBVIOUS
    <3>1. CASE sess[t].pc = "writing" /\ sess[t].host = n
      <4>1. sess[t] \in ActiveSession
        BY <3>1, ActiveLemma DEF TypeOK
      <4>2. sess'[t] = [sess[t] EXCEPT !.orphan = TRUE]
        BY <2>1, <3>1 DEF PersistRename
      <4> QED BY <3>1, <4>1, <4>2 DEF ActiveSession
    <3>2. CASE ~ (sess[t].pc = "writing" /\ sess[t].host = n)
      BY <2>1, <3>2 DEF PersistRename
    <3> QED BY <3>1, <3>2
  <2>2. CASE Crash(n)
    BY <2>2 DEF Crash, IdleSession
  <2>3. CASE UNCHANGED sess
    BY <2>3
  <2> QED BY <2>1, <2>2, <2>3 DEF NodeStep, SyncQuery, SyncFetch, SyncDrop,
             ReceiveApply, PersistFail, Start, Join
<1>5. OneSigner'
  BY <1>2, <1>4 DEF OneSigner, Log!Continues, Log!Newest
<1>6. Authentic'
  <2>1. sync[n] \in {IdleSync} \cup AskedSync \cup FetchedSync
    BY DEF TypeOK
  <2>2. sync[n].phase = "asked" => sync[n].peer \in Nodes
    BY <2>1, PullLemma DEF AskedSync
  <2>3. ASSUME NEW m \in Nodes, SyncQuery(n, m) PROVE Authentic'
    BY <2>3, SentinelAssumption DEF Authentic, SyncQuery, TypeOK
  <2>4. CASE SyncFetch(n)
    BY <2>2, <2>4, SentinelAssumption DEF Authentic, SyncFetch, IdleSync, TypeOK
  <2>5. CASE SyncDrop(n)
    BY <2>5, SentinelAssumption DEF Authentic, SyncDrop, IdleSync, TypeOK
  <2>6. CASE ReceiveApply(n)
    BY <2>6, SentinelAssumption DEF Authentic, ReceiveApply, IdleSync, TypeOK
  <2>7. CASE PersistRename(n)
    BY <2>7, SentinelAssumption DEF Authentic, PersistRename, TypeOK
  <2>8. CASE PersistFail(n)
    BY <2>8, SentinelAssumption DEF Authentic, PersistFail, TypeOK
  <2>9. CASE Crash(n)
    BY <2>9, SentinelAssumption DEF Authentic, Crash, IdleSync, TypeOK
  <2>10. CASE Start(n)
    BY <2>10 DEF Authentic, Start, TypeOK
  <2>11. ASSUME NEW m \in Nodes, Join(n, m) PROVE Authentic'
    BY <2>11 DEF Authentic, Join, TypeOK
  <2> QED BY <2>3, <2>4, <2>5, <2>6, <2>7, <2>8, <2>9, <2>10, <2>11 DEF NodeStep
<1> QED BY <1>1, <1>3, <1>5, <1>6

\* The strengthened invariant is inductive under the operator's discipline.
LEMMA NextOrderly == OrderlyInv /\ [OrderlyNext]_vars => OrderlyInv'
<1> SUFFICES ASSUME OrderlyInv, [OrderlyNext]_vars PROVE OrderlyInv'
  OBVIOUS
<1>1. CASE UNCHANGED vars
  BY <1>1 DEF vars, OrderlyInv, TypeOK, Authentic, OneSigner, Log!Continues, Log!Newest, Linear,
              NoForks, RevocationPermanent
<1>2. CASE OrderlyNext
  BY <1>2, OpenOrderly, SessionOrderly, NodeOrderly DEF OrderlyNext
<1> QED BY <1>1, <1>2

\* The strengthened invariant holds in every behaviour of that kind.
LEMMA OrderlyInvariant == OrderlySpec => []OrderlyInv
  BY InitOrderly, NextOrderly, PTL DEF OrderlySpec

\* A version number names one document, however many devices hold the root key
\* and however their daemons and commands crash and interleave, provided each
\* command starts on a current file.
THEOREM NoForksHolds == OrderlySpec => []NoForks
<1>1. OrderlyInv => NoForks
  BY DEF OrderlyInv, Linear
<1> QED BY <1>1, OrderlyInvariant, PTL

\* Under the same provision no document signed later drops a revocation.
THEOREM RevocationPermanentHolds == OrderlySpec => []RevocationPermanent
<1>1. OrderlyInv => RevocationPermanent
  BY DEF OrderlyInv, Linear
<1> QED BY <1>1, OrderlyInvariant, PTL

\* A running daemon replaces its state only by a newer one.
LEMMA MemoryAdvances ==
    ASSUME TypeOK, [Next]_vars, NEW n \in Nodes, Up(n), Up(n)'
    PROVE  mem[n].version <= mem'[n].version
<1>1. /\ mem[n] \in Doc
      /\ mem'[n] \in Doc
      /\ mem[n].version \in Nat
      /\ mem'[n].version \in Nat
  BY NextType DEF TypeOK, Up, Doc
<1>2. mem'[n] = mem[n] \/ Newer(mem'[n], mem[n])
  <2>1. ASSUME NEW s \in Sessions, SessionStep(s)
        PROVE  mem'[n] = mem[n] \/ Newer(mem'[n], mem[n])
    BY <2>1 DEF SessionStep, ApprovePublish, ApproveApply, BeginWrite,
                FinishWrite, HotLoad, SessionAbort, TypeOK
  <2>2. ASSUME NEW m \in Nodes, NodeStep(m)
        PROVE  mem'[n] = mem[n] \/ Newer(mem'[n], mem[n])
    BY <2>2 DEF NodeStep, SyncQuery, SyncFetch, SyncDrop, ReceiveApply,
                PersistRename, PersistFail, Crash, Start, Join, Up, TypeOK
  <2>3. ASSUME NEW s \in Sessions, NEW r \in Roots, NEW kind \in Kinds,
               NEW c \in Certs, SessionOpen(s, r, kind, c)
        PROVE  mem'[n] = mem[n]
    BY <2>3 DEF SessionOpen
  <2>4. CASE UNCHANGED vars
    BY <2>4 DEF vars
  <2> QED BY <2>1, <2>2, <2>3, <2>4 DEF Next
<1> QED BY <1>1, <1>2 DEF Newer

\* A running daemon never forgets a revocation.
THEOREM RevocationSticksHolds == OrderlySpec => RevocationSticks
<1>1. ASSUME OrderlyInv, OrderlyInv', [OrderlyNext]_vars,
             NEW n \in Nodes, Up(n), Up(n)'
      PROVE  mem[n].revoked \subseteq mem'[n].revoked
  <2>1. [Next]_vars
    BY <1>1 DEF OrderlyNext, Next
  <2>2. mem[n].version <= mem'[n].version
    BY <1>1, <2>1, MemoryAdvances DEF OrderlyInv
  <2>3. mem[n] \in released /\ mem'[n] \in released'
    BY <1>1 DEF OrderlyInv, Authentic, TypeOK, Up
  <2>4. released \subseteq released'
    BY <2>1 DEF Next, SessionOpen, SessionStep, ApprovePublish, ApproveApply,
                BeginWrite, FinishWrite, HotLoad, SessionAbort, NodeStep,
                SyncQuery, SyncFetch, SyncDrop, ReceiveApply, PersistRename,
                PersistFail, Crash, Start, Join, vars
  <2> QED BY <1>1, <2>2, <2>3, <2>4 DEF OrderlyInv, Linear, RevocationPermanent
<1>2. OrderlyInv /\ OrderlyInv' /\ [OrderlyNext]_vars =>
        [\A n \in Nodes : Up(n) /\ Up(n)' => mem[n].revoked \subseteq mem'[n].revoked]_vars
  BY <1>1
<1> QED BY <1>2, OrderlyInvariant, PTL DEF OrderlySpec, RevocationSticks

\* A step of a session publishes at most the document it signed, and a daemon
\* takes it only as a newer one.
LEMMA SessionImplements ==
    ASSUME OrderlyInv, NEW s \in Sessions, SessionStep(s)
    PROVE  [Log!Next]_<<released, mem>>
<1> DEFINE r == sess[s].host
           d == sess[s].next
<1>1. sess[s].pc # "idle"
  BY DEF SessionStep, ApprovePublish, ApproveApply, BeginWrite, FinishWrite,
         HotLoad, SessionAbort
<1>2. sess[s] \in ActiveSession
  BY <1>1, ActiveLemma DEF OrderlyInv, TypeOK
<1>3. d \in Doc /\ r \in Nodes
  BY <1>2, ConstantsAssumption DEF ActiveSession
<1>4. d \in released \/ Log!Continues(d)
  BY <1>1 DEF OrderlyInv, OneSigner
<1>5. released' = released \/ released' = released \cup {d}
  BY DEF SessionStep, ApprovePublish, ApproveApply, BeginWrite, FinishWrite,
         HotLoad, SessionAbort
<1>6. \/ mem' = mem
      \/ /\ mem' = [mem EXCEPT ![r] = d] /\ Newer(d, mem[r])
         /\ released' = released \cup {d}
  BY DEF SessionStep, ApprovePublish, ApproveApply, BeginWrite, FinishWrite,
         HotLoad, SessionAbort
<1>7. mem[r] = NoDoc \/ (mem[r] \in Doc /\ mem[r].version \in Nat)
  BY <1>3 DEF OrderlyInv, TypeOK, Doc
<1>8. d.version \in Nat
  BY <1>3 DEF Doc
<1> HIDE DEF r, d
<1>9. CASE mem' = mem /\ released' = released
  BY <1>9
<1>10. CASE mem' = mem /\ released' = released \cup {d}
  <2>1. CASE d \in released
    BY <1>10, <2>1
  <2>2. CASE Log!Continues(d)
    BY <1>10, <2>2 DEF Log!Next, Log!Publish
  <2> QED BY <1>4, <2>1, <2>2
<1>11. CASE /\ mem' = [mem EXCEPT ![r] = d] /\ Newer(d, mem[r])
            /\ released' = released \cup {d}
  <2>1. Log!Advance(r, d)
    BY <1>7, <1>8, <1>11 DEF Log!Advance, Newer
  <2>2. CASE d \in released
    <3>1. released' = released
      BY <1>11, <2>2
    <3> QED BY <1>3, <2>1, <2>2, <3>1 DEF Log!Next
  <2>3. CASE Log!Continues(d)
    BY <1>3, <1>11, <2>1, <2>3 DEF Log!Next, Log!Publish
  <2> QED BY <1>4, <2>2, <2>3
<1> QED BY <1>5, <1>6, <1>9, <1>10, <1>11

\* A step of a device publishes nothing; its daemon takes a newer document of
\* the line, starts with one, or stops.
LEMMA NodeImplements ==
    ASSUME OrderlyInv, NEW n \in Nodes, NodeStep(n)
    PROVE  [Log!Next]_<<released, mem>>
<1>1. released' = released
  BY DEF NodeStep, SyncQuery, SyncFetch, SyncDrop, ReceiveApply, PersistRename,
         PersistFail, Crash, Start, Join
<1>2. mem[n] = NoDoc \/ (mem[n] \in Doc /\ mem[n].version \in Nat)
  BY DEF OrderlyInv, TypeOK, Doc
<1>3. CASE ReceiveApply(n)
  <2> DEFINE d == sync[n].doc
  <2>1. sync[n] \in FetchedSync
    BY <1>3, PullLemma DEF ReceiveApply, OrderlyInv, TypeOK
  <2>2. d \in Doc /\ d.version \in Nat /\ d \in released
    BY <2>1 DEF FetchedSync, OrderlyInv, Authentic, Doc
  <2>3. mem' = mem \/ (mem' = [mem EXCEPT ![n] = d] /\ Newer(d, mem[n]))
    BY <1>3 DEF ReceiveApply
  <2> HIDE DEF d
  <2>4. CASE mem' = [mem EXCEPT ![n] = d] /\ Newer(d, mem[n])
    <3>1. Log!Advance(n, d)
      BY <1>2, <2>2, <2>4 DEF Log!Advance, Newer
    <3> QED BY <1>1, <2>2, <3>1 DEF Log!Next
  <2> QED BY <1>1, <2>3, <2>4
<1>4. CASE Crash(n)
  BY <1>1, <1>4 DEF Crash, Log!Next, Log!Stop
<1>5. CASE Start(n)
  <2>1. disk[n] \in released
    BY <1>5 DEF Start, OrderlyInv, Authentic
  <2>2. Log!Advance(n, disk[n])
    BY <1>5 DEF Start, Up, Log!Advance
  <2> QED BY <1>1, <2>1, <2>2 DEF Log!Next
<1>6. CASE mem' = mem
  BY <1>1, <1>6
<1> QED BY <1>3, <1>4, <1>5, <1>6 DEF NodeStep, SyncQuery, SyncFetch, SyncDrop,
           PersistRename, PersistFail, Join

\* With one command at a time on a current file, the pools of all devices
\* implement one line of documents: whatever a daemon pulls, is pushed, approves
\* or restarts with, it holds a document of the line, and it goes back along the
\* line only by stopping.
THEOREM ImplementsLogHolds == OrderlySpec => ImplementsLog
<1>1. Init => Log!Init
  BY DEF Init, Log!Init
<1>2. OrderlyInv /\ [OrderlyNext]_vars => [Log!Next]_<<released, mem>>
  <2> SUFFICES ASSUME OrderlyInv, [OrderlyNext]_vars PROVE [Log!Next]_<<released, mem>>
    OBVIOUS
  <2>1. CASE UNCHANGED vars
    BY <2>1 DEF vars
  <2>2. ASSUME NEW s \in Sessions, NEW r \in Roots, NEW kind \in Kinds,
               NEW c \in Certs, SessionOpen(s, r, kind, c)
        PROVE  UNCHANGED <<released, mem>>
    BY <2>2 DEF SessionOpen
  <2> QED BY <2>1, <2>2, SessionImplements, NodeImplements DEF OrderlyNext
<1> QED BY <1>1, <1>2, OrderlyInvariant, PTL DEF OrderlySpec, ImplementsLog, Log!Spec

----------------------------------------------------------------------------
(* What a device without the root key shows is on its disk *)

\* While a persist is outstanding, what will be renamed is what is in memory.
DurableInv ==
    /\ TypeOK
    /\ ViewDurable
    /\ \A n \in Nodes \ Roots : ~ Unlocked(n) => persisting[n] = mem[n]

\* What is being persisted stays what is in memory, so that the rename makes
\* file and pool agree.
LEMMA NextDurable == DurableInv /\ [Next]_vars => DurableInv'
<1> SUFFICES ASSUME DurableInv, [Next]_vars PROVE DurableInv'
  OBVIOUS
<1>1. TypeOK'
  BY NextType DEF DurableInv
<1> SUFFICES ASSUME NEW n \in Nodes \ Roots
             PROVE  /\ Up(n)' /\ Unlocked(n)' /\ ~ ioFailed'[n] => disk'[n] = mem'[n]
                    /\ ~ Unlocked(n)' => persisting'[n] = mem'[n]
  BY <1>1 DEF DurableInv, ViewDurable
<1>2. /\ Up(n) /\ Unlocked(n) /\ ~ ioFailed[n] => disk[n] = mem[n]
      /\ ~ Unlocked(n) => persisting[n] = mem[n]
  BY DEF DurableInv, ViewDurable
<1>3. ASSUME NEW s \in Sessions, SessionStep(s)
      PROVE  UNCHANGED <<persisting, ioFailed>> /\ mem'[n] = mem[n] /\ disk'[n] = disk[n]
  <2>1. sess[s].pc # "idle"
    BY <1>3 DEF SessionStep, ApprovePublish, ApproveApply, BeginWrite,
                FinishWrite, HotLoad, SessionAbort
  <2>2. sess[s] \in ActiveSession
    BY <2>1, ActiveLemma DEF DurableInv, TypeOK
  <2>3. sess[s].host # n
    BY <2>2 DEF ActiveSession
  <2> QED BY <1>3, <2>3 DEF SessionStep, ApprovePublish, ApproveApply,
             BeginWrite, FinishWrite, HotLoad, SessionAbort, DurableInv, TypeOK
<1>4. ASSUME NEW m \in Nodes, NodeStep(m)
      PROVE  /\ Up(n)' /\ Unlocked(n)' /\ ~ ioFailed'[n] => disk'[n] = mem'[n]
             /\ ~ Unlocked(n)' => persisting'[n] = mem'[n]
  <2>1. CASE ReceiveApply(m)
    <3>1. sync[m].doc \in Doc
      BY <2>1, PullLemma DEF ReceiveApply, DurableInv, TypeOK, FetchedSync
    <3> QED BY <1>2, <2>1, <3>1, SentinelAssumption
            DEF ReceiveApply, Up, Unlocked, DurableInv, TypeOK
  <2>2. CASE PersistRename(m)
    BY <1>2, <2>2 DEF PersistRename, Up, Unlocked, DurableInv, TypeOK
  <2>3. CASE PersistFail(m)
    BY <1>2, <2>3 DEF PersistFail, Up, Unlocked, DurableInv, TypeOK
  <2>4. CASE Crash(m)
    BY <1>2, <2>4 DEF Crash, Up, Unlocked, DurableInv, TypeOK
  <2>5. CASE Start(m)
    <3>1. CASE m = n
      BY <1>2, <2>5, <3>1, SentinelAssumption DEF Start, Up, Unlocked, DurableInv, TypeOK
    <3>2. CASE m # n
      BY <1>2, <2>5, <3>2 DEF Start, Up, Unlocked, DurableInv, TypeOK
    <3> QED BY <3>1, <3>2
  <2>6. ASSUME NEW k \in Nodes, Join(m, k)
        PROVE  /\ Up(n)' /\ Unlocked(n)' /\ ~ ioFailed'[n] => disk'[n] = mem'[n]
               /\ ~ Unlocked(n)' => persisting'[n] = mem'[n]
    BY <1>2, <2>6 DEF Join, Up, Unlocked, DurableInv, TypeOK
  <2>7. CASE UNCHANGED <<mem, disk, persisting, ioFailed>>
    BY <1>2, <2>7 DEF Up, Unlocked
  <2> QED BY <1>4, <2>1, <2>2, <2>3, <2>4, <2>5, <2>6, <2>7
          DEF NodeStep, SyncQuery, SyncFetch, SyncDrop
<1>5. CASE UNCHANGED <<mem, disk, persisting, ioFailed>>
  BY <1>2, <1>5 DEF Up, Unlocked
<1>6. CASE UNCHANGED vars
  BY <1>5, <1>6 DEF vars
<1> QED
  BY <1>2, <1>3, <1>4, <1>5, <1>6 DEF Next, SessionOpen, Up, Unlocked

\* A state visible in the pool of a device without the root key is on its disk
\* unless the write failed, whatever else happens.
THEOREM ViewDurableHolds == Spec => []ViewDurable
<1>1. Init => DurableInv
  BY InitType DEF Init, DurableInv, ViewDurable, Unlocked
<1>2. DurableInv => ViewDurable
  BY DEF DurableInv
<1> QED BY <1>1, <1>2, NextDurable, PTL DEF Spec

----------------------------------------------------------------------------
(* PeerAdmission: for any number of peers, certificates, connections and   *)
(* refreshes that run at once.                                             *)

CONSTANTS Peers, Conns, Tasks, NoIdentity, NoPeer
VARIABLES revoked, disabled, grant, conn, identity, task

A == INSTANCE PeerAdmission

\* The progress of a connection and of a refresh.
Conn == {A!NoConn} \cup A!Admission

Task == [pc : {"idle", "enforce", "forget", "close"},
         todo : SUBSET (Peers \X Certs), closing : Peers \cup {NoPeer}]

\* The progress of an admission tells which fields the connection has.
LEMMA Progress ==
    ASSUME NEW x \in Conn
    PROVE  /\ x.pc # "none" <=> x \in A!Admission
           /\ x.pc # "none" => x.peer \in Peers /\ x.cert \in Certs
           /\ x.pc \in {"computed", "remembered", "live"} => x.relay \in BOOLEAN
           /\ x.pc = "verified" =>
                x = [pc |-> "verified", peer |-> x.peer, cert |-> x.cert]
           /\ x.pc \in {"computed", "remembered", "live"} =>
                x = [pc |-> x.pc, peer |-> x.peer, cert |-> x.cert, relay |-> x.relay]
  BY DEF Conn, A!NoConn, A!Admission

\* A remembered identity is one.
LEMMA Remembered ==
    ASSUME A!TypeOK, NEW p \in Peers, identity[p] # NoIdentity
    PROVE  identity[p] \in A!Identity /\ identity[p].cert \in Certs /\ identity[p].relay \in BOOLEAN
  BY DEF A!TypeOK, A!Identity

\* The initial states are well typed.
LEMMA AdmissionInitType == A!Init => A!TypeOK
  BY DEF A!Init, A!TypeOK, A!NoTask

\* Every step of an admission keeps the types.
LEMMA AdmissionType ==
    ASSUME A!TypeOK, NEW k \in Conns,
           \/ \E p \in Peers, c \in Certs : A!Verify(k, p, c)
           \/ A!ComputeCaps(k) \/ A!Remember(k) \/ A!AddConn(k) \/ A!LoseConn(k)
    PROVE  A!TypeOK'
<1>0. conn \in [Conns -> Conn] /\ conn[k] \in Conn
  BY DEF A!TypeOK, Conn
<1>1. ASSUME NEW x \in Conn, conn' = [conn EXCEPT ![k] = x]
      PROVE  conn' \in [Conns -> {A!NoConn} \cup A!Admission]
  BY <1>0, <1>1 DEF Conn
<1>2. ASSUME NEW p \in Peers, NEW c \in Certs, A!Verify(k, p, c) PROVE A!TypeOK'
  <2>1. [pc |-> "verified", peer |-> p, cert |-> c] \in Conn
    BY DEF Conn, A!Admission
  <2> QED BY <1>1, <1>2, <2>1 DEF A!Verify, A!TypeOK
<1>3. CASE A!ComputeCaps(k)
  <2>1. conn[k].peer \in Peers /\ conn[k].cert \in Certs
    BY <1>0, <1>3, Progress DEF A!ComputeCaps
  <2>2. grant[conn[k].cert] \in BOOLEAN
    BY <2>1, Zenon DEF A!TypeOK
  <2>3. [pc |-> "computed", peer |-> conn[k].peer, cert |-> conn[k].cert,
         relay |-> grant[conn[k].cert]] \in Conn
    BY <2>1, <2>2 DEF Conn, A!Admission
  <2> QED BY <1>1, <1>3, <2>3 DEF A!ComputeCaps, A!TypeOK
<1>4. ASSUME NEW pc \in {"computed", "remembered", "live"},
             conn[k].pc \in {"computed", "remembered", "live"},
             conn' = [conn EXCEPT ![k].pc = pc]
      PROVE  conn' \in [Conns -> {A!NoConn} \cup A!Admission]
  <2>1. /\ conn[k].peer \in Peers /\ conn[k].cert \in Certs /\ conn[k].relay \in BOOLEAN
        /\ conn[k] = [pc |-> conn[k].pc, peer |-> conn[k].peer, cert |-> conn[k].cert,
                      relay |-> conn[k].relay]
    BY <1>0, <1>4, Progress
  <2>2. [conn[k] EXCEPT !.pc = pc] =
          [pc |-> pc, peer |-> conn[k].peer, cert |-> conn[k].cert, relay |-> conn[k].relay]
    BY <2>1
  <2>3. [conn[k] EXCEPT !.pc = pc] \in Conn
    BY <2>1, <2>2 DEF Conn, A!Admission
  <2> QED BY <1>1, <1>4, <2>3
<1>5. CASE A!Remember(k)
  <2>1. conn' \in [Conns -> {A!NoConn} \cup A!Admission]
    BY <1>4, <1>5 DEF A!Remember
  <2>2. [cert |-> conn[k].cert, relay |-> conn[k].relay] \in A!Identity
    BY <1>0, <1>5, Progress DEF A!Remember, A!Identity
  <2>3. identity' \in [Peers -> {NoIdentity} \cup A!Identity]
    BY <1>5, <2>2 DEF A!Remember, A!TypeOK
  <2> QED BY <1>5, <2>1, <2>3 DEF A!Remember, A!TypeOK
<1>6. CASE A!AddConn(k)
  <2>1. conn' \in [Conns -> {A!NoConn} \cup A!Admission]
    BY <1>4, <1>6 DEF A!AddConn
  <2> QED BY <1>6, <2>1 DEF A!AddConn, A!TypeOK
<1>7. CASE A!LoseConn(k)
  BY <1>1, <1>7 DEF A!LoseConn, A!TypeOK, Conn
<1> QED BY <1>2, <1>3, <1>5, <1>6, <1>7

\* Every step of a refresh keeps the types.
LEMMA TaskType ==
    ASSUME A!TypeOK, NEW t \in Tasks, A!TaskStep(t)
    PROVE  A!TypeOK'
<1>0. task \in [Tasks -> Task] /\ task[t] \in Task
  BY DEF A!TypeOK, Task
<1>1. ASSUME NEW x \in Task, task' = [task EXCEPT ![t] = x] PROVE task' \in [Tasks -> Task]
  BY <1>0, <1>1
<1>2. CASE A!Snapshot(t)
  <2>1. {<<p, identity[p].cert>> : p \in {q \in Peers : identity[q] # NoIdentity}}
          \in SUBSET (Peers \X Certs)
    BY Remembered
  <2>2. task' \in [Tasks -> Task]
    BY <1>1, <1>2, <2>1 DEF A!Snapshot, Task
  <2> QED BY <1>2, <2>2 DEF A!Snapshot, A!TypeOK, Task
<1>3. CASE A!Keep(t)
  <2>1. task' \in [Tasks -> Task]
    BY <1>0, <1>3 DEF A!Keep, Task
  <2> QED BY <1>3, <2>1 DEF A!Keep, A!TypeOK, Task
<1>4. CASE A!Condemn(t)
  <2>1. task' \in [Tasks -> Task]
    BY <1>0, <1>4 DEF A!Condemn, Task
  <2> QED BY <1>4, <2>1 DEF A!Condemn, A!TypeOK, Task
<1>5. CASE A!Forget(t)
  <2>1. task' \in [Tasks -> Task]
    BY <1>0, <1>5 DEF A!Forget, Task
  <2> QED BY <1>5, <2>1 DEF A!Forget, A!TypeOK, Task
<1>6. CASE A!ClosePeer(t)
  <2>1. task' \in [Tasks -> Task]
    BY <1>0, <1>6 DEF A!ClosePeer, Task
  <2>2. conn' \in [Conns -> {A!NoConn} \cup A!Admission]
    BY <1>6 DEF A!ClosePeer, A!TypeOK
  <2> QED BY <1>6, <2>1, <2>2 DEF A!ClosePeer, A!TypeOK, Task
<1>7. CASE A!RefreshCaps(t)
  <2>1. task' \in [Tasks -> Task]
    BY <1>0, <1>7 DEF A!RefreshCaps, A!NoTask, Task
  <2>2. ASSUME NEW p \in Peers, identity[p] # NoIdentity
        PROVE  [identity[p] EXCEPT !.relay = grant[identity[p].cert]] \in A!Identity
    <3>1. identity[p] \in A!Identity /\ grant[identity[p].cert] \in BOOLEAN
      BY <2>2, Remembered DEF A!TypeOK
    <3> QED BY <3>1 DEF A!Identity
  <2>3. identity' \in [Peers -> {NoIdentity} \cup A!Identity]
    BY <1>7, <2>2 DEF A!RefreshCaps
  <2> QED BY <1>7, <2>1, <2>3 DEF A!RefreshCaps, A!TypeOK, Task
<1> QED BY <1>2, <1>3, <1>4, <1>5, <1>6, <1>7 DEF A!TaskStep

\* Every step keeps the types.
LEMMA AdmissionStepType == ASSUME A!TypeOK, [A!Next]_A!vars PROVE A!TypeOK'
<1>1. ASSUME NEW c \in Certs, A!ApplyState(c) PROVE A!TypeOK'
  <2>1. grant' \in [Certs -> BOOLEAN]
    BY <1>1, Zenon DEF A!ApplyState, A!TypeOK
  <2> QED BY <1>1, <2>1 DEF A!ApplyState, A!TypeOK
<1>2. CASE UNCHANGED A!vars
  BY <1>2 DEF A!vars, A!TypeOK
<1> QED BY <1>1, <1>2, AdmissionType, TaskType DEF A!Next

\* Every variable stays in its set, however admissions, refreshes and new states
\* interleave.
THEOREM AdmissionTypeCorrect == A!Spec => []A!TypeOK
<1>1. A!TypeOK /\ [A!Next]_A!vars => A!TypeOK'
  BY AdmissionStepType
<1> QED BY <1>1, AdmissionInitType, PTL DEF A!Spec

----------------------------------------------------------------------------
(* What a whole refresh achieves.  Other refreshes, admissions and new states  *)
(* run between its steps, so the claim speaks of two moments; a history        *)
(* variable, which restricts no step, carries the first to the second.         *)

VARIABLE due    \* due[t]: the connections refresh t still has to close

\* The connection is in use under a revoked certificate, and the peer is
\* remembered under that certificate.
Doomed(k) ==
    /\ conn[k].pc = "live"
    /\ conn[k].cert \in revoked
    /\ identity[conn[k].peer] # NoIdentity
    /\ identity[conn[k].peer].cert = conn[k].cert

\* A refresh owes the connections that are doomed when it starts, each until it
\* is closed or lost.
Owe ==
    due' = [t \in Tasks |->
              IF task[t].pc = "idle" /\ task'[t].pc # "idle"
                THEN {k \in Conns : Doomed(k)}
                ELSE {k \in due[t] : conn'[k] = conn[k]}]

OwingSpec ==
    /\ A!Init /\ due = [t \in Tasks |-> {}]
    /\ [][A!Next /\ Owe]_<<A!vars, due>>

\* A refresh that is over owes nothing: whatever else ran in between, every
\* connection that was in use under the revoked certificate of a remembered peer
\* when the refresh began has been closed (enforce_current_trust_state).
RefreshCloses == \A t \in Tasks : task[t].pc = "idle" => due[t] = {}

\* The connection k is still on the list of refresh t, or its peer is the one
\* being closed.
Listed(t, k) ==
    /\ task[t].pc # "idle"
    /\ \/ <<conn[k].peer, conn[k].cert>> \in task[t].todo
       \/ task[t].pc \in {"forget", "close"} /\ task[t].closing = conn[k].peer

\* The inductive invariant: what is owed is in use, still revoked, and listed.
OweInv ==
    /\ A!TypeOK
    /\ due \in [Tasks -> SUBSET Conns]
    /\ \A t \in Tasks : \A k \in due[t] :
         conn[k].pc = "live" /\ conn[k].cert \in revoked /\ Listed(t, k)

\* Nothing is owed at the start.
LEMMA InitOwes == A!Init /\ due = [t \in Tasks |-> {}] => OweInv
  BY AdmissionInitType DEF OweInv

\* What a refresh owes after a step is doomed and the refresh begins, or it owed
\* it before and the connection is as it was.
LEMMA OwedBefore ==
    ASSUME OweInv, Owe, NEW t \in Tasks, NEW k \in due'[t]
    PROVE  /\ k \in Conns
           /\ \/ task[t].pc = "idle" /\ task'[t].pc # "idle" /\ Doomed(k)
              \/ k \in due[t] /\ conn'[k] = conn[k]
  BY DEF OweInv, Owe

\* A step of a refresh leaves the other refreshes alone.
LEMMA OthersStay ==
    ASSUME A!TypeOK, NEW t \in Tasks, A!TaskStep(t), NEW u \in Tasks, u # t
    PROVE  task'[u] = task[u]
  BY DEF A!TypeOK, A!TaskStep, A!Snapshot, A!Keep, A!Condemn, A!Forget, A!ClosePeer, A!RefreshCaps

\* A step of a refresh that owes a connection before and after keeps it listed.
LEMMA StaysListed ==
    ASSUME OweInv, NEW t \in Tasks, A!TaskStep(t),
           NEW k \in due[t], k \in Conns, conn'[k] = conn[k]
    PROVE  Listed(t, k)'
<1> DEFINE p == conn[k].peer
           c == conn[k].cert
<1>1. /\ conn[k].pc = "live" /\ c \in revoked /\ task[t].pc # "idle"
      /\ \/ <<p, c>> \in task[t].todo
         \/ task[t].pc \in {"forget", "close"} /\ task[t].closing = p
  BY DEF OweInv, Listed
<1>2. task \in [Tasks -> Task] /\ task[t] \in Task /\ conn[k] # A!NoConn
  BY <1>1 DEF OweInv, A!TypeOK, Task, A!NoConn
<1>3. SUFFICES /\ task'[t].pc # "idle"
               /\ \/ <<p, c>> \in task'[t].todo
                  \/ task'[t].pc \in {"forget", "close"} /\ task'[t].closing = p
  BY DEF Listed
<1>4. CASE A!Snapshot(t)
  BY <1>1, <1>4 DEF A!Snapshot
<1>5. CASE A!Keep(t)
  <2>1. PICK x \in task[t].todo :
          A!Allowed(x[2]) /\ task' = [task EXCEPT ![t].todo = @ \ {x}]
    BY <1>5 DEF A!Keep
  <2>2. x # <<p, c>>
    BY <1>1, <2>1 DEF A!Allowed
  <2>3. task'[t].pc = task[t].pc /\ task'[t].todo = task[t].todo \ {x}
    BY <1>2, <2>1 DEF Task
  <2> QED BY <1>1, <1>5, <2>2, <2>3 DEF A!Keep
<1>6. CASE A!Condemn(t)
  <2>1. PICK x \in task[t].todo :
          task' = [task EXCEPT ![t] =
                     [pc |-> "forget", todo |-> @.todo \ {x}, closing |-> x[1]]]
    BY <1>6 DEF A!Condemn
  <2>2. /\ task'[t].pc = "forget" /\ task'[t].todo = task[t].todo \ {x}
        /\ task'[t].closing = x[1]
    BY <1>2, <2>1
  <2>3. <<p, c>> \in task[t].todo
    BY <1>1, <1>6 DEF A!Condemn
  <2>4. CASE x = <<p, c>>
    BY <2>2, <2>4
  <2> QED BY <2>2, <2>3, <2>4
<1>7. CASE A!Forget(t)
  <2>1. /\ task'[t].pc = "close" /\ task'[t].todo = task[t].todo
        /\ task'[t].closing = task[t].closing
    BY <1>2, <1>7 DEF A!Forget, Task
  <2> QED BY <1>1, <2>1
<1>8. CASE A!ClosePeer(t)
  <2>1. task'[t].pc = "enforce" /\ task'[t].todo = task[t].todo
    BY <1>2, <1>8 DEF A!ClosePeer, Task
  <2>2. task[t].closing # p
    BY <1>1, <1>2, <1>8 DEF A!ClosePeer
  <2> QED BY <1>1, <2>1, <2>2
<1>9. CASE A!RefreshCaps(t)
  BY <1>1, <1>9 DEF A!RefreshCaps
<1> QED BY <1>4, <1>5, <1>6, <1>7, <1>8, <1>9 DEF A!TaskStep

\* A refresh that begins lists every doomed connection.
LEMMA BeginsListed ==
    ASSUME A!TypeOK, NEW t \in Tasks, A!Snapshot(t), NEW k \in Conns, Doomed(k)
    PROVE  Listed(t, k)'
<1>1. conn[k].peer \in Peers
  <2>1. conn[k] \in Conn /\ conn[k].pc # "none"
    BY DEF A!TypeOK, Conn, Doomed
  <2> QED BY <2>1, Progress
<1>2. task'[t] = [pc |-> "enforce", closing |-> NoPeer,
                  todo |-> {<<p, identity[p].cert>> :
                              p \in {q \in Peers : identity[q] # NoIdentity}}]
  BY DEF A!Snapshot, A!TypeOK
<1>3. <<conn[k].peer, conn[k].cert>> \in task'[t].todo
  BY <1>1, <1>2 DEF Doomed
<1>4. conn' = conn
  BY DEF A!Snapshot
<1> QED BY <1>2, <1>3, <1>4 DEF Listed

\* Only a step of its own changes a refresh.
LEMMA OwnStep ==
    ASSUME A!TypeOK, A!Next, NEW t \in Tasks, ~ A!TaskStep(t)
    PROVE  task'[t] = task[t]
<1>1. CASE \E u \in Tasks : A!TaskStep(u)
  BY <1>1, OthersStay
<1>2. CASE ~ \E u \in Tasks : A!TaskStep(u)
  BY <1>2 DEF A!Next, A!ApplyState, A!Verify, A!ComputeCaps, A!Remember, A!AddConn, A!LoseConn
<1> QED BY <1>1, <1>2

\* A revocation is never taken back.
LEMMA RevokedStays == ASSUME A!Next PROVE revoked \subseteq revoked'
  BY DEF A!Next, A!ApplyState, A!Verify, A!ComputeCaps, A!Remember, A!AddConn, A!LoseConn, A!TaskStep,
         A!Snapshot, A!Keep, A!Condemn, A!Forget, A!ClosePeer, A!RefreshCaps

\* A refresh leaves "idle" by Snapshot alone, which changes no connection.
LEMMA Begins ==
    ASSUME A!TypeOK, NEW t \in Tasks, A!TaskStep(t), task[t].pc = "idle"
    PROVE  A!Snapshot(t) /\ conn' = conn
  BY DEF A!TaskStep, A!Snapshot, A!Keep, A!Condemn, A!Forget, A!ClosePeer, A!RefreshCaps

\* Every step keeps the invariant.
LEMMA StepOwes == ASSUME OweInv, [A!Next /\ Owe]_<<A!vars, due>> PROVE OweInv'
<1>1. CASE UNCHANGED <<A!vars, due>>
  BY <1>1 DEF OweInv, A!TypeOK, Listed, A!vars
<1>2. CASE A!Next /\ Owe
  <2>1. A!TypeOK /\ A!TypeOK'
    BY <1>2, AdmissionStepType DEF OweInv
  <2>2. due' \in [Tasks -> SUBSET Conns]
    BY <1>2 DEF Owe, OweInv
  <2>3. ASSUME NEW t \in Tasks, NEW k \in due'[t]
        PROVE  conn'[k].pc = "live" /\ conn'[k].cert \in revoked' /\ Listed(t, k)'
    <3>1. CASE task[t].pc = "idle" /\ task'[t].pc # "idle" /\ k \in Conns /\ Doomed(k)
      <4>1. A!TaskStep(t)
        BY <1>2, <2>1, <3>1, OwnStep
      <4>2. A!Snapshot(t) /\ conn' = conn
        BY <2>1, <3>1, <4>1, Begins
      <4> QED BY <1>2, <2>1, <3>1, <4>2, BeginsListed, RevokedStays DEF Doomed
    <3>2. CASE k \in Conns /\ k \in due[t] /\ conn'[k] = conn[k]
      <4>1. conn[k].pc = "live" /\ conn[k].cert \in revoked /\ Listed(t, k)
        BY <3>2 DEF OweInv
      <4>2. CASE A!TaskStep(t)
        BY <1>2, <3>2, <4>1, <4>2, StaysListed, RevokedStays
      <4>3. CASE ~ A!TaskStep(t)
        <5>1. task'[t] = task[t]
          BY <1>2, <2>1, <4>3, OwnStep
        <5>2. Listed(t, k)'
          BY <3>2, <4>1, <5>1 DEF Listed
        <5> QED BY <1>2, <3>2, <4>1, <5>2, RevokedStays
      <4> QED BY <4>2, <4>3
    <3> QED BY <1>2, <2>3, <3>1, <3>2, OwedBefore
  <2> QED BY <2>1, <2>2, <2>3 DEF OweInv
<1> QED BY <1>1, <1>2

\* When enforce_current_trust_state has run to its end, every connection that was
\* in use under a revoked certificate of a remembered peer when it began is
\* closed, for any number of connections, of refreshes at once and of states
\* applied meanwhile.
THEOREM RefreshClosesHolds == OwingSpec => []RefreshCloses
<1>1. OweInv /\ [A!Next /\ Owe]_<<A!vars, due>> => OweInv'
  BY StepOwes
<1>2. OweInv => RefreshCloses
  BY DEF OweInv, RefreshCloses, Listed
<1> QED BY <1>1, <1>2, InitOwes, PTL DEF OwingSpec
=============================================================================
