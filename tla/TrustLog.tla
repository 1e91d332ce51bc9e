------------------------------ MODULE TrustLog ------------------------------
(***************************************************************************)
(* What the signed configuration of a network promises: its documents form *)
(* one line, each signed on top of the newest one before it, and a daemon  *)
(* holds a document of that line and only moves forward along it while it  *)
(* runs.  A daemon that starts again may start further back.               *)
(***************************************************************************)
EXTENDS Naturals

CONSTANTS
    Nodes,
    Genesis, \* the first document
    NoDoc    \* what a daemon that does not run holds

VARIABLES
    log,  \* the documents that exist
    view  \* view[n]: the document daemon n acts on

Init ==
    /\ log = {Genesis}
    /\ view \in [Nodes -> {Genesis, NoDoc}]

Newest(d) == d \in log /\ \A e \in log : e.version <= d.version

\* The document e is signed on top of d: it is the next version, and neither a
\* member nor a revocation is lost.
SignedOn(d, e) ==
    /\ e.version = d.version + 1
    /\ d.index \subseteq e.index
    /\ d.revoked \subseteq e.revoked

\* The document e continues the line.
Continues(e) == \E d \in log : Newest(d) /\ SignedOn(d, e)

Publish(e) == Continues(e) /\ log' = log \cup {e}

\* Daemon n starts with a document of the line or replaces its own by a newer
\* one.
Advance(n, d) ==
    /\ view[n] = NoDoc \/ view[n].version < d.version
    /\ view' = [view EXCEPT ![n] = d]

Stop(n) == view' = [view EXCEPT ![n] = NoDoc]

\* A document may reach a daemon in the very step that publishes it.
Next ==
    \/ \E e \in log' : Publish(e) /\ (UNCHANGED view \/ \E n \in Nodes : Advance(n, e))
    \/ UNCHANGED log /\ \E n \in Nodes : Stop(n) \/ \E d \in log : Advance(n, d)

Spec == Init /\ [][Next]_<<log, view>>
=============================================================================
