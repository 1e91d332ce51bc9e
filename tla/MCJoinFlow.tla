----------------------------- MODULE MCJoinFlow -----------------------------
(***************************************************************************)
(* Three instances of JoinFlow for TLC; network says which one a behaviour *)
(* is of.  The module itself is extended for the one with the constants of *)
(* the configuration: two requests of one applicant on a triangle.         *)
(***************************************************************************)
EXTENDS JoinFlow, TLC

CONSTANTS n1, n2, n3, rt, a1, q1, q2

VARIABLE network

\* Two daemons and the root device, all connected.
TriangleNeighbors ==
    (n1 :> {n2, rt}) @@ (n2 :> {n1, rt}) @@ (n3 :> {}) @@ (rt :> {n1, n2})

OneApplicant == (q1 :> a1) @@ (q2 :> a1)

\* Three daemons that all know each other; the root device behind the third.
\* The hop limit is that of the longest path, and nothing is lost.
Kite ==
    INSTANCE JoinFlow
    WITH Nodes <- {n1, n2, n3, rt}, Requests <- {q1}, ApplicantOf <- OneApplicant,
         Neighbors <- (n1 :> {n2, n3}) @@ (n2 :> {n1, n3}) @@ (n3 :> {n1, n2, rt}) @@ (rt :> {n3}),
         SubmitTtl <- 3, Faulty <- FALSE

\* Two daemons and the root device, all connected; a third daemon behind one.
Tail ==
    INSTANCE JoinFlow
    WITH Nodes <- {n1, n2, n3, rt}, Requests <- {q1}, ApplicantOf <- OneApplicant,
         Neighbors <- (n1 :> {n2, rt}) @@ (n2 :> {n1, n3, rt}) @@ (n3 :> {n2}) @@ (rt :> {n1, n2}),
         SubmitTtl <- 2, Faulty <- TRUE

NetworkInit ==
    \/ network = "triangle" /\ Init
    \/ network = "kite" /\ Kite!Init
    \/ network = "tail" /\ Tail!Init

NetworkNext ==
    /\ UNCHANGED network
    /\ \/ network = "triangle" /\ Next
       \/ network = "kite" /\ Kite!Next
       \/ network = "tail" /\ Tail!Next

NetworkSpec == NetworkInit /\ [][NetworkNext]_<<network, vars>>

----------------------------------------------------------------------------
(* The properties, each on the network where it has something to say *)

\* The types of the state.
NetworksTypeOK ==
    /\ network = "triangle" => TypeOK
    /\ network = "kite" => Kite!TypeOK
    /\ network = "tail" => Tail!TypeOK

\* Without loss, a submitted request reaches the root device; and an applicant
\* approved at the daemon it polls joins.
JoinsSucceed ==
    /\ (network = "kite" /\ Kite!Fairness) => Kite!RequestArrives
    /\ (network = "triangle" /\ Fairness) => ApprovedIsFetched

\* The flood of a request ends, although daemons lose calls and restart.
TailFloodEnds == (network = "tail" /\ Tail!Fairness) => Tail!FloodEnds
=============================================================================
