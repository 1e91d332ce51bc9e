------------------------------ MODULE MCRoutes ------------------------------
(***************************************************************************)
(* What a node comes to know and to agree on with the others: route        *)
(* synchronisation, the choice of sessions, the choice of an address, and  *)
(* the trust configuration.  A behaviour is one of the component, and of   *)
(* the instance of it, that part names; the others rest in their initial   *)
(* states.  The module extends RouteElection, whose constants are given    *)
(* three nodes in a row, one of them with an open NAT.                     *)
(***************************************************************************)
EXTENDS RouteElection, TLC

CONSTANTS r1, n1, cr1, cn1, s1, NoDoc, Torn, NoCert

VARIABLES
    part,
    rlinks, hist, ver, tables, rsess, born, rrpc, rbudget,                      \* RouteSync
    plinks, phist, pver, ptables, psess, pborn, prpc, pbudget,                  \* RouteSync, a pair
    current, ipv4, nic, closed, round, route, assigned, abudget,                \* AddressChoice
    mem, disk, persisting, ioFailed, sync, tsess, certRef, cache, released      \* TrustSync

----------------------------------------------------------------------------
(* The instances *)

AllKinds == {"peer", "conn", "foreign"}

\* Three nodes in a row; an item changes, a call fails, tables lag behind.
Row == INSTANCE RouteSync
       WITH Node <- 1 .. 3, Kinds <- AllKinds, Links <- {{1, 2}, {2, 3}}, Flapping <- {},
            MaxFlaps <- 0, MaxUpdates <- 1, MaxFails <- 1, Expiring <- FALSE, Gap <- TRUE,
            links <- rlinks, sess <- rsess, rpc <- rrpc, budget <- rbudget

\* Two nodes, the link between them breaks once.
Pair == INSTANCE RouteSync
        WITH Node <- 1 .. 2, Kinds <- AllKinds, Links <- {{1, 2}}, Flapping <- {{1, 2}},
             MaxFlaps <- 1, MaxUpdates <- 0, MaxFails <- 0, Expiring <- FALSE, Gap <- FALSE,
             links <- plinks, hist <- phist, ver <- pver, tables <- ptables, sess <- psess,
             born <- pborn, rpc <- prpc, budget <- pbudget

\* No links: nothing to synchronise.
NoRow == INSTANCE RouteSync
         WITH Node <- 1 .. 3, Kinds <- AllKinds, Links <- {}, Flapping <- {}, MaxFlaps <- 0,
              MaxUpdates <- 0, MaxFails <- 0, Expiring <- FALSE, Gap <- FALSE,
              links <- rlinks, sess <- rsess, rpc <- rrpc, budget <- rbudget
NoPair == INSTANCE RouteSync
          WITH Node <- 1 .. 2, Kinds <- AllKinds, Links <- {}, Flapping <- {}, MaxFlaps <- 0,
               MaxUpdates <- 0, MaxFails <- 0, Expiring <- FALSE, Gap <- FALSE,
               links <- plinks, hist <- phist, ver <- pver, tables <- ptables, sess <- psess,
               born <- pborn, rpc <- prpc, budget <- pbudget

\* Two nodes, the link between them breaks once and a call fails.
Couple == INSTANCE RouteElection
          WITH Links <- {{1, 2}}, Open <- {}, MaxFails <- 1, Flapping <- {{1, 2}}, MaxFlaps <- 1

\* No links: no sessions to choose.
NoChoice == INSTANCE RouteElection
            WITH Links <- {}, Open <- {}, MaxFails <- 0, Flapping <- {}, MaxFlaps <- 0

OneNet == [a \in 1 .. 3 |-> 1]

\* Both nodes choose their addresses; an interface fails, one closes.
Both == INSTANCE AddressChoice
        WITH Node <- 1 .. 2, Dhcp <- 1 .. 2, Ip <- 1 .. 3, Subnet <- OneNet,
             MaxAssigns <- 1, MaxFailed <- 1, MaxClosed <- 1, budget <- abudget

\* One of them does; the root assigns an address and withdraws it, and an
\* interface closes.
One == INSTANCE AddressChoice
       WITH Node <- 1 .. 2, Dhcp <- {1}, Ip <- 1 .. 2, Subnet <- OneNet,
            MaxAssigns <- 2, MaxFailed <- 0, MaxClosed <- 1, budget <- abudget

\* One device with the root key, one that joins, one command at a time.
Trust == INSTANCE TrustSync
         WITH Nodes <- {r1, n1}, Roots <- {r1}, Certs <- {cr1, cn1},
              CertOf <- (r1 :> cr1) @@ (n1 :> cn1), Members <- {cr1}, Sessions <- {s1},
              MaxVersion <- 3, sess <- tsess

syncVars == <<rlinks, hist, ver, tables, rsess, born, rrpc, rbudget>>
pairVars == <<plinks, phist, pver, ptables, psess, pborn, prpc, pbudget>>
addressVars == <<current, ipv4, nic, closed, round, route, assigned, abudget>>
trustVars == <<mem, disk, persisting, ioFailed, sync, tsess, certRef, cache, released>>
allVars == <<part, syncVars, pairVars, vars, addressVars, trustVars>>

PartsInit ==
    /\ part \in {"row", "pair", "chain", "couple", "both", "one", "trust"}
    /\ IF part = "row" THEN Row!Init ELSE NoRow!Init
    /\ IF part = "pair" THEN Pair!Init ELSE NoPair!Init
    /\ CASE part = "chain" -> Init [] part = "couple" -> Couple!Init [] OTHER -> NoChoice!Init
    /\ IF part = "one" THEN One!Init ELSE Both!Init
    /\ Trust!Init

PartsNext ==
    /\ UNCHANGED part
    /\ \/ /\ part = "row" /\ Row!Next
          /\ UNCHANGED <<pairVars, vars, addressVars, trustVars>>
       \/ /\ part = "pair" /\ Pair!Next
          /\ UNCHANGED <<syncVars, vars, addressVars, trustVars>>
       \/ /\ \/ part = "chain" /\ Next
             \/ part = "couple" /\ Couple!Next
          /\ UNCHANGED <<syncVars, pairVars, addressVars, trustVars>>
       \/ /\ \/ part = "both" /\ Both!Next
             \/ part = "one" /\ One!Next
          /\ UNCHANGED <<syncVars, pairVars, vars, trustVars>>
       \/ /\ part = "trust" /\ Trust!OrderlyNext
          /\ UNCHANGED <<syncVars, pairVars, vars, addressVars>>

PartsSpec == PartsInit /\ [][PartsNext]_allVars

----------------------------------------------------------------------------
(* The properties of the component at work, under its own fairness *)

\* The types of the state.
PartsTypeOK ==
    /\ part = "row" => Row!TypeOK
    /\ part = "pair" => Pair!TypeOK
    /\ part = "chain" => TypeOK
    /\ part = "couple" => Couple!TypeOK
    /\ part = "both" => Both!TypeOK
    /\ part = "one" => One!TypeOK

\* Route information converges although calls fail and tables lag behind, and
\* after a link broke and came back.
Converges ==
    /\ (part = "row" /\ Row!Fairness) => Row!Converges
    /\ (part = "pair" /\ Pair!Fairness) => Pair!Converges

\* Every session has one initiator that both ends know, also after the link broke
\* and a call failed, and the sessions connect what the links connect, in the end.
SessionsSettle ==
    /\ (part = "chain" /\ Fairness) => InitiatorsAgree /\ SessionsSpan
    /\ (part = "couple" /\ Couple!Fairness) => Couple!InitiatorsAgree

\* The address a node chose is the one it announces and its interface has, and
\* address conflicts end once the rounds no longer overlap.
AddressesSettle ==
    /\ [](part = "one" => One!InterfaceIsAnnounced)
    /\ [](part = "both" => Both!InterfaceIsAnnounced)
    /\ (part = "one" /\ One!Fairness) => One!Owned
    /\ (part = "both" /\ Both!Fairness) => Both!Owned /\ Both!Resolves

\* A version in the pool of a peer that accepts the node is pulled.
Spread == (part = "trust" /\ Trust!Fairness) => Trust!Spread
=============================================================================
