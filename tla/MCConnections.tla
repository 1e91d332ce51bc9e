--------------------------- MODULE MCConnections ---------------------------
(***************************************************************************)
(* The life of connections: the peer map, keep-alive, relayed sessions,    *)
(* reconnecting, RPC calls, proxied TCP streams and foreign networks.  A   *)
(* behaviour is one of the component, and of the instance of it, that part *)
(* names; the others rest in their initial states.                         *)
(***************************************************************************)
EXTENDS PeerTable, TLC

CONSTANTS a, b, c, k1, k2

VARIABLES
    part,
    remote, sink, since, backoff, moved, sending, waiting, results, loss, \* KeepAlive
    heard, pc, quiet, missed,
    key, bad, htask, pend, reply, hbackoff, hsending, buf, hnet, hbudget, \* RelayHandshake
    connectors, reconnecting, removed, alive, borrowed, failures, cache,  \* Connectors
    routine, user, task, wanted, cbudget,
    call, inflight, got, channel, result, merger, tasks, runs, net, budget,  \* RpcCall
    made, entry, syn, addr, conn, accept, tcp, calling, owner,            \* TcpProxy
    registered, fmade, inside, lost, listed, stamped, handler, events,    \* ForeignNetwork
    fadd, lock, fbudget

----------------------------------------------------------------------------
(* The instances *)

\* The peer table: three connections, the third of which proves another key.
ProvedKeys == (a :> k1) @@ (b :> k1) @@ (c :> k2)

\* Three losses end the connection, two pings may be pending.
Ping == INSTANCE KeepAlive WITH MaxLoss <- 3, MaxPending <- 2, ResultCap <- 1

\* One side sends; a message is lost, two waits end early, a session goes.
Relay == INSTANCE RelayHandshake
         WITH Senders <- {1}, MaxAttempts <- 2, MaxPending <- 1, FailThreshold <- 2,
              Ids <- 1 .. 5, Keys <- 1 .. 5, MaxLost <- 1, MaxLate <- 2, MaxEvicted <- 1,
              task <- htask, backoff <- hbackoff, sending <- hsending, net <- hnet,
              budget <- hbudget

\* One url of the configuration and one the user adds; a connection is lost.
Added == INSTANCE Connectors
         WITH Url <- {a, b}, Configured <- {a}, Addable <- {b}, Hints <- {}, Caching <- FALSE,
              BorrowAfter <- 2, MaxAdds <- 1, MaxLists <- 0, MaxRemoves <- 0, MaxDrops <- 1,
              budget <- cbudget

\* The same, without losses; the user also removes a url.
Removing == INSTANCE Connectors
            WITH Url <- {a, b}, Configured <- {a}, Addable <- {b}, Hints <- {}, Caching <- FALSE,
                 BorrowAfter <- 2, MaxAdds <- 1, MaxLists <- 0, MaxRemoves <- 1, MaxDrops <- 0,
                 budget <- cbudget

\* One url of the configuration, one signed peer hint, and the peer cache.
Hinted == INSTANCE Connectors
          WITH Url <- {a, b}, Configured <- {a}, Addable <- {}, Hints <- {b}, Caching <- TRUE,
               BorrowAfter <- 2, MaxAdds <- 0, MaxLists <- 1, MaxRemoves <- 0, MaxDrops <- 0,
               budget <- cbudget

\* A call of two request and two response pieces.
Rpc == INSTANCE RpcCall
       WITH Call <- {1}, ReqPieces <- 2, RespPieces <- 2, MaxLost <- 1, MaxDup <- 2

\* One client port, used four times for two destinations.
Proxy == INSTANCE TcpProxy WITH Dst <- {a, b}, MaxSyns <- 4

\* Two peers of a foreign network, three connections.
Foreign == INSTANCE ForeignNetwork
           WITH Peer <- {a, b}, MaxAdds <- 3, MaxLags <- 1, made <- fmade, add <- fadd,
                budget <- fbudget

pingVars == <<remote, sink, since, backoff, moved, sending, waiting, results, loss,
              heard, pc, quiet, missed>>
relayVars == <<key, bad, htask, pend, reply, hbackoff, hsending, buf, hnet, hbudget>>
connectorVars == <<connectors, reconnecting, removed, alive, borrowed, failures, cache,
                   routine, user, task, wanted, cbudget>>
rpcVars == <<call, inflight, got, channel, result, merger, tasks, runs, net, budget>>
proxyVars == <<made, entry, syn, addr, conn, accept, tcp, calling, owner>>
foreignVars == <<registered, fmade, inside, lost, listed, stamped, handler, events,
                 fadd, lock, fbudget>>
allVars == <<part, vars, pingVars, relayVars, connectorVars, rpcVars, proxyVars, foreignVars>>

PartsInit ==
    /\ part \in {"table", "ping", "relay", "added", "removing", "hinted", "rpc", "proxy", "foreign"}
    /\ Init /\ Ping!Init /\ Relay!Init /\ Rpc!Init /\ Proxy!Init /\ Foreign!Init
    /\ CASE part = "hinted" -> Hinted!Init
         [] part = "removing" -> Removing!Init
         [] OTHER -> Added!Init

PartsNext ==
    /\ UNCHANGED part
    /\ \/ /\ part = "table" /\ Next
          /\ UNCHANGED <<pingVars, relayVars, connectorVars, rpcVars, proxyVars, foreignVars>>
       \/ /\ part = "ping" /\ Ping!Next
          /\ UNCHANGED <<vars, relayVars, connectorVars, rpcVars, proxyVars, foreignVars>>
       \/ /\ part = "relay" /\ Relay!Next
          /\ UNCHANGED <<vars, pingVars, connectorVars, rpcVars, proxyVars, foreignVars>>
       \/ /\ \/ part = "added" /\ Added!Next
             \/ part = "removing" /\ Removing!Next
             \/ part = "hinted" /\ Hinted!Next
          /\ UNCHANGED <<vars, pingVars, relayVars, rpcVars, proxyVars, foreignVars>>
       \/ /\ part = "rpc" /\ Rpc!Next
          /\ UNCHANGED <<vars, pingVars, relayVars, connectorVars, proxyVars, foreignVars>>
       \/ /\ part = "proxy" /\ Proxy!Next
          /\ UNCHANGED <<vars, pingVars, relayVars, connectorVars, rpcVars, foreignVars>>
       \/ /\ part = "foreign" /\ Foreign!Next
          /\ UNCHANGED <<vars, pingVars, relayVars, connectorVars, rpcVars, proxyVars>>

PartsSpec == PartsInit /\ [][PartsNext]_allVars

----------------------------------------------------------------------------
(* The properties of the component at work, under its own fairness *)

\* The types of the state.
PartsTypeOK ==
    /\ part = "table" => TypeOK
    /\ part = "ping" => Ping!TypeOK
    /\ part = "relay" => Relay!TypeOK
    /\ part = "added" => Added!TypeOK
    /\ part = "removing" => Removing!TypeOK
    /\ part = "hinted" => Hinted!TypeOK
    /\ part = "rpc" => Rpc!TypeOK
    /\ part = "proxy" => Proxy!TypeOK
    /\ part = "foreign" => Foreign!TypeOK

\* The pinger gives a connection up only after MaxLoss losses in a row.
ClosesOnlyQuiet == part = "ping" => Ping!ClosesOnlyQuiet

\* The reconnect routine meets no failed unwrap or assertion, and a url the user
\* wants is not lost between the sets of the connector manager.
UrlsKept == part \in {"added", "removing", "hinted"} => Added!RoutineSurvives /\ Added!Kept

\* An entry of the RPC client has its receiver, and the handler of a call runs
\* again only if the transport doubled its pieces.
CallsSound == part = "rpc" => Rpc!ReceiverAlive /\ Rpc!RunsAgainOnlyIfDuplicated

\* The assertions of the TCP proxy hold, and the end of an old connection takes
\* nothing from the new one of its port.
ProxySound == part = "proxy" => Proxy!AssertionsHold /\ Proxy!SuccessorKept

\* A registered foreign network has a handler.
HasHandler == part = "foreign" => Foreign!HasHandler

\* What cannot be used is closed: no connection stays outside the registered
\* Peer, and a silent peer is given up.
UselessCloses ==
    /\ (part = "table" /\ Fairness) => StrandedCloses
    /\ (part = "ping" /\ Ping!Fairness) => Ping!SilentCloses

\* Two relayed peers come to hold the same session, and answers reach only the
\* attempt that waits for them.
SessionsMeet ==
    /\ [](part = "relay" => Relay!OwnAttempt)
    /\ (part = "relay" /\ Relay!Fairness) => Relay!SessionsMeet

\* A url the user wants is tried again and again, also when the user adds and
\* removes others, and when hints and the peer cache stand in for it.
Retried ==
    /\ (part = "added" /\ Added!Fairness) => Added!Retried
    /\ (part = "removing" /\ Removing!Fairness) => Removing!Retried
    /\ (part = "hinted" /\ Hinted!Fairness) => Hinted!Retried

\* Tables are cleared: calls leave nothing behind, only connections in use stay
\* in the tables of the proxy, and a foreign network without peers goes, with its
\* time stamp and the connections that came too late.
TablesCleared ==
    /\ (part = "rpc" /\ Rpc!Fairness) => Rpc!Drained
    /\ (part = "proxy" /\ Proxy!Fairness) => Proxy!Settles
    /\ (part = "foreign" /\ Foreign!Fairness)
         => Foreign!IdleGoes /\ Foreign!StampGoes /\ Foreign!OrphansClose
=============================================================================
