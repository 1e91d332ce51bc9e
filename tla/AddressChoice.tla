--------------------------- MODULE AddressChoice ---------------------------
(***************************************************************************)
(* How the nodes of a network get their IPv4 addresses: the loop of        *)
(* Instance::check_dhcp_ip_conflict on every node.  Every 5 to 10 seconds  *)
(* a round takes the address the root assigned to the node, if any, and    *)
(* otherwise keeps its own unless the routes show it taken or the subnet   *)
(* moved, in which case it picks the first free one; a new address needs a *)
(* new interface, which may fail to come up.  The routes of a node lag     *)
(* behind the addresses of the others.                                     *)
(***************************************************************************)
EXTENDS Integers, FiniteSetsExt

CONSTANTS
    Node,
    Dhcp,         \* nodes configured for DHCP
    Ip,           \* usable addresses, as positive numbers in subnet order
    Subnet,       \* Subnet[a]: the subnet of an address
    MaxAssigns,   \* bound: changes of assignments by the root
    MaxFailed,    \* bound: interfaces that fail to come up
    MaxClosed     \* bound: interfaces that close by themselves

VARIABLES
    current,    \* current_dhcp_ip
    ipv4,       \* the address in the configuration, which the routes announce
    nic,        \* the address of the running interface
    closed,     \* a permit in nic_closed_notifier
    round,      \* round[n]: at rest, or bringing up the candidate
    route,      \* route[n][m]: the address of m in the routes of n
    assigned,   \* assigned[n]: the address in the network state
    budget      \* assignments, failures and closes left

vars == <<current, ipv4, nic, closed, round, route, assigned, budget>>

None == 0
Absent == -1     \* no route to the node
Rest == -1       \* no round in progress

Init ==
    /\ current = [n \in Node |-> None] /\ ipv4 = [n \in Node |-> None]
    /\ nic = [n \in Node |-> None] /\ closed = [n \in Node |-> FALSE]
    /\ round = [n \in Node |-> Rest]
    /\ route = [n \in Node |-> [m \in Node |-> Absent]]
    /\ assigned = [n \in Node |-> None]
    /\ budget = [assigns |-> MaxAssigns, failed |-> MaxFailed, closed |-> MaxClosed]

----------------------------------------------------------------------------
(* A round *)

Used(n) == {route[n][m] : m \in Node \ {n}} \ {None, Absent}

\* The subnet is that of any address in use, the default one without any.
Nets(n) == IF Used(n) = {} THEN {Subnet[Min(Ip)]} ELSE {Subnet[a] : a \in Used(n)}
Free(n, net) == {a \in Ip : Subnet[a] = net /\ a \notin Used(n)}
FirstFree(n, net) == IF Free(n, net) = {} THEN None ELSE Min(Free(n, net))

\* Fault: the notification of a closed interface is not looked at.
NowKept(n) == current[n]

\* The current address, forgotten when its interface has closed.
Now(n) == IF closed[n] THEN None ELSE current[n]

\* Fault: an address is kept although another node has it.
KeepsTaken(n, net) == Now(n) # None /\ Subnet[Now(n)] = net

Keeps(n, net) == Now(n) # None /\ Subnet[Now(n)] = net /\ Now(n) \notin Used(n)

Stay(n) ==
    /\ current' = [current EXCEPT ![n] = Now(n)]
    /\ UNCHANGED <<ipv4, nic, round>>

\* The old interface goes before the new one comes; without a candidate the
\* node ends up without address.
Change(n, to) ==
    /\ nic' = [nic EXCEPT ![n] = None]
    /\ \/ /\ to # None
          /\ round' = [round EXCEPT ![n] = to]
          /\ current' = [current EXCEPT ![n] = Now(n)]
          /\ UNCHANGED ipv4
       \/ /\ to = None
          /\ current' = [current EXCEPT ![n] = None]
          /\ ipv4' = [ipv4 EXCEPT ![n] = None]
          /\ UNCHANGED round

Candidate(n, to) == IF Now(n) = to THEN Stay(n) ELSE Change(n, to)

\* Neither assigned nor DHCP: an address assigned earlier is withdrawn.
Withdraw(n) ==
    IF Now(n) = None THEN Stay(n) ELSE Change(n, None)

Choose(n) ==
    IF \A m \in Node \ {n} : route[n][m] = Absent
    THEN Stay(n)
    ELSE \E net \in Nets(n) : IF Keeps(n, net) THEN Stay(n) ELSE Candidate(n, FirstFree(n, net))

StartRound(n) ==
    /\ round[n] = Rest
    /\ closed' = [closed EXCEPT ![n] = FALSE]
    /\ CASE assigned[n] # None                 -> Candidate(n, assigned[n])
         [] assigned[n] = None /\ n \in Dhcp    -> Choose(n)
         [] assigned[n] = None /\ n \notin Dhcp -> Withdraw(n)
    /\ UNCHANGED <<route, assigned, budget>>

InterfaceUp(n) ==
    /\ round[n] # Rest
    /\ nic' = [nic EXCEPT ![n] = round[n]]
    /\ current' = [current EXCEPT ![n] = round[n]]
    /\ ipv4' = [ipv4 EXCEPT ![n] = round[n]]
    /\ round' = [round EXCEPT ![n] = Rest]
    /\ UNCHANGED <<closed, route, assigned, budget>>

\* current_dhcp_ip stays what it was before the round.
InterfaceFails(n) ==
    /\ round[n] # Rest /\ budget.failed > 0
    /\ ipv4' = [ipv4 EXCEPT ![n] = None]
    /\ round' = [round EXCEPT ![n] = Rest]
    /\ budget' = [budget EXCEPT !.failed = @ - 1]
    /\ UNCHANGED <<current, nic, closed, route, assigned>>

----------------------------------------------------------------------------
(* The rest of the system *)

InterfaceCloses(n) ==
    /\ nic[n] # None /\ budget.closed > 0
    /\ nic' = [nic EXCEPT ![n] = None]
    /\ closed' = [closed EXCEPT ![n] = TRUE]
    /\ budget' = [budget EXCEPT !.closed = @ - 1]
    /\ UNCHANGED <<current, ipv4, round, route, assigned>>

\* The routes of n learn the address of m.
LearnRoute(n, m) ==
    /\ n # m /\ route[n][m] # ipv4[m]
    /\ route' = [route EXCEPT ![n][m] = ipv4[m]]
    /\ UNCHANGED <<current, ipv4, nic, closed, round, assigned, budget>>

\* The root gives each address to at most one device.
Assign(n, a) ==
    /\ assigned[n] # a /\ budget.assigns > 0
    /\ a = None \/ \A m \in Node : assigned[m] # a
    /\ assigned' = [assigned EXCEPT ![n] = a]
    /\ budget' = [budget EXCEPT !.assigns = @ - 1]
    /\ UNCHANGED <<current, ipv4, nic, closed, round, route>>

Next ==
    \E n \in Node :
        \/ StartRound(n) \/ InterfaceUp(n) \/ InterfaceFails(n) \/ InterfaceCloses(n)
        \/ \E m \in Node : LearnRoute(n, m)
        \/ \E a \in Ip \cup {None} : Assign(n, a)

Spec == Init /\ [][Next]_vars

\* Rounds go on, interfaces come up unless they fail, and routes are learnt.
Fairness ==
    \A n \in Node : /\ WF_vars(StartRound(n)) /\ WF_vars(InterfaceUp(n))
                    /\ \A m \in Node : WF_vars(LearnRoute(n, m))

----------------------------------------------------------------------------
(* Properties *)

\* The types of the state.
TypeOK ==
    /\ current \in [Node -> Ip \cup {None}] /\ ipv4 \in [Node -> Ip \cup {None}]
    /\ nic \in [Node -> Ip \cup {None}] /\ round \in [Node -> Ip \cup {Rest}]
    /\ closed \in [Node -> BOOLEAN]
    /\ route \in [Node -> [Node -> Ip \cup {None, Absent}]]
    /\ assigned \in [Node -> Ip \cup {None}]

\* An interface that is up has the address that current_dhcp_ip and the announced
\* configuration have: no round of check_dhcp_ip_conflict, failed or not, and no
\* interface that closes by itself leaves one running under another address.
InterfaceIsAnnounced ==
    \A n \in Node : nic[n] # None => nic[n] = current[n] /\ nic[n] = ipv4[n]

\* The three places that hold the address of a node, current_dhcp_ip, the
\* configuration that is announced and the interface, agree again and again,
\* interfaces that close by themselves and changes of the assignment included.
\* There are two exceptions: an interface that failed to come up, and a node that
\* is left without address by a round that found its interface closed, which
\* does not take back what the node announces.
Owned ==
    []<>(\/ budget.failed < MaxFailed
         \/ \A n \in Node : round[n] = Rest =>
              /\ nic[n] = current[n]
              /\ ipv4[n] = current[n] \/ (current[n] = None /\ budget.closed < MaxClosed))

\* A round that sees the current addresses and overlaps with no other.
Orderly(n) == \A m \in Node \ {n} : route[n][m] = ipv4[m] /\ round[m] = Rest

\* Once the rounds of check_dhcp_ip_conflict, which sleep a random time, no
\* longer overlap, conflicts end: no two nodes announce the same address, the
\* ones a root assigned while another node had picked them included.
Resolves ==
    <>[][\A n \in Node : StartRound(n) => Orderly(n)]_vars
      => <>[](\A n, m \in Node : n # m /\ ipv4[n] # None => ipv4[n] # ipv4[m])
=============================================================================
