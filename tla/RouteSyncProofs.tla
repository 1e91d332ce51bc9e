-------------------------- MODULE RouteSyncProofs --------------------------
(***************************************************************************)
(* Proofs about the synchronisation of route information, for any nodes,   *)
(* links, updates and failures.                                            *)
(*                                                                         *)
(* OwnerNewest is not inductive: versions also travel in calls and come    *)
(* back in the bitmap derived from a table, and none of these may be newer *)
(* than the owner's (Owned).  SavedIsHeld needs that an answered call has  *)
(* been merged, and that a call carries what its sender has (Covered).     *)
(*                                                                         *)
(* What a step may do to versions, tables, calls and sessions is stated    *)
(* once (VersionStep, TableStep, CallStep, SessionStep, AnswerStep);       *)
(* every action is shown to do no more, and that much to keep the          *)
(* invariants.                                                             *)
(***************************************************************************)
EXTENDS RouteSync, TLAPS

\* What the proofs assume of the constants: peer and connection infos are among
\* the kinds of items.
SyncConstants == {"peer", "conn"} \subseteq Kinds

\* Versions of all items: of a node, of a session, or of a call.
Versions == [Kinds -> [Node -> Nat]]

\* A call under way.
CallShape(r) ==
    r = [id |-> r.id, answer |-> r.answer, items |-> r.items, since |-> r.since]

\* A row has an entry for every node, a matrix a row for every node.
Row(f) == f = [d \in Node |-> f[d]]
Matrix(f) == f = [n \in Node |-> f[n]] /\ \A n \in Node : Row(f[n])

\* g is f with another row, or another entry.
RowSet(f, n, r, g) == g = [f EXCEPT ![n] = r]
EntrySet(f, n, d, x, g) == g = [f EXCEPT ![n][d] = x]

\* The other rows stay.
LEMMA RowReplaced ==
    ASSUME NEW f, Matrix(f), NEW n \in Node, NEW r, Row(r), NEW g, RowSet(f, n, r, g)
    PROVE  Matrix(g) /\ g[n] = r /\ \A m \in Node \ {n} : g[m] = f[m]
<1>1. g = [m \in Node |-> g[m]] /\ g[n] = r /\ \A m \in Node \ {n} : g[m] = f[m]
  BY DEF Matrix, RowSet
<1> QED BY <1>1 DEF Matrix

\* The other entries stay.
LEMMA EntryReplaced ==
    ASSUME NEW f, Matrix(f), NEW n \in Node, NEW d \in Node, NEW x, NEW g, EntrySet(f, n, d, x, g)
    PROVE  Matrix(g) /\ g[n][d] = x /\ \A m, e \in Node : m # n \/ e # d => g[m][e] = f[m][e]
<1> DEFINE r == [f[n] EXCEPT ![d] = x]
<1>1. Row(r) /\ r[d] = x /\ \A e \in Node \ {d} : r[e] = f[n][e]
  BY DEF Matrix, Row
<1>2. RowSet(f, n, r, g)
  BY DEF RowSet, EntrySet
<1> HIDE DEF r
<1>3. Matrix(g) /\ g[n] = r /\ \A m \in Node \ {n} : g[m] = f[m]
  BY <1>1, <1>2, RowReplaced
<1>4. \A e \in Node \ {d} : g[n][e] = f[n][e]
  BY <1>1, <1>3
<1>5. \A m \in Node \ {n} : \A e \in Node : g[m][e] = f[m][e]
  BY <1>3
<1> QED BY <1>1, <1>3, <1>4, <1>5

\* The part of the types that the argument uses.
SyncTypes ==
    /\ ver \in [Node -> Versions]
    /\ tables = [n \in Node |-> tables[n]]
    /\ \A n \in Node :
          /\ tables[n] = [reach |-> tables[n].reach, fresh |-> tables[n].fresh,
                          bitmap |-> tables[n].bitmap]
          /\ tables[n].bitmap \in [Node -> Nat]
          /\ n \in tables[n].reach
    /\ Matrix(rpc)
    /\ \A n, d \in Node : rpc[n][d] # NoRpc => CallShape(rpc[n][d]) /\ rpc[n][d].items \in Versions

\* No version is newer than its owner's: of what a node has, has derived its
\* bitmap from, or has sent; and every node has its own peer info.
Owned ==
    /\ OwnerNewest
    /\ \A n \in Node : ver[n]["peer"][n] > 0
    /\ \A n, p \in Node : tables[n].bitmap[p] <= ver[p]["conn"][p]
    /\ \A n, d \in Node : rpc[n][d] # NoRpc =>
          \A k \in Kinds, p \in Node : rpc[n][d].items[k][p] <= ver[p][k][p]

\* Merging takes the newer version of every item.
LEMMA MergedVersions ==
    ASSUME NEW f \in Versions, NEW g \in Versions
    PROVE  /\ Merged(f, g) \in Versions
           /\ \A k \in Kinds, p \in Node :
                 /\ f[k][p] <= Merged(f, g)[k][p] /\ g[k][p] <= Merged(f, g)[k][p]
                 /\ Merged(f, g)[k][p] = f[k][p] \/ Merged(f, g)[k][p] = g[k][p]
<1>1. \A k \in Kinds, p \in Node : f[k][p] \in Nat /\ g[k][p] \in Nat
  BY DEF Versions
<1> QED BY <1>1 DEF Merged, MaxOf, Versions

\* The bitmap a table is derived with has no newer connection info than the node.
LEMMA TablesDerived ==
    ASSUME SyncConstants, NEW n \in Node, NEW v \in Versions, NEW h, v["peer"][n] > 0
    PROVE  /\ Tables(n, v, h) = [reach |-> Tables(n, v, h).reach, fresh |-> Tables(n, v, h).fresh,
                                   bitmap |-> Tables(n, v, h).bitmap]
           /\ Tables(n, v, h).bitmap \in [Node -> Nat]
           /\ \A p \in Node : Tables(n, v, h).bitmap[p] <= v["conn"][p]
           /\ n \in Tables(n, v, h).reach
<1>1. n \in ReachableFrom(n, v, h)
  BY DEF ReachableFrom
<1>2. \A p \in Node : v["conn"][p] \in Nat
  BY DEF Versions, SyncConstants
<1> QED BY <1>1, <1>2 DEF Tables

\* What is sent is what the sender has, or what its bitmap says.
LEMMA RequestSent ==
    ASSUME SyncConstants, SyncTypes, NEW n \in Node, NEW d \in Node
    PROVE  /\ Request(n, d) \in Versions
           /\ \A k \in Kinds, p \in Node :
                 \/ Request(n, d)[k][p] <= ver[n][k][p]
                 \/ k = "conn" /\ Request(n, d)[k][p] = tables[n].bitmap[p]
<1>1. \A k \in Kinds, p \in Node : ver[n][k][p] \in Nat
  BY DEF SyncTypes, Versions
<1>2. ASSUME NEW k \in Kinds, NEW D
      PROVE  /\ Only(ver[n][k], D) \in [Node -> Nat]
             /\ \A p \in Node : Only(ver[n][k], D)[p] <= ver[n][k][p]
  BY <1>1 DEF Only
<1>3. ConnsSent(n, d) \in {Nothing["conn"], Only(ver[n]["conn"], Pushed(n, d, "conn")), tables[n].bitmap}
  BY Zenon DEF ConnsSent
<1>4. Nothing["conn"] \in [Node -> Nat] /\ \A p \in Node : Nothing["conn"][p] <= ver[n]["conn"][p]
  BY <1>1 DEF Nothing, SyncConstants
<1>5. /\ ConnsSent(n, d) \in [Node -> Nat]
      /\ \A p \in Node : ConnsSent(n, d)[p] <= ver[n]["conn"][p] \/ ConnsSent(n, d)[p] = tables[n].bitmap[p]
  <2>1. CASE ConnsSent(n, d) = Nothing["conn"]
    BY <1>4, <2>1
  <2>2. CASE ConnsSent(n, d) = Only(ver[n]["conn"], Pushed(n, d, "conn"))
    BY <1>2, <2>2 DEF SyncConstants
  <2>3. CASE ConnsSent(n, d) = tables[n].bitmap
    BY <2>3 DEF SyncTypes
  <2> QED BY <1>3, <2>1, <2>2, <2>3
<1> QED BY <1>2, <1>5, Zenon DEF Request, Versions

\* What a step may do to the versions, the tables and the calls.
VersionStep ==
    /\ ver' \in [Node -> Versions]
    /\ \A k \in Kinds, p \in Node : ver[p][k][p] <= ver'[p][k][p]
    /\ \A n, p \in Node, k \in Kinds : ver'[n][k][p] <= ver'[p][k][p]

\* A step leaves the tables of n, or derives them from what n then has.
SameTables(n) == tables'[n].bitmap = tables[n].bitmap /\ tables'[n].reach = tables[n].reach
NewTables(n) ==
    /\ tables'[n].bitmap \in [Node -> Nat] /\ n \in tables'[n].reach
    /\ \A p \in Node : tables'[n].bitmap[p] <= ver'[n]["conn"][p]
TableStep ==
    /\ tables' = [n \in Node |-> tables'[n]]
    /\ \A n \in Node :
          /\ tables'[n] = [reach |-> tables'[n].reach, fresh |-> tables'[n].fresh,
                           bitmap |-> tables'[n].bitmap]
          /\ SameTables(n) \/ NewTables(n)

\* A step leaves the items of a call, or starts it and changes no version.
SameCall(n, d) == rpc[n][d] # NoRpc /\ rpc'[n][d].items = rpc[n][d].items
StartedCall(n, d) == ver' = ver /\ rpc'[n][d].items = Request(n, d)
CallStep ==
    /\ Matrix(rpc')
    /\ \A n, d \in Node : rpc'[n][d] # NoRpc =>
          CallShape(rpc'[n][d]) /\ (SameCall(n, d) \/ StartedCall(n, d))

\* A step that does to versions, tables and calls what every step may keeps the
\* invariant.
LEMMA StepOwned ==
    ASSUME SyncConstants, SyncTypes, Owned, VersionStep, TableStep, CallStep
    PROVE  SyncTypes' /\ Owned'
<1>0. \A n, p \in Node, k \in Kinds : ver[n][k][p] \in Nat /\ ver'[n][k][p] \in Nat
  BY DEF SyncTypes, VersionStep, Versions
<1>1. ASSUME NEW n \in Node
      PROVE  /\ tables'[n].bitmap \in [Node -> Nat] /\ n \in tables'[n].reach
             /\ \A p \in Node : tables'[n].bitmap[p] <= ver'[p]["conn"][p]
  <2>1. CASE SameTables(n)
    <3>1. ASSUME NEW p \in Node PROVE tables[n].bitmap[p] <= ver'[p]["conn"][p]
      <4>1. tables[n].bitmap[p] <= ver[p]["conn"][p] /\ tables[n].bitmap[p] \in Nat
        BY DEF Owned, SyncTypes
      <4>2. ver[p]["conn"][p] <= ver'[p]["conn"][p] /\ ver[p]["conn"][p] \in Nat /\ ver'[p]["conn"][p] \in Nat
        BY <1>0 DEF VersionStep, SyncConstants
      <4> QED BY <4>1, <4>2
    <3> QED BY <2>1, <3>1 DEF SameTables, SyncTypes
  <2>2. CASE NewTables(n)
    <3>1. ASSUME NEW p \in Node PROVE tables'[n].bitmap[p] <= ver'[p]["conn"][p]
      <4>1. tables'[n].bitmap[p] <= ver'[n]["conn"][p] /\ tables'[n].bitmap[p] \in Nat
        BY <2>2 DEF NewTables
      <4>2. ver'[n]["conn"][p] <= ver'[p]["conn"][p] /\ ver'[n]["conn"][p] \in Nat /\ ver'[p]["conn"][p] \in Nat
        BY <1>0 DEF VersionStep, SyncConstants
      <4> QED BY <4>1, <4>2
    <3> QED BY <2>2, <3>1 DEF NewTables
  <2> QED BY <2>1, <2>2 DEF TableStep
<1>2. ASSUME NEW n \in Node, NEW d \in Node, rpc'[n][d] # NoRpc
      PROVE  /\ rpc'[n][d].items \in Versions
             /\ \A k \in Kinds, p \in Node : rpc'[n][d].items[k][p] <= ver'[p][k][p]
  <2>1. CASE SameCall(n, d)
    <3>1. rpc[n][d].items \in Versions
      BY <2>1 DEF SameCall, SyncTypes
    <3>2. ASSUME NEW k \in Kinds, NEW p \in Node PROVE rpc[n][d].items[k][p] <= ver'[p][k][p]
      <4>1. rpc[n][d].items[k][p] <= ver[p][k][p] /\ rpc[n][d].items[k][p] \in Nat
        BY <2>1, <3>1 DEF SameCall, Owned, Versions
      <4>2. ver[p][k][p] <= ver'[p][k][p] /\ ver[p][k][p] \in Nat /\ ver'[p][k][p] \in Nat
        BY <1>0 DEF VersionStep
      <4> QED BY <4>1, <4>2
    <3> QED BY <2>1, <3>1, <3>2 DEF SameCall
  <2>2. CASE StartedCall(n, d)
    <3>1. Request(n, d) \in Versions
      BY RequestSent
    <3>2. ASSUME NEW k \in Kinds, NEW p \in Node PROVE Request(n, d)[k][p] <= ver[p][k][p]
      <4>1. Request(n, d)[k][p] \in Nat /\ ver[n][k][p] \in Nat /\ ver[p][k][p] \in Nat
            /\ ver[n][k][p] <= ver[p][k][p]
        BY <1>0, <3>1 DEF Versions, Owned, OwnerNewest
      <4>2. \/ Request(n, d)[k][p] <= ver[n][k][p]
            \/ k = "conn" /\ Request(n, d)[k][p] = tables[n].bitmap[p]
        BY RequestSent
      <4>3. tables[n].bitmap[p] <= ver[p]["conn"][p]
        BY DEF Owned
      <4> QED BY <4>1, <4>2, <4>3
    <3> QED BY <2>2, <3>1, <3>2 DEF StartedCall
  <2> QED BY <1>2, <2>1, <2>2 DEF CallStep
<1>3. ASSUME NEW n \in Node PROVE ver'[n]["peer"][n] > 0
  <2>1. ver[n]["peer"][n] > 0 /\ ver[n]["peer"][n] <= ver'[n]["peer"][n]
        /\ ver[n]["peer"][n] \in Nat /\ ver'[n]["peer"][n] \in Nat
    BY <1>0 DEF Owned, VersionStep, SyncConstants
  <2> QED BY <2>1
<1>4. SyncTypes'
  BY <1>1, <1>2 DEF SyncTypes, VersionStep, TableStep, CallStep
<1> QED BY <1>1, <1>2, <1>3, <1>4 DEF Owned, VersionStep, OwnerNewest

\* Versions that stay.
LEMMA VersionsSame ==
    ASSUME SyncTypes, Owned, ver' = ver
    PROVE  VersionStep
<1>1. \A n, p \in Node, k \in Kinds : ver[n][k][p] \in Nat
  BY DEF SyncTypes, Versions
<1> QED BY <1>1 DEF SyncTypes, Owned, VersionStep, OwnerNewest

\* An owner's next version.
LEMMA VersionsRaised ==
    ASSUME SyncTypes, Owned, NEW n \in Node, NEW k \in Kinds, ver' = [ver EXCEPT ![n][k][n] = @ + 1]
    PROVE  VersionStep
<1>1. \A m, p \in Node, j \in Kinds : ver[m][j][p] \in Nat /\ ver[m][j][p] <= ver[p][j][p]
  BY DEF SyncTypes, Versions, Owned, OwnerNewest
<1>2. ver' \in [Node -> Versions]
  BY <1>1 DEF SyncTypes, Versions
<1>3. ASSUME NEW m \in Node, NEW p \in Node, NEW j \in Kinds
      PROVE  ver'[m][j][p] = IF m = n /\ j = k /\ p = n THEN ver[m][j][p] + 1 ELSE ver[m][j][p]
  BY DEF SyncTypes, Versions
<1>4. ASSUME NEW m \in Node, NEW p \in Node, NEW j \in Kinds
      PROVE  ver'[m][j][p] <= ver'[p][j][p]
  BY <1>1, <1>3
<1>5. ASSUME NEW p \in Node, NEW j \in Kinds PROVE ver[p][j][p] <= ver'[p][j][p]
  BY <1>1, <1>3
<1> QED BY <1>2, <1>4, <1>5 DEF VersionStep

\* Versions that came in a call.
LEMMA VersionsMerged ==
    ASSUME SyncTypes, Owned, NEW d \in Node, NEW items \in Versions,
           \A k \in Kinds, p \in Node : items[k][p] <= ver[p][k][p],
           ver' = [ver EXCEPT ![d] = Merged(@, items)]
    PROVE  VersionStep /\ \A n, p \in Node, k \in Kinds : ver[n][k][p] <= ver'[n][k][p]
<1>1. \A m, p \in Node, j \in Kinds : ver[m][j][p] \in Nat /\ ver[m][j][p] <= ver[p][j][p]
  BY DEF SyncTypes, Versions, Owned, OwnerNewest
<1>2. ver[d] \in Versions /\ ver'[d] = Merged(ver[d], items) /\ \A m \in Node \ {d} : ver'[m] = ver[m]
  BY DEF SyncTypes
<1>3. ver' \in [Node -> Versions]
  BY <1>2, MergedVersions DEF SyncTypes
<1>4. ASSUME NEW n \in Node, NEW p \in Node, NEW k \in Kinds
      PROVE  /\ ver[n][k][p] <= ver'[n][k][p]
             /\ ver'[n][k][p] \in Nat /\ ver'[n][k][p] <= ver[p][k][p]
  <2>1. CASE n = d
    <3>1. /\ ver[d][k][p] <= ver'[d][k][p]
          /\ ver'[d][k][p] = ver[d][k][p] \/ ver'[d][k][p] = items[k][p]
      BY <1>2, MergedVersions
    <3>2. items[k][p] <= ver[p][k][p] /\ items[k][p] \in Nat
      BY DEF Versions
    <3> QED BY <1>1, <2>1, <3>1, <3>2
  <2>2. CASE n # d
    BY <1>1, <1>2, <2>2
  <2> QED BY <2>1, <2>2
<1>5. ASSUME NEW n \in Node, NEW p \in Node, NEW k \in Kinds
      PROVE  ver'[n][k][p] <= ver'[p][k][p]
  <2>1. ver'[n][k][p] <= ver[p][k][p] /\ ver[p][k][p] <= ver'[p][k][p]
        /\ ver'[n][k][p] \in Nat /\ ver[p][k][p] \in Nat /\ ver'[p][k][p] \in Nat
    BY <1>1, <1>4
  <2> QED BY <2>1
<1> QED BY <1>3, <1>4, <1>5 DEF VersionStep

\* Versions of another peer that are forgotten.
LEMMA VersionsRemoved ==
    ASSUME SyncTypes, Owned, NEW n \in Node, NEW q \in Node \ {n},
           ver' = [ver EXCEPT ![n] = Removed(n, q)]
    PROVE  VersionStep
<1>1. \A m, p \in Node, j \in Kinds : ver[m][j][p] \in Nat /\ ver[m][j][p] <= ver[p][j][p]
  BY DEF SyncTypes, Versions, Owned, OwnerNewest
<1>2. Removed(n, q) \in Versions
      /\ \A j \in Kinds, p \in Node : Removed(n, q)[j][p] = IF p = q THEN 0 ELSE ver[n][j][p]
  BY DEF SyncTypes, Versions, Removed
<1>3. ver' \in [Node -> Versions] /\ ver'[n] = Removed(n, q) /\ \A m \in Node \ {n} : ver'[m] = ver[m]
  BY <1>2 DEF SyncTypes
<1>4. ASSUME NEW p \in Node, NEW k \in Kinds PROVE ver'[p][k][p] = ver[p][k][p]
  BY <1>2, <1>3
<1>5. ASSUME NEW m \in Node, NEW p \in Node, NEW k \in Kinds
      PROVE  ver'[m][k][p] <= ver[p][k][p]
  BY <1>1, <1>2, <1>3
<1> QED BY <1>1, <1>3, <1>4, <1>5 DEF VersionStep

\* Tables that stay, or are those of one node, derived from its versions.
LEMMA TablesSame ==
    ASSUME SyncTypes, tables' = tables
    PROVE  TableStep
BY DEF SyncTypes, TableStep, SameTables

\* One node derives its tables.
LEMMA TablesOfOne ==
    ASSUME SyncConstants, SyncTypes, Owned, VersionStep, NEW n \in Node, NEW h,
           \/ tables' = [tables EXCEPT ![n] = Tables(n, ver'[n], h)]
           \/ tables' = [tables EXCEPT ![n] = Derived(n, ver'[n], h)]
    PROVE  TableStep
<1> DEFINE t == Tables(n, ver'[n], h)
<1>1. ver'[n] \in Versions /\ ver'[n]["peer"][n] > 0
  <2>1. ver[n]["peer"][n] \in Nat /\ ver'[n]["peer"][n] \in Nat /\ ver[n]["peer"][n] > 0
        /\ ver[n]["peer"][n] <= ver'[n]["peer"][n]
    BY DEF SyncTypes, SyncConstants, Versions, VersionStep, Owned
  <2> QED BY <2>1 DEF VersionStep
<1>2. /\ t = [reach |-> t.reach, fresh |-> t.fresh, bitmap |-> t.bitmap]
      /\ t.bitmap \in [Node -> Nat] /\ n \in t.reach
      /\ \A p \in Node : t.bitmap[p] <= ver'[n]["conn"][p]
  BY <1>1, TablesDerived
<1> HIDE DEF t
<1>3. CASE tables' = [tables EXCEPT ![n] = t]
  BY <1>2, <1>3, Zenon DEF SyncTypes, TableStep, SameTables, NewTables
<1>4. CASE tables' = [tables EXCEPT ![n] = [tables[n] EXCEPT !.fresh = FALSE]]
  <2> DEFINE u == tables[n]
  <2>0. u = [reach |-> u.reach, fresh |-> u.fresh, bitmap |-> u.bitmap]
    BY DEF SyncTypes
  <2> HIDE DEF u
  <2>4. ASSUME NEW v PROVE [u EXCEPT !.fresh = v] = [reach |-> u.reach, fresh |-> v, bitmap |-> u.bitmap]
    BY <2>0
  <2>3. [u EXCEPT !.fresh = FALSE] = [reach |-> u.reach, fresh |-> FALSE, bitmap |-> u.bitmap]
    BY <2>4, Zenon
  <2>1. [tables[n] EXCEPT !.fresh = FALSE]
          = [reach |-> tables[n].reach, fresh |-> FALSE, bitmap |-> tables[n].bitmap]
    BY <2>3 DEF u
  <2>2. tables' = [tables EXCEPT ![n] = [reach |-> tables[n].reach, fresh |-> FALSE, bitmap |-> tables[n].bitmap]]
    BY <1>4, <2>1, Zenon
  <2> QED BY <2>2, Zenon DEF SyncTypes, TableStep, SameTables
<1> QED BY <1>3, <1>4 DEF Derived, t

\* Calls that stay, end, are noted to be overtaken by a change, or start.
LEMMA CallsSame ==
    ASSUME SyncTypes, rpc' = rpc
    PROVE  CallStep
BY DEF SyncTypes, CallStep, SameCall

\* A call ends.
LEMMA CallEnded ==
    ASSUME SyncTypes, NEW n \in Node, NEW d \in Node, EntrySet(rpc, n, d, NoRpc, rpc')
    PROVE  CallStep
<1>1. /\ Matrix(rpc') /\ rpc'[n][d] = NoRpc
      /\ \A m, e \in Node : m # n \/ e # d => rpc'[m][e] = rpc[m][e]
  BY EntryReplaced DEF SyncTypes
<1> QED BY <1>1 DEF SyncTypes, CallStep, SameCall

\* A call starts.
LEMMA CallStarted ==
    ASSUME SyncTypes, NEW n \in Node, NEW d \in Node, ver' = ver,
           EntrySet(rpc, n, d, NewCall(n, d, Request(n, d)), rpc')
    PROVE  CallStep
<1>1. /\ Matrix(rpc') /\ rpc'[n][d] = NewCall(n, d, Request(n, d))
      /\ \A m, e \in Node : m # n \/ e # d => rpc'[m][e] = rpc[m][e]
  BY EntryReplaced DEF SyncTypes
<1>3. CallShape(NewCall(n, d, Request(n, d))) /\ NewCall(n, d, Request(n, d)).items = Request(n, d)
  BY DEF CallShape, NewCall
<1> QED BY <1>1, <1>3 DEF SyncTypes, CallStep, SameCall, StartedCall

\* Changes during the calls of n leave a call or none for every node.
LEMMA CallsRow ==
    ASSUME NEW n \in Node, NEW I
    PROVE  Row(CallsTouched(n, I))
BY DEF CallsTouched, Row

\* Changes during the calls of n leave their items and answers.
LEMMA CallsOvertaken ==
    ASSUME SyncTypes, NEW n \in Node, NEW I
    PROVE  \A d \in Node :
                 /\ CallsTouched(n, I)[d] = NoRpc <=> rpc[n][d] = NoRpc
                 /\ rpc[n][d] # NoRpc => /\ CallShape(CallsTouched(n, I)[d])
                                           /\ CallsTouched(n, I)[d].items = rpc[n][d].items
                                           /\ CallsTouched(n, I)[d].answer = rpc[n][d].answer
<1>1. ASSUME NEW d \in Node, rpc[n][d] # NoRpc
      PROVE  CallsTouched(n, I)[d] = [id |-> rpc[n][d].id, answer |-> rpc[n][d].answer,
                                        items |-> rpc[n][d].items, since |-> rpc[n][d].since \cup I]
  <2>1. rpc[n][d] = [id |-> rpc[n][d].id, answer |-> rpc[n][d].answer,
                     items |-> rpc[n][d].items, since |-> rpc[n][d].since]
    BY <1>1 DEF SyncTypes, CallShape
  <2> QED BY <1>1, <2>1 DEF CallsTouched
<1>2. ASSUME NEW d \in Node, rpc[n][d] = NoRpc PROVE CallsTouched(n, I)[d] = NoRpc
  BY <1>2 DEF CallsTouched
<1>3. ASSUME NEW a, NEW b, NEW c, NEW e
      PROVE  [id |-> a, answer |-> b, items |-> c, since |-> e] # NoRpc
  BY DEF NoRpc
<1> SUFFICES ASSUME NEW d \in Node, rpc[n][d] # NoRpc
             PROVE  /\ CallsTouched(n, I)[d] # NoRpc /\ CallShape(CallsTouched(n, I)[d])
                    /\ CallsTouched(n, I)[d].items = rpc[n][d].items
                    /\ CallsTouched(n, I)[d].answer = rpc[n][d].answer
  BY <1>2
<1>4. CallsTouched(n, I)[d] # NoRpc
  BY <1>1, <1>3, Zenon
<1> DEFINE r == CallsTouched(n, I)[d]
           w == rpc[n][d].id
           x == rpc[n][d].answer
           y == rpc[n][d].items
           z == rpc[n][d].since \cup I
<1>5. r = [id |-> w, answer |-> x, items |-> y, since |-> z]
  BY <1>1
<1>6. CallShape(r) /\ r.items = y /\ r.answer = x
  <2> HIDE DEF r, w, x, y, z
  <2> QED BY <1>5 DEF CallShape
<1> QED BY <1>4, <1>6

\* No call starts, and none is answered.
AnswersSame ==
    \A n, d \in Node : rpc'[n][d] # NoRpc => SameCall(n, d) /\ rpc'[n][d].answer = rpc[n][d].answer

\* Items change during the calls of n.
LEMMA CallsOvertakenStep ==
    ASSUME SyncTypes, NEW n \in Node, NEW I, RowSet(rpc, n, CallsTouched(n, I), rpc')
    PROVE  CallStep /\ AnswersSame
<1>1. Matrix(rpc') /\ rpc'[n] = CallsTouched(n, I) /\ \A m \in Node \ {n} : rpc'[m] = rpc[m]
  BY CallsRow, RowReplaced DEF SyncTypes
<1>2. ASSUME NEW m \in Node, NEW d \in Node, rpc'[m][d] # NoRpc
      PROVE  CallShape(rpc'[m][d]) /\ SameCall(m, d) /\ rpc'[m][d].answer = rpc[m][d].answer
  <2>1. CASE m = n
    <3>1. rpc[n][d] # NoRpc
      BY <1>1, <1>2, <2>1, CallsOvertaken
    <3> QED BY <1>1, <2>1, <3>1, CallsOvertaken DEF SameCall
  <2>2. CASE m # n
    BY <1>1, <1>2, <2>2 DEF SyncTypes, SameCall
  <2> QED BY <2>1, <2>2
<1> QED BY <1>1, <1>2 DEF CallStep, AnswersSame

\* The call of n is answered, and the calls of d are overtaken by what it brings.
LEMMA CallHandled ==
    ASSUME SyncTypes, NEW n \in Node, NEW d \in Node, NEW I, NEW a, rpc[n][d] # NoRpc,
           NEW calls, RowSet(rpc, d, CallsTouched(d, I), calls),
           EntrySet(calls, n, d, [calls[n][d] EXCEPT !.answer = a], rpc')
    PROVE  /\ CallStep
           /\ \A m, e \in Node : rpc'[m][e] # NoRpc =>
                 SameCall(m, e) /\ (m # n \/ e # d => rpc'[m][e].answer = rpc[m][e].answer)
<1> DEFINE r == calls[n][d]
           answered == [id |-> r.id, answer |-> a, items |-> r.items, since |-> r.since]
<1>1. Matrix(calls) /\ calls[d] = CallsTouched(d, I) /\ \A m \in Node \ {d} : calls[m] = rpc[m]
  BY CallsRow, RowReplaced DEF SyncTypes
<1>3. ASSUME NEW m \in Node, NEW e \in Node
      PROVE  /\ calls[m][e] = NoRpc <=> rpc[m][e] = NoRpc
             /\ rpc[m][e] # NoRpc => /\ CallShape(calls[m][e])
                                     /\ calls[m][e].items = rpc[m][e].items
                                     /\ calls[m][e].answer = rpc[m][e].answer
  <2>1. CASE m = d
    BY <1>1, <2>1, CallsOvertaken
  <2>2. CASE m # d
    BY <1>1, <2>2 DEF SyncTypes
  <2> QED BY <2>1, <2>2
<1>4. [r EXCEPT !.answer = a] = answered
  <2>1. r = [id |-> r.id, answer |-> r.answer, items |-> r.items, since |-> r.since]
    BY <1>3 DEF CallShape
  <2> HIDE DEF r
  <2> QED BY <2>1
<1>5. CallShape(answered) /\ answered.items = r.items
  <2> HIDE DEF r
  <2> QED BY DEF CallShape
<1> HIDE DEF answered
<1>6. EntrySet(calls, n, d, answered, rpc')
  BY <1>4
<1>7. /\ Matrix(rpc') /\ rpc'[n][d] = answered
      /\ \A m, e \in Node : m # n \/ e # d => rpc'[m][e] = calls[m][e]
  BY <1>1, <1>6, EntryReplaced
<1>8. ASSUME NEW m \in Node, NEW e \in Node, rpc'[m][e] # NoRpc
      PROVE  /\ CallShape(rpc'[m][e]) /\ SameCall(m, e)
             /\ m # n \/ e # d => rpc'[m][e].answer = rpc[m][e].answer
  <2>1. CASE m = n /\ e = d
    BY <1>3, <1>5, <1>7, <2>1 DEF SameCall
  <2>2. CASE ~ (m = n /\ e = d)
    <3>1. rpc'[m][e] = calls[m][e]
      BY <1>7, <2>2
    <3>2. rpc[m][e] # NoRpc
      BY <1>3, <1>8, <3>1
    <3> QED BY <1>3, <3>1, <3>2 DEF SameCall
  <2> QED BY <2>1, <2>2
<1> QED BY <1>7, <1>8 DEF CallStep

\* At first every node has every item in its first version.
LEMMA SyncInit ==
    ASSUME SyncConstants, Init
    PROVE  SyncTypes /\ Owned
<1>1. ver \in [Node -> Versions] /\ \A n, p \in Node, k \in Kinds : ver[n][k][p] = 1
  BY DEF Init, Versions
<1>2. \A n \in Node : tables[n] = Tables(n, ver[n], hist)
  BY DEF Init
<1>3. ASSUME NEW n \in Node
      PROVE  /\ tables[n] = [reach |-> tables[n].reach, fresh |-> tables[n].fresh,
                             bitmap |-> tables[n].bitmap]
             /\ tables[n].bitmap \in [Node -> Nat] /\ n \in tables[n].reach
             /\ \A p \in Node : tables[n].bitmap[p] <= ver[n]["conn"][p]
  <2>1. ver[n] \in Versions /\ ver[n]["peer"][n] > 0
    BY <1>1 DEF SyncConstants
  <2> QED BY <1>2, <2>1, TablesDerived
<1>4. tables = [n \in Node |-> tables[n]]
  BY DEF Init
<1>5. Matrix(rpc) /\ \A n, d \in Node : rpc[n][d] = NoRpc
  BY DEF Init, Matrix, Row
<1>6. SyncTypes
  BY <1>1, <1>3, <1>4, <1>5 DEF SyncTypes
<1>7. \A n, p \in Node : tables[n].bitmap[p] <= ver[p]["conn"][p]
  <2>1. \A n, p \in Node : ver[n]["conn"][p] = ver[p]["conn"][p]
    BY <1>1 DEF SyncConstants
  <2> QED BY <1>3, <2>1, Zenon
<1>8. \A n, p \in Node, k \in Kinds : ver[n][k][p] <= ver[p][k][p] /\ ver[n]["peer"][n] > 0
  BY <1>1 DEF SyncConstants
<1> QED BY <1>5, <1>6, <1>7, <1>8 DEF Owned, OwnerNewest, SyncConstants

\* Every step is one of versions, of tables and of calls.
LEMMA SyncSteps ==
    ASSUME SyncConstants, SyncTypes, Owned, [Next]_vars
    PROVE  VersionStep /\ TableStep /\ CallStep
<1> USE SyncConstants, SyncTypes, Owned
<1>1. ASSUME UNCHANGED <<ver, tables, rpc>> PROVE VersionStep /\ TableStep /\ CallStep
  BY <1>1, VersionsSame, TablesSame, CallsSame
<1>2. ASSUME NEW n \in Node, NEW d \in Node, Sync(n, d) PROVE VersionStep /\ TableStep /\ CallStep
  <2>1. ver' = ver /\ tables' = tables
        /\ rpc' = IF Request(n, d) = Nothing THEN rpc
                  ELSE [rpc EXCEPT ![n][d] = NewCall(n, d, Request(n, d))]
    BY <1>2 DEF Sync
  <2>2. CallStep
    <3>1. CASE rpc' = rpc
      BY <3>1, CallsSame
    <3>2. CASE EntrySet(rpc, n, d, NewCall(n, d, Request(n, d)), rpc')
      BY <2>1, <3>2, CallStarted, Zenon
    <3> QED BY <2>1, <3>1, <3>2 DEF EntrySet
  <2> QED BY <2>1, <2>2, VersionsSame, TablesSame
<1>3. ASSUME NEW n \in Node, NEW d \in Node, Handle(n, d) PROVE VersionStep /\ TableStep /\ CallStep
  <2> DEFINE items == rpc[n][d].items
             fresh == {i \in Timed \X Node : items[i[1]][i[2]] > ver[d][i[1]][i[2]]}
             s == IF sess[d][n] = NoSession THEN NewSession(born[d][n] + 1) ELSE sess[d][n]
  <2>1. /\ rpc[n][d] # NoRpc
        /\ ver' = [ver EXCEPT ![d] = Merged(@, items)]
        /\ tables' = [tables EXCEPT ![d] = Derived(d, ver'[d], hist)]
        /\ rpc' = [[rpc EXCEPT ![d] = CallsTouched(d, fresh)] EXCEPT ![n][d].answer = s.id]
    BY <1>3, Zenon DEF Handle
  <2> DEFINE calls == [rpc EXCEPT ![d] = CallsTouched(d, fresh)]
  <2>6. RowSet(rpc, d, CallsTouched(d, fresh), calls) /\ EntrySet(calls, n, d, [calls[n][d] EXCEPT !.answer = s.id], rpc')
    <3> HIDE DEF s, fresh
    <3> QED BY <2>1 DEF RowSet, EntrySet
  <2> HIDE DEF calls
  <2> HIDE DEF fresh, s
  <2>2. items \in Versions /\ \A k \in Kinds, p \in Node : items[k][p] <= ver[p][k][p]
    BY <2>1 DEF SyncTypes, Owned
  <2> HIDE DEF items
  <2>3. VersionStep
    BY <2>1, <2>2, VersionsMerged, Zenon
  <2>4. TableStep
    BY <2>1, <2>3, TablesOfOne, Zenon
  <2>5. CallStep
    BY <2>1, <2>6, CallHandled, Zenon
  <2> QED BY <2>3, <2>4, <2>5
<1>4. ASSUME NEW n \in Node, NEW d \in Node, Answered(n, d) \/ Fail(n, d) \/ StopSession(n, d)
      PROVE  VersionStep /\ TableStep /\ CallStep
  <2>1. ver' = ver /\ tables' = tables /\ EntrySet(rpc, n, d, NoRpc, rpc')
    BY <1>4 DEF Answered, Fail, StopSession, EntrySet
  <2> QED BY <2>1, VersionsSame, TablesSame, CallEnded
<1>5. ASSUME NEW n \in Node, NEW d \in Node, StartSession(n, d) \/ CleanSaved(n, d)
      PROVE  UNCHANGED <<ver, tables, rpc>>
  BY <1>5 DEF StartSession, CleanSaved
<1>6. ASSUME NEW n \in Node, NEW d \in Node, Expire(n, d) PROVE VersionStep /\ TableStep /\ CallStep
  <2>1. /\ d # n /\ ver' = [ver EXCEPT ![n] = Removed(n, d)] /\ rpc' = rpc
        /\ tables' = [tables EXCEPT ![n] = Derived(n, ver'[n], hist)]
    BY <1>6, Zenon DEF Expire, Reachable, SyncTypes
  <2>2. VersionStep
    BY <2>1, VersionsRemoved, Zenon
  <2> QED BY <2>1, <2>2, TablesOfOne, CallsSame, Zenon
<1>7. ASSUME NEW n \in Node, UpdateConns(n) PROVE VersionStep /\ TableStep /\ CallStep
  <2>1. /\ ver' = [ver EXCEPT ![n]["conn"][n] = @ + 1]
        /\ RowSet(rpc, n, CallsTouched(n, {<<"conn", n>>}), rpc')
        /\ tables' = [tables EXCEPT ![n] = Derived(n, ver'[n], hist')]
    BY <1>7 DEF UpdateConns, RowSet
  <2>2. VersionStep
    BY <2>1, VersionsRaised, Zenon DEF SyncConstants
  <2> QED BY <2>1, <2>2, TablesOfOne, CallsOvertakenStep, Zenon
<1>8. ASSUME NEW n \in Node, Refresh(n) PROVE VersionStep /\ TableStep /\ CallStep
  <2>1. ver' = ver /\ rpc' = rpc /\ tables' = [tables EXCEPT ![n] = Tables(n, ver'[n], hist)]
    BY <1>8 DEF Refresh
  <2>2. VersionStep
    BY <2>1, VersionsSame
  <2> QED BY <2>1, <2>2, TablesOfOne, CallsSame, Zenon
<1>9. ASSUME NEW n \in Node, NEW k \in Kinds, Update(n, k) PROVE VersionStep /\ TableStep /\ CallStep
  <2> DEFINE I == {<<k, n>>} \cap (Timed \X Node)
  <2>1. /\ ver' = [ver EXCEPT ![n][k][n] = @ + 1]
        /\ RowSet(rpc, n, CallsTouched(n, I), rpc')
        /\ tables' = [tables EXCEPT ![n] = IF k = "foreign" THEN @ ELSE Derived(n, ver'[n], hist)]
    BY <1>9 DEF Update, RowSet
  <2> HIDE DEF I
  <2>2. VersionStep
    BY <2>1, VersionsRaised, Zenon
  <2>3. TableStep
    <3>1. CASE k = "foreign"
      <4>1. tables' = tables
        BY <2>1, <3>1 DEF SyncTypes
      <4> QED BY <4>1, TablesSame
    <3>2. CASE k # "foreign"
      <4>1. tables' = [tables EXCEPT ![n] = Derived(n, ver'[n], hist)]
        BY <2>1, <3>2
      <4> QED BY <2>2, <4>1, TablesOfOne, Zenon
    <3> QED BY <3>1, <3>2
  <2> QED BY <2>1, <2>2, <2>3, CallsOvertakenStep
<1>10. ASSUME NEW l \in Links, LinkDown(l) \/ LinkUp(l) PROVE UNCHANGED <<ver, tables, rpc>>
  BY <1>10 DEF LinkDown, LinkUp
<1>11. ASSUME UNCHANGED vars PROVE UNCHANGED <<ver, tables, rpc>>
  BY <1>11 DEF vars
<1> QED BY <1>1, <1>2, <1>3, <1>4, <1>5, <1>6, <1>7, <1>8, <1>9, <1>10, <1>11 DEF Next

\* For any nodes, links, updates, failures and broken links, with items that expire
\* and tables that lag behind or not, nobody has a newer version of an item than its
\* owner: no sequence of pushes and merges (update_peer_infos, update_conn_info,
\* update_foreign_network) makes a version its owner did not assign.
THEOREM OwnerNewestHolds ==
    ASSUME SyncConstants
    PROVE  Spec => []OwnerNewest
<1>1. SyncTypes /\ Owned /\ [Next]_vars => (SyncTypes /\ Owned)'
  BY SyncSteps, StepOwned
<1>2. Init => SyncTypes /\ Owned
  BY SyncInit
<1>3. Owned => OwnerNewest
  BY DEF Owned
<1> QED BY <1>1, <1>2, <1>3, PTL DEF Spec

\* What a session believes of its partner, and a call under way, are covered by
\* what the nodes have.
SessionShape(s) ==
    s = [id |-> s.id, dst |-> s.dst, saved |-> s.saved, recent |-> s.recent, withheld |-> s.withheld]

\* The part of the types of sessions that the argument uses.
SessionTypes ==
    /\ Matrix(sess)
    /\ \A n, d \in Node : sess[n][d] # NoSession => SessionShape(sess[n][d]) /\ sess[n][d].saved \in Versions
    /\ \A n, d \in Node : rpc[n][d] # NoRpc => sess[n][d] # NoSession

\* What a session counts as held by the partner, and what an answered call has
\* delivered, the partner has; what is on the way its sender has.
Covered ==
    /\ SavedIsHeld
    /\ \A n, p \in Node : tables[n].bitmap[p] <= ver[n]["conn"][p]
    /\ \A n, d \in Node : rpc[n][d] # NoRpc =>
          \A k \in Kinds, p \in Node :
             /\ rpc[n][d].items[k][p] <= ver[n][k][p]
             /\ rpc[n][d].answer # 0 => rpc[n][d].items[k][p] <= ver[d][k][p]

\* What a step may do to the versions, sessions and answers while nothing is
\* forgotten.
Growing == \A n, p \in Node, k \in Kinds : ver[n][k][p] <= ver'[n][k][p]

\* A step leaves what a session counts as held, or counts what the partner has.
SessionStep ==
    /\ Matrix(sess')
    /\ \A n, d \in Node : sess'[n][d] # NoSession =>
          /\ SessionShape(sess'[n][d]) /\ sess'[n][d].saved \in Versions
          /\ \A k \in Kinds, p \in Node :
                \/ sess[n][d] # NoSession /\ sess'[n][d].saved[k][p] = sess[n][d].saved[k][p]
                \/ sess'[n][d].saved[k][p] <= ver'[d][k][p]
    /\ \A n, d \in Node : rpc'[n][d] # NoRpc => sess'[n][d] # NoSession

\* A step leaves a call as answered as it was, or its items have been merged.
AnswerStep ==
    \A n, d \in Node : rpc'[n][d] # NoRpc /\ rpc'[n][d].answer # 0 =>
        \/ SameCall(n, d) /\ rpc[n][d].answer = rpc'[n][d].answer
        \/ \A k \in Kinds, p \in Node : rpc'[n][d].items[k][p] <= ver'[d][k][p]

\* A step that does to sessions and answers what every step may keeps the invariant.
LEMMA StepCovered ==
    ASSUME SyncConstants, SyncTypes, SyncTypes', SessionTypes, Covered,
           TableStep, CallStep, Growing, SessionStep, AnswerStep
    PROVE  SessionTypes' /\ Covered'
<1>0. \A n, p \in Node, k \in Kinds :
         ver[n][k][p] \in Nat /\ ver'[n][k][p] \in Nat /\ ver[n][k][p] <= ver'[n][k][p]
  BY DEF SyncTypes, Versions, Growing
<1>1. ASSUME NEW n \in Node, NEW p \in Node PROVE tables'[n].bitmap[p] <= ver'[n]["conn"][p]
  <2>1. CASE SameTables(n)
    <3>1. tables[n].bitmap[p] <= ver[n]["conn"][p] /\ tables[n].bitmap[p] \in Nat
      BY DEF Covered, SyncTypes
    <3>2. ver[n]["conn"][p] <= ver'[n]["conn"][p] /\ ver[n]["conn"][p] \in Nat /\ ver'[n]["conn"][p] \in Nat
      BY <1>0 DEF SyncConstants
    <3>3. tables'[n].bitmap[p] = tables[n].bitmap[p]
      BY <2>1 DEF SameTables
    <3> QED BY <3>1, <3>2, <3>3
  <2> QED BY <2>1 DEF TableStep, NewTables
<1>2. ASSUME NEW n \in Node, NEW d \in Node, rpc'[n][d] # NoRpc, NEW k \in Kinds, NEW p \in Node
      PROVE  rpc'[n][d].items[k][p] <= ver'[n][k][p]
  <2>0. rpc'[n][d].items[k][p] \in Nat
    BY <1>2 DEF SyncTypes, Versions
  <2>1. CASE SameCall(n, d)
    <3>1. rpc'[n][d].items[k][p] <= ver[n][k][p]
      BY <2>1 DEF SameCall, Covered
    <3> QED BY <1>0, <2>0, <3>1
  <2>2. CASE StartedCall(n, d)
    <3>1. \/ rpc'[n][d].items[k][p] <= ver[n][k][p]
          \/ k = "conn" /\ rpc'[n][d].items[k][p] = tables[n].bitmap[p]
      BY <2>2, RequestSent DEF StartedCall
    <3>2. tables[n].bitmap[p] <= ver[n]["conn"][p]
      BY DEF Covered
    <3> QED BY <1>0, <2>0, <3>1, <3>2
  <2> QED BY <1>2, <2>1, <2>2 DEF CallStep
<1>3. ASSUME NEW n \in Node, NEW d \in Node, rpc'[n][d] # NoRpc, rpc'[n][d].answer # 0,
             NEW k \in Kinds, NEW p \in Node
      PROVE  rpc'[n][d].items[k][p] <= ver'[d][k][p]
  <2>0. rpc'[n][d].items[k][p] \in Nat
    BY <1>3 DEF SyncTypes, Versions
  <2>1. CASE SameCall(n, d) /\ rpc[n][d].answer = rpc'[n][d].answer
    <3>1. rpc'[n][d].items[k][p] <= ver[d][k][p]
      BY <1>3, <2>1 DEF SameCall, Covered
    <3> QED BY <1>0, <2>0, <3>1
  <2> QED BY <1>3, <2>1 DEF AnswerStep
<1>4. ASSUME NEW n \in Node, NEW d \in Node, sess'[n][d] # NoSession, NEW k \in Kinds, NEW p \in Node
      PROVE  sess'[n][d].saved[k][p] <= ver'[d][k][p]
  <2>1. CASE sess[n][d] # NoSession /\ sess'[n][d].saved[k][p] = sess[n][d].saved[k][p]
    <3>1. sess'[n][d].saved[k][p] \in Nat
      BY <1>4 DEF SessionStep, Versions
    <3>2. sess[n][d].saved[k][p] <= ver[d][k][p]
      BY <2>1 DEF Covered, SavedIsHeld
    <3> QED BY <1>0, <2>1, <3>1, <3>2
  <2> QED BY <1>4, <2>1 DEF SessionStep
<1>5. SessionTypes'
  BY DEF SessionTypes, SessionStep
<1> QED BY <1>1, <1>2, <1>3, <1>4, <1>5 DEF Covered, SavedIsHeld

\* update_dst_session_id keeps the versions saved, or drops them.
LEMMA MetKeeps ==
    ASSUME NEW s, NEW id, SessionShape(s), s.saved \in Versions
    PROVE  /\ SessionShape(Met(s, id)) /\ Met(s, id).saved \in Versions
           /\ \A k \in Kinds, p \in Node :
                 Met(s, id).saved[k][p] = s.saved[k][p] \/ Met(s, id).saved[k][p] = 0
<1> DEFINE kept == [k \in Kinds |-> IF k \in Timed THEN Nothing[k] ELSE s.saved[k]]
<1>1. kept \in Versions /\ \A k \in Kinds, p \in Node : kept[k][p] = s.saved[k][p] \/ kept[k][p] = 0
  BY DEF Versions, Nothing
<1> HIDE DEF kept
<1>2. CASE s.dst = id
  BY <1>2 DEF Met
<1>3. CASE s.dst # id
  <2>1. Met(s, id) = [s EXCEPT !.dst = id, !.recent = Timed \X Node, !.withheld = Nothing, !.saved = kept]
    BY <1>3, Zenon DEF Met, kept
  <2>2. Met(s, id) = [id |-> s.id, dst |-> id, saved |-> kept, recent |-> Timed \X Node, withheld |-> Nothing]
    BY <2>1, Zenon DEF SessionShape
  <2> QED BY <1>1, <2>2 DEF SessionShape
<1> QED BY <1>2, <1>3

\* What is added to the versions saved is what was sent, without the partner's own.
LEMMA SavedMerged ==
    ASSUME NEW f \in Versions, NEW items \in Versions, NEW q \in Node
    PROVE  /\ Merged(f, Except(items, q)) \in Versions
           /\ \A k \in Kinds, p \in Node :
                 \/ Merged(f, Except(items, q))[k][p] = f[k][p]
                 \/ Merged(f, Except(items, q))[k][p] = items[k][p]
                 \/ Merged(f, Except(items, q))[k][p] = 0
<1>1. /\ Except(items, q) \in Versions
      /\ \A k \in Kinds, p \in Node : Except(items, q)[k][p] = items[k][p] \/ Except(items, q)[k][p] = 0
  BY DEF Except, Versions
<1> HIDE DEF Except
<1>2. /\ Merged(f, Except(items, q)) \in Versions
      /\ \A k \in Kinds, p \in Node :
            \/ Merged(f, Except(items, q))[k][p] = f[k][p]
            \/ Merged(f, Except(items, q))[k][p] = Except(items, q)[k][p]
  BY <1>1, MergedVersions
<1> QED BY <1>1, <1>2

\* A change of items only adds to what a session counts as changed.
LEMMA TouchedKeeps ==
    ASSUME NEW ss, NEW I, NEW d \in Node, ss[d] # NoSession => SessionShape(ss[d])
    PROVE  /\ Touched(ss, I)[d] = NoSession <=> ss[d] = NoSession
           /\ ss[d] # NoSession => /\ SessionShape(Touched(ss, I)[d])
                                     /\ Touched(ss, I)[d].saved = ss[d].saved
<1>1. Touched(ss, I)[d] = IF ss[d] = NoSession THEN NoSession ELSE [ss[d] EXCEPT !.recent = @ \cup I]
  BY DEF Touched
<1>3. CASE ss[d] # NoSession
  <2> DEFINE s == ss[d]
  <2>1. s = [id |-> s.id, dst |-> s.dst, saved |-> s.saved, recent |-> s.recent, withheld |-> s.withheld]
    BY <1>3 DEF SessionShape
  <2> HIDE DEF s
  <2>2. [s EXCEPT !.recent = @ \cup I]
          = [id |-> s.id, dst |-> s.dst, saved |-> s.saved, recent |-> s.recent \cup I, withheld |-> s.withheld]
    BY <2>1
  <2>3. Touched(ss, I)[d]
          = [id |-> s.id, dst |-> s.dst, saved |-> s.saved, recent |-> s.recent \cup I, withheld |-> s.withheld]
    BY <1>1, <1>3, <2>2 DEF s
  <2>4. Touched(ss, I)[d] # NoSession
    BY <2>3 DEF NoSession
  <2>5. SessionShape(Touched(ss, I)[d]) /\ Touched(ss, I)[d].saved = s.saved
    BY <2>3 DEF SessionShape
  <2> QED BY <1>3, <2>4, <2>5 DEF s
<1>4. CASE ss[d] = NoSession
  BY <1>1, <1>4
<1> QED BY <1>3, <1>4

\* A new session counts nothing as held.
LEMMA NewSessionShape ==
    ASSUME NEW id
    PROVE  /\ SessionShape(NewSession(id)) /\ NewSession(id).saved = Nothing
           /\ Nothing \in Versions /\ \A k \in Kinds, p \in Node : Nothing[k][p] = 0
           /\ NewSession(id) # NoSession
<1>1. NewSession(id) # NoSession
  BY DEF NewSession, NoSession
<1> QED BY <1>1 DEF NewSession, SessionShape, Nothing, Versions

\* A session of n with d may become s.
Warranted(n, d, s) ==
    /\ s # NoSession /\ SessionShape(s) /\ s.saved \in Versions
    /\ \A k \in Kinds, p \in Node :
          \/ sess[n][d] # NoSession /\ s.saved[k][p] = sess[n][d].saved[k][p]
          \/ s.saved[k][p] <= ver'[d][k][p]

\* The sessions of d become row, with s for n, and then count I as changed.
RowTouched(n, d, s, row, I) ==
    /\ row[n] = s /\ \A e \in Node \ {n} : row[e] = sess[d][e]
    /\ RowSet(sess, d, Touched(row, I), sess')

\* No call starts.
NoNewCall == \A n, d \in Node : rpc'[n][d] # NoRpc => rpc[n][d] # NoRpc

\* Changed items leave a session or none for every node.
LEMMA TouchedRow ==
    ASSUME NEW ss, NEW I
    PROVE  Row(Touched(ss, I))
BY DEF Touched, Row

\* Every step changes the session of one node with one partner, or what the
\* sessions of one node count as changed.
LEMMA SessionsSame ==
    ASSUME SessionTypes, sess' = sess, NoNewCall
    PROVE  SessionStep
BY DEF SessionTypes, SessionStep, NoNewCall

\* The session of one node with one partner changes.
LEMMA OneSession ==
    ASSUME SessionTypes, NEW n \in Node, NEW d \in Node, NEW s, Warranted(n, d, s),
           EntrySet(sess, n, d, s, sess'),
           \A m, e \in Node : m # n \/ e # d => rpc'[m][e] = rpc[m][e]
    PROVE  SessionStep
<1>1. /\ Matrix(sess') /\ sess'[n][d] = s
      /\ \A m, e \in Node : m # n \/ e # d => sess'[m][e] = sess[m][e]
  BY EntryReplaced DEF SessionTypes
<1>2. ASSUME NEW m \in Node, NEW e \in Node, sess'[m][e] # NoSession
      PROVE  /\ SessionShape(sess'[m][e]) /\ sess'[m][e].saved \in Versions
             /\ \A k \in Kinds, p \in Node :
                   \/ sess[m][e] # NoSession /\ sess'[m][e].saved[k][p] = sess[m][e].saved[k][p]
                   \/ sess'[m][e].saved[k][p] <= ver'[e][k][p]
  <2>1. CASE m = n /\ e = d
    BY <1>1, <2>1 DEF Warranted
  <2>2. CASE ~ (m = n /\ e = d)
    BY <1>1, <1>2, <2>2 DEF SessionTypes
  <2> QED BY <2>1, <2>2
<1>3. ASSUME NEW m \in Node, NEW e \in Node, rpc'[m][e] # NoRpc PROVE sess'[m][e] # NoSession
  BY <1>1, <1>3 DEF SessionTypes, Warranted
<1> QED BY <1>1, <1>2, <1>3 DEF SessionStep

\* Items change that the sessions of one node are to push.
LEMMA SessionsTouched ==
    ASSUME SessionTypes, NEW n \in Node, NEW I, RowSet(sess, n, Touched(sess[n], I), sess'), NoNewCall
    PROVE  SessionStep
<1>1. Matrix(sess') /\ sess'[n] = Touched(sess[n], I) /\ \A m \in Node \ {n} : sess'[m] = sess[m]
  BY TouchedRow, RowReplaced DEF SessionTypes
<1>2. ASSUME NEW e \in Node
      PROVE  /\ sess'[n][e] = NoSession <=> sess[n][e] = NoSession
             /\ sess[n][e] # NoSession => SessionShape(sess'[n][e]) /\ sess'[n][e].saved = sess[n][e].saved
  <2>1. sess[n][e] # NoSession => SessionShape(sess[n][e])
    BY DEF SessionTypes
  <2> QED BY <1>1, <2>1, TouchedKeeps
<1>3. ASSUME NEW m \in Node, NEW e \in Node, sess'[m][e] # NoSession
      PROVE  /\ SessionShape(sess'[m][e]) /\ sess'[m][e].saved \in Versions
             /\ sess[m][e] # NoSession /\ sess'[m][e].saved = sess[m][e].saved
  <2>1. CASE m = n
    BY <1>2, <1>3, <2>1 DEF SessionTypes
  <2>2. CASE m # n
    BY <1>1, <1>3, <2>2 DEF SessionTypes
  <2> QED BY <2>1, <2>2
<1>4. ASSUME NEW m \in Node, NEW e \in Node, rpc'[m][e] # NoRpc PROVE sess'[m][e] # NoSession
  <2>1. sess[m][e] # NoSession
    BY <1>4 DEF SessionTypes, NoNewCall
  <2>2. CASE m = n
    BY <1>2, <2>1, <2>2
  <2>3. CASE m # n
    BY <1>1, <2>1, <2>3
  <2> QED BY <2>2, <2>3
<1> QED BY <1>1, <1>3, <1>4 DEF SessionStep

\* The session of d with n, created or met by a call, and what the call changes
\* for the other sessions of d.
LEMMA SessionsHandled ==
    ASSUME SessionTypes, NEW n \in Node, NEW d \in Node, NEW I, NEW s, Warranted(d, n, s), NoNewCall,
           NEW row, RowTouched(n, d, s, row, I)
    PROVE  SessionStep
<1>1. Matrix(sess') /\ sess'[d] = Touched(row, I) /\ \A m \in Node \ {d} : sess'[m] = sess[m]
  BY TouchedRow, RowReplaced DEF SessionTypes, RowTouched
<1>2. row[n] = s /\ \A e \in Node \ {n} : row[e] = sess[d][e]
  BY DEF RowTouched
<1>3. ASSUME NEW e \in Node
      PROVE  /\ sess'[d][e] = NoSession <=> row[e] = NoSession
             /\ row[e] # NoSession => SessionShape(sess'[d][e]) /\ sess'[d][e].saved = row[e].saved
  <2>1. row[e] # NoSession => SessionShape(row[e])
    BY <1>2 DEF SessionTypes, Warranted
  <2>2. /\ Touched(row, I)[e] = NoSession <=> row[e] = NoSession
        /\ row[e] # NoSession => /\ SessionShape(Touched(row, I)[e])
                                   /\ Touched(row, I)[e].saved = row[e].saved
    BY <2>1, TouchedKeeps
  <2> QED BY <1>1, <2>2
<1>5. ASSUME NEW m \in Node, NEW e \in Node, sess'[m][e] # NoSession
      PROVE  /\ SessionShape(sess'[m][e]) /\ sess'[m][e].saved \in Versions
             /\ \A k \in Kinds, p \in Node :
                   \/ sess[m][e] # NoSession /\ sess'[m][e].saved[k][p] = sess[m][e].saved[k][p]
                   \/ sess'[m][e].saved[k][p] <= ver'[e][k][p]
  <2>1. CASE m = d /\ e = n
    <3>1. SessionShape(sess'[d][n]) /\ sess'[d][n].saved = s.saved
      BY <1>2, <1>3 DEF Warranted
    <3> QED BY <2>1, <3>1 DEF Warranted
  <2>2. CASE m = d /\ e # n
    <3>1. row[e] = sess[d][e] /\ sess[d][e] # NoSession
      BY <1>2, <1>3, <1>5, <2>2
    <3>2. SessionShape(sess'[d][e]) /\ sess'[d][e].saved = sess[d][e].saved
      BY <1>3, <3>1
    <3> QED BY <2>2, <3>1, <3>2 DEF SessionTypes
  <2>3. CASE m # d
    BY <1>1, <1>5, <2>3 DEF SessionTypes
  <2> QED BY <2>1, <2>2, <2>3
<1>6. ASSUME NEW m \in Node, NEW e \in Node, rpc'[m][e] # NoRpc PROVE sess'[m][e] # NoSession
  <2>1. sess[m][e] # NoSession
    BY <1>6 DEF SessionTypes, NoNewCall
  <2>2. CASE m = d
    <3>1. row[e] # NoSession
      BY <1>2, <2>1, <2>2 DEF Warranted
    <3> QED BY <1>3, <2>2, <3>1
  <2>3. CASE m # d
    BY <1>1, <2>1, <2>3
  <2> QED BY <2>2, <2>3
<1> QED BY <1>1, <1>5, <1>6 DEF SessionStep

\* Sync: the session notes what it withholds.
LEMMA SyncCovered ==
    ASSUME SyncConstants, SyncTypes, SessionTypes, Covered, NEW n \in Node, NEW d \in Node, Sync(n, d)
    PROVE  Growing /\ SessionStep /\ AnswerStep
<1>1. /\ ver' = ver /\ sess[n][d] # NoSession
      /\ rpc' = IF Request(n, d) = Nothing THEN rpc
                ELSE [rpc EXCEPT ![n][d] = NewCall(n, d, Request(n, d))]
      /\ sess' = [sess EXCEPT ![n][d].withheld = Noted(n, d)]
  BY DEF Sync
<1>2. \A m, p \in Node, k \in Kinds : ver[m][k][p] \in Nat
  BY DEF SyncTypes, Versions
<1>3. Growing
  BY <1>1, <1>2 DEF Growing
<1> DEFINE r == NewCall(n, d, Request(n, d))
<1>4. r.answer = 0
  BY DEF NewCall
<1> HIDE DEF r
<1>5. /\ rpc'[n][d] = rpc[n][d] \/ rpc'[n][d] = r
      /\ \A m, e \in Node : m # n \/ e # d => rpc'[m][e] = rpc[m][e]
  <2>1. CASE rpc' = [rpc EXCEPT ![n][d] = r]
    <3>1. EntrySet(rpc, n, d, r, rpc')
      BY <2>1 DEF EntrySet
    <3> QED BY <3>1, EntryReplaced DEF SyncTypes
  <2> QED BY <1>1, <2>1 DEF r
<1>6. AnswerStep
  BY <1>4, <1>5 DEF AnswerStep, SameCall
<1> DEFINE s == sess[n][d]
           t == [id |-> s.id, dst |-> s.dst, saved |-> s.saved, recent |-> s.recent, withheld |-> Noted(n, d)]
<1>7. s = [id |-> s.id, dst |-> s.dst, saved |-> s.saved, recent |-> s.recent, withheld |-> s.withheld]
      /\ s.saved \in Versions
  BY <1>1 DEF SessionTypes, SessionShape
<1>8. [s EXCEPT !.withheld = Noted(n, d)] = t
  <2> HIDE DEF s
  <2> QED BY <1>7
<1>9. EntrySet(sess, n, d, t, sess')
  BY <1>1, <1>8, Zenon DEF EntrySet
<1>10. SessionShape(t) /\ t.saved = s.saved
  <2> HIDE DEF s
  <2> QED BY DEF SessionShape
<1>12. t # NoSession
  <2> HIDE DEF s
  <2> QED BY DEF NoSession
<1> HIDE DEF t
<1>11. SessionStep
  <2>1. \A k \in Kinds, p \in Node : sess[n][d] # NoSession /\ t.saved[k][p] = sess[n][d].saved[k][p]
    BY <1>1, <1>10
  <2>2. Warranted(n, d, t)
    BY <1>7, <1>10, <1>12, <2>1 DEF Warranted
  <2> QED BY <1>5, <1>9, <2>2, OneSession
<1> QED BY <1>3, <1>6, <1>11

\* Handle: the receiver has what the call brought, and so has the sender.
LEMMA HandleCovered ==
    ASSUME SyncConstants, SyncTypes, Owned, SessionTypes, Covered, NEW n \in Node, NEW d \in Node, Handle(n, d)
    PROVE  Growing /\ SessionStep /\ AnswerStep
<1> DEFINE items == rpc[n][d].items
           fresh == {i \in Timed \X Node : items[i[1]][i[2]] > ver[d][i[1]][i[2]]}
           s == IF sess[d][n] = NoSession THEN NewSession(born[d][n] + 1) ELSE sess[d][n]
           m == Met(s, rpc[n][d].id)
           met == [m EXCEPT !.saved = Merged(@, Except(items, n))]
<1>1. /\ rpc[n][d] # NoRpc
      /\ ver' = [ver EXCEPT ![d] = Merged(@, items)]
      /\ rpc' = [[rpc EXCEPT ![d] = CallsTouched(d, fresh)] EXCEPT ![n][d].answer = s.id]
      /\ sess' = [sess EXCEPT ![d] = Touched([@ EXCEPT ![n] = met], fresh)]
  BY Zenon DEF Handle
<1> HIDE DEF fresh
<1>2. /\ items \in Versions /\ \A k \in Kinds, p \in Node : items[k][p] <= ver[p][k][p]
      /\ \A k \in Kinds, p \in Node : items[k][p] <= ver[n][k][p]
  BY <1>1 DEF SyncTypes, Owned, Covered
<1>3. /\ SessionShape(s) /\ s.saved \in Versions
      /\ \A k \in Kinds, p \in Node :
            (sess[d][n] # NoSession /\ s.saved[k][p] = sess[d][n].saved[k][p]) \/ s.saved[k][p] = 0
  <2>1. CASE sess[d][n] = NoSession
    <3>1. s = NewSession(born[d][n] + 1)
      BY <2>1
    <3> HIDE DEF s
    <3> QED BY <3>1, NewSessionShape
  <2>2. CASE sess[d][n] # NoSession
    <3>1. s = sess[d][n]
      BY <2>2
    <3> HIDE DEF s
    <3> QED BY <2>2, <3>1 DEF SessionTypes
  <2> QED BY <2>1, <2>2
<1> HIDE DEF s
<1>4. /\ SessionShape(m) /\ m.saved \in Versions
      /\ \A k \in Kinds, p \in Node : m.saved[k][p] = s.saved[k][p] \/ m.saved[k][p] = 0
  BY <1>3, MetKeeps
<1> HIDE DEF m
<1> DEFINE saved == Merged(m.saved, Except(items, n))
<1>5. met = [id |-> m.id, dst |-> m.dst, saved |-> saved, recent |-> m.recent, withheld |-> m.withheld]
  <2> HIDE DEF items
  <2> QED BY <1>4 DEF SessionShape
<1>6. saved \in Versions
      /\ \A k \in Kinds, p \in Node : saved[k][p] = m.saved[k][p] \/ saved[k][p] = items[k][p] \/ saved[k][p] = 0
  <2> DEFINE f == m.saved
  <2>1. f \in Versions /\ items \in Versions
    BY <1>2, <1>4
  <2> HIDE DEF f, items
  <2>2. /\ Merged(f, Except(items, n)) \in Versions
        /\ \A k \in Kinds, p \in Node :
              \/ Merged(f, Except(items, n))[k][p] = f[k][p]
              \/ Merged(f, Except(items, n))[k][p] = items[k][p]
              \/ Merged(f, Except(items, n))[k][p] = 0
    BY <2>1, SavedMerged
  <2> QED BY <2>2 DEF f
<1> HIDE DEF saved, met
<1>7. SessionShape(met) /\ met.saved = saved
  BY <1>5 DEF SessionShape
<1>8. met # NoSession
  BY <1>5 DEF NoSession
<1> HIDE DEF items
<1>9. Growing
  BY <1>1, <1>2, VersionsMerged, Zenon DEF Growing
<1>10. \A q, p \in Node, k \in Kinds : ver[q][k][p] \in Nat /\ ver'[q][k][p] \in Nat
  <2>1. VersionStep
    BY <1>1, <1>2, VersionsMerged, Zenon
  <2> QED BY <2>1 DEF SyncTypes, VersionStep, Versions
<1>11. ASSUME NEW k \in Kinds, NEW p \in Node
       PROVE  \/ sess[d][n] # NoSession /\ met.saved[k][p] = sess[d][n].saved[k][p]
              \/ met.saved[k][p] <= ver'[n][k][p]
  <2>1. saved[k][p] = m.saved[k][p] \/ saved[k][p] = items[k][p] \/ saved[k][p] = 0
    BY <1>6
  <2>2. m.saved[k][p] = s.saved[k][p] \/ m.saved[k][p] = 0
    BY <1>4
  <2>3. (sess[d][n] # NoSession /\ s.saved[k][p] = sess[d][n].saved[k][p]) \/ s.saved[k][p] = 0
    BY <1>3
  <2>4. items[k][p] <= ver'[n][k][p] /\ 0 <= ver'[n][k][p]
    <3>1. items[k][p] \in Nat /\ items[k][p] <= ver[n][k][p] /\ ver[n][k][p] <= ver'[n][k][p]
          /\ ver[n][k][p] \in Nat /\ ver'[n][k][p] \in Nat
      BY <1>2, <1>9, <1>10 DEF Growing, Versions
    <3> QED BY <3>1
  <2>5. met.saved[k][p] = saved[k][p]
    BY <1>7
  <2> QED BY <2>1, <2>2, <2>3, <2>4, <2>5
<1>12. \A q, e \in Node : rpc'[q][e] # NoRpc =>
          SameCall(q, e) /\ (q # n \/ e # d => rpc'[q][e].answer = rpc[q][e].answer)
  <2> DEFINE calls == [rpc EXCEPT ![d] = CallsTouched(d, fresh)]
  <2>1. RowSet(rpc, d, CallsTouched(d, fresh), calls) /\ EntrySet(calls, n, d, [calls[n][d] EXCEPT !.answer = s.id], rpc')
    BY <1>1 DEF RowSet, EntrySet
  <2> HIDE DEF calls
  <2> QED BY <1>1, <2>1, CallHandled, Zenon
<1>13. SessionStep
  <2>1. met.saved \in Versions
    BY <1>6, <1>7
  <2>2. NoNewCall
    BY <1>12 DEF NoNewCall, SameCall
  <2> DEFINE row == [sess[d] EXCEPT ![n] = met]
  <2>3. sess' = [sess EXCEPT ![d] = Touched(row, fresh)]
    BY <1>1
  <2>4. row[n] = met /\ \A e \in Node \ {n} : row[e] = sess[d][e]
    BY DEF SessionTypes, Matrix, Row
  <2> HIDE DEF row
  <2>5. Warranted(d, n, met) /\ NoNewCall
    BY <1>7, <1>8, <1>11, <2>1, <2>2 DEF Warranted
  <2>6. RowTouched(n, d, met, row, fresh)
    BY <2>3, <2>4 DEF RowTouched, RowSet
  <2> QED BY <2>5, <2>6, SessionsHandled
<1>14. \A k \in Kinds, p \in Node : items[k][p] <= ver'[d][k][p]
  <2>1. ver'[d] = Merged(ver[d], items) /\ ver[d] \in Versions
    BY <1>1 DEF SyncTypes
  <2> QED BY <1>2, <2>1, MergedVersions
<1>15. AnswerStep
  <2> SUFFICES ASSUME NEW q \in Node, NEW e \in Node, rpc'[q][e] # NoRpc, rpc'[q][e].answer # 0
               PROVE  \/ SameCall(q, e) /\ rpc[q][e].answer = rpc'[q][e].answer
                      \/ \A k \in Kinds, p \in Node : rpc'[q][e].items[k][p] <= ver'[e][k][p]
    BY DEF AnswerStep
  <2>1. CASE q = n /\ e = d
    BY <1>12, <1>14, <2>1 DEF items, SameCall
  <2>2. CASE q # n \/ e # d
    BY <1>12, <2>2 DEF SameCall
  <2> QED BY <2>1, <2>2
<1> QED BY <1>9, <1>13, <1>15

\* Answered: the partner has what was sent.
LEMMA AnsweredCovered ==
    ASSUME SyncConstants, SyncTypes, SessionTypes, Covered, NEW n \in Node, NEW d \in Node, Answered(n, d)
    PROVE  Growing /\ SessionStep /\ AnswerStep
<1> DEFINE items == rpc[n][d].items
           m == Met(sess[n][d], rpc[n][d].answer)
           t == [m EXCEPT !.saved = Merged(@, Except(items, d)), !.recent = rpc[n][d].since]
<1>0. sess' = [sess EXCEPT ![n][d] = t]
  BY Zenon DEF Answered
<1> HIDE DEF t
<1>1. /\ rpc[n][d] # NoRpc /\ rpc[n][d].answer # 0 /\ ver' = ver
      /\ rpc' = [rpc EXCEPT ![n][d] = NoRpc]
      /\ sess' = [sess EXCEPT ![n][d] = t]
  BY <1>0, Zenon DEF Answered
<1>2. items \in Versions /\ \A k \in Kinds, p \in Node : items[k][p] <= ver[d][k][p]
  BY <1>1 DEF SyncTypes, Covered
<1>3. sess[n][d] # NoSession /\ SessionShape(sess[n][d]) /\ sess[n][d].saved \in Versions
  BY <1>1 DEF SessionTypes
<1>4. /\ SessionShape(m) /\ m.saved \in Versions
      /\ \A k \in Kinds, p \in Node : m.saved[k][p] = sess[n][d].saved[k][p] \/ m.saved[k][p] = 0
  BY <1>3, MetKeeps
<1> HIDE DEF m
<1> DEFINE saved == Merged(m.saved, Except(items, d))
<1>5. t = [id |-> m.id, dst |-> m.dst, saved |-> saved, recent |-> rpc[n][d].since, withheld |-> m.withheld]
  <2>1. ASSUME NEW f, NEW g
        PROVE  [m EXCEPT !.saved = f, !.recent = g]
                 = [id |-> m.id, dst |-> m.dst, saved |-> f, recent |-> g, withheld |-> m.withheld]
    <3>1. m = [id |-> m.id, dst |-> m.dst, saved |-> m.saved, recent |-> m.recent, withheld |-> m.withheld]
      BY <1>4 DEF SessionShape
    <3>2. [m EXCEPT !.saved = f]
            = [id |-> m.id, dst |-> m.dst, saved |-> f, recent |-> m.recent, withheld |-> m.withheld]
      BY <3>1
    <3> DEFINE u == [m EXCEPT !.saved = f]
    <3>5. u = [id |-> u.id, dst |-> u.dst, saved |-> u.saved, recent |-> u.recent, withheld |-> u.withheld]
      BY <3>2
    <3> HIDE DEF u
    <3>3. [u EXCEPT !.recent = g] = [id |-> u.id, dst |-> u.dst, saved |-> u.saved, recent |-> g, withheld |-> u.withheld]
      BY <3>5
    <3>4. [u EXCEPT !.recent = g] = [id |-> m.id, dst |-> m.dst, saved |-> f, recent |-> g, withheld |-> m.withheld]
      BY <3>2, <3>3 DEF u
    <3> QED BY <3>4, Zenon DEF u
  <2>2. t = [m EXCEPT !.saved = saved, !.recent = rpc[n][d].since]
    BY Zenon DEF t
  <2> QED BY <2>1, <2>2, Zenon
<1>6. saved \in Versions
      /\ \A k \in Kinds, p \in Node : saved[k][p] = m.saved[k][p] \/ saved[k][p] = items[k][p] \/ saved[k][p] = 0
  <2> DEFINE f == m.saved
  <2>1. f \in Versions /\ items \in Versions
    BY <1>2, <1>4
  <2> HIDE DEF f, items
  <2>2. /\ Merged(f, Except(items, d)) \in Versions
        /\ \A k \in Kinds, p \in Node :
              \/ Merged(f, Except(items, d))[k][p] = f[k][p]
              \/ Merged(f, Except(items, d))[k][p] = items[k][p]
              \/ Merged(f, Except(items, d))[k][p] = 0
    BY <2>1, SavedMerged
  <2> QED BY <2>2 DEF f
<1> HIDE DEF saved, t
<1>7. SessionShape(t) /\ t.saved = saved
  BY <1>5 DEF SessionShape
<1>8. t # NoSession
  BY <1>5 DEF NoSession
<1> HIDE DEF items
<1>9. \A q, p \in Node, k \in Kinds : ver[q][k][p] \in Nat
  BY DEF SyncTypes, Versions
<1>10. Growing
  BY <1>1, <1>9 DEF Growing
<1>11. ASSUME NEW k \in Kinds, NEW p \in Node
       PROVE  \/ sess[n][d] # NoSession /\ t.saved[k][p] = sess[n][d].saved[k][p]
              \/ t.saved[k][p] <= ver'[d][k][p]
  <2>1. saved[k][p] = m.saved[k][p] \/ saved[k][p] = items[k][p] \/ saved[k][p] = 0
    BY <1>6
  <2>2. m.saved[k][p] = sess[n][d].saved[k][p] \/ m.saved[k][p] = 0
    BY <1>4
  <2>3. items[k][p] <= ver'[d][k][p] /\ 0 <= ver'[d][k][p]
    BY <1>1, <1>2, <1>9
  <2>4. t.saved[k][p] = saved[k][p]
    BY <1>7
  <2> QED BY <1>3, <2>1, <2>2, <2>3, <2>4
<1>12. rpc'[n][d] = NoRpc /\ \A q, e \in Node : q # n \/ e # d => rpc'[q][e] = rpc[q][e]
  <2>1. EntrySet(rpc, n, d, NoRpc, rpc')
    BY <1>1 DEF EntrySet
  <2> QED BY <2>1, EntryReplaced DEF SyncTypes
<1>13. SessionStep
  <2>1. Warranted(n, d, t)
    BY <1>6, <1>7, <1>8, <1>11 DEF Warranted
  <2>2. EntrySet(sess, n, d, t, sess')
    BY <1>1 DEF EntrySet
  <2> QED BY <1>12, <2>1, <2>2, OneSession
<1>14. AnswerStep
  BY <1>12 DEF AnswerStep, SameCall
<1> QED BY <1>10, <1>13, <1>14

\* The steps that only change what counts as changed, end a call, start or stop
\* a session, or forget what was saved.
LEMMA OthersCovered ==
    ASSUME SyncConstants, SyncTypes, Owned, SessionTypes, Covered, ~ Expiring, [Next]_vars,
           \A n, d \in Node : ~ Sync(n, d) /\ ~ Handle(n, d) /\ ~ Answered(n, d)
    PROVE  Growing /\ SessionStep /\ AnswerStep
<1>0. \A n, p \in Node, k \in Kinds : ver[n][k][p] \in Nat
  BY DEF SyncTypes, Versions
<1>1. ASSUME ver' = ver PROVE Growing
  BY <1>0, <1>1 DEF Growing
<1>2. ASSUME AnswersSame PROVE AnswerStep /\ NoNewCall
  BY <1>2 DEF AnswersSame, AnswerStep, NoNewCall, SameCall
<1>3. ASSUME rpc' = rpc PROVE AnswersSame
  BY <1>3 DEF AnswersSame, SameCall
<1>4. ASSUME NEW n \in Node, NEW k \in Kinds, ver' = [ver EXCEPT ![n][k][n] = @ + 1] PROVE Growing
  <2>1. ASSUME NEW m \in Node, NEW p \in Node, NEW j \in Kinds
        PROVE  ver'[m][j][p] = IF m = n /\ j = k /\ p = n THEN ver[m][j][p] + 1 ELSE ver[m][j][p]
    BY <1>4 DEF SyncTypes, Versions
  <2> QED BY <1>0, <2>1 DEF Growing
<1>5. ASSUME NEW n \in Node, NEW d \in Node, Fail(n, d) PROVE Growing /\ SessionStep /\ AnswerStep
  <2>1. ver' = ver /\ sess' = sess /\ rpc' = [rpc EXCEPT ![n][d] = NoRpc]
    BY <1>5 DEF Fail
  <2>2. rpc'[n][d] = NoRpc /\ \A m, e \in Node : m # n \/ e # d => rpc'[m][e] = rpc[m][e]
    <3>1. EntrySet(rpc, n, d, NoRpc, rpc')
      BY <2>1 DEF EntrySet
    <3> QED BY <3>1, EntryReplaced DEF SyncTypes
  <2>3. AnswersSame
    BY <2>2 DEF AnswersSame, SameCall
  <2> QED BY <1>1, <1>2, <2>1, <2>3, SessionsSame
<1>6. ASSUME NEW n \in Node, NEW d \in Node, StopSession(n, d) PROVE Growing /\ SessionStep /\ AnswerStep
  <2>1. ver' = ver /\ sess' = [sess EXCEPT ![n][d] = NoSession] /\ rpc' = [rpc EXCEPT ![n][d] = NoRpc]
    BY <1>6 DEF StopSession
  <2>2. rpc'[n][d] = NoRpc /\ \A m, e \in Node : m # n \/ e # d => rpc'[m][e] = rpc[m][e]
    <3>1. EntrySet(rpc, n, d, NoRpc, rpc')
      BY <2>1 DEF EntrySet
    <3> QED BY <3>1, EntryReplaced DEF SyncTypes
  <2>3. /\ Matrix(sess') /\ sess'[n][d] = NoSession
        /\ \A m, e \in Node : m # n \/ e # d => sess'[m][e] = sess[m][e]
    <3>1. EntrySet(sess, n, d, NoSession, sess')
      BY <2>1 DEF EntrySet
    <3> QED BY <3>1, EntryReplaced DEF SessionTypes
  <2>5. ASSUME NEW m \in Node, NEW e \in Node, sess'[m][e] # NoSession
        PROVE  sess'[m][e] = sess[m][e] /\ SessionShape(sess[m][e]) /\ sess[m][e].saved \in Versions
    BY <2>3, <2>5 DEF SessionTypes
  <2>6. ASSUME NEW m \in Node, NEW e \in Node, rpc'[m][e] # NoRpc PROVE sess'[m][e] # NoSession
    BY <2>2, <2>3, <2>6 DEF SessionTypes
  <2>7. SessionStep
    BY <2>3, <2>5, <2>6 DEF SessionStep
  <2>8. AnswersSame
    BY <2>2 DEF AnswersSame, SameCall
  <2> QED BY <1>1, <1>2, <2>1, <2>7, <2>8
<1>7. ASSUME NEW n \in Node, NEW d \in Node, StartSession(n, d) PROVE Growing /\ SessionStep /\ AnswerStep
  <2> DEFINE s == NewSession(born'[n][d])
  <2>1. ver' = ver /\ rpc' = rpc /\ sess' = [sess EXCEPT ![n][d] = s]
    BY <1>7 DEF StartSession
  <2>2. SessionShape(s) /\ s # NoSession /\ s.saved \in Versions /\ \A k \in Kinds, p \in Node : s.saved[k][p] = 0
    BY NewSessionShape
  <2> HIDE DEF s
  <2>3. \A k \in Kinds, p \in Node : s.saved[k][p] <= ver'[d][k][p]
    BY <1>0, <2>1, <2>2
  <2>4. SessionStep
    <3>1. Warranted(n, d, s)
      BY <2>2, <2>3 DEF Warranted
    <3>2. EntrySet(sess, n, d, s, sess')
      BY <2>1 DEF EntrySet
    <3> QED BY <2>1, <3>1, <3>2, OneSession, Zenon
  <2> QED BY <1>1, <1>2, <1>3, <2>1, <2>4
<1>8. ASSUME NEW n \in Node, NEW d \in Node, CleanSaved(n, d) PROVE Growing /\ SessionStep /\ AnswerStep
  <2> DEFINE saved == [k \in Kinds |-> Cleaned(n, d, k)]
             s == sess[n][d]
             t == [id |-> s.id, dst |-> s.dst, saved |-> saved, recent |-> s.recent, withheld |-> s.withheld]
  <2>1. ver' = ver /\ rpc' = rpc /\ s # NoSession /\ sess' = [sess EXCEPT ![n][d].saved = saved]
    BY <1>8 DEF CleanSaved
  <2>2. s = [id |-> s.id, dst |-> s.dst, saved |-> s.saved, recent |-> s.recent, withheld |-> s.withheld]
        /\ s.saved \in Versions
    BY <2>1 DEF SessionTypes, SessionShape
  <2>3. ASSUME NEW k \in Kinds, NEW p \in Node PROVE saved[k][p] = s.saved[k][p] \/ saved[k][p] = 0
    BY DEF Cleaned
  <2>4. saved \in Versions
    <3>1. ASSUME NEW k \in Kinds PROVE saved[k] = [p \in Node |-> saved[k][p]]
      BY DEF Cleaned
    <3>2. saved = [k \in Kinds |-> saved[k]]
      OBVIOUS
    <3> HIDE DEF saved, s
    <3>3. \A k \in Kinds, p \in Node : saved[k][p] \in Nat
      BY <2>2, <2>3 DEF Versions
    <3>4. \A k \in Kinds : saved[k] \in [Node -> Nat]
      BY <3>1, <3>3, Zenon
    <3> QED BY <3>2, <3>4 DEF Versions
  <2> HIDE DEF saved
  <2>5. [s EXCEPT !.saved = saved] = t
    <3> HIDE DEF s
    <3> QED BY <2>2
  <2>6. EntrySet(sess, n, d, t, sess')
    BY <2>1, <2>5, Zenon DEF EntrySet
  <2>7. SessionShape(t) /\ t.saved = saved
    <3> HIDE DEF s
    <3> QED BY DEF SessionShape
  <2>8. t # NoSession
    <3> HIDE DEF s
    <3> QED BY DEF NoSession
  <2> HIDE DEF t
  <2>9. ASSUME NEW k \in Kinds, NEW p \in Node
        PROVE  \/ sess[n][d] # NoSession /\ t.saved[k][p] = sess[n][d].saved[k][p]
               \/ t.saved[k][p] <= ver'[d][k][p]
    BY <1>0, <2>1, <2>3, <2>7
  <2>10. SessionStep
    <3>1. Warranted(n, d, t)
      BY <2>4, <2>7, <2>8, <2>9 DEF Warranted
    <3> QED BY <2>1, <2>6, <3>1, OneSession, Zenon
  <2> QED BY <1>1, <1>2, <1>3, <2>1, <2>10
<1>9. ASSUME NEW n \in Node, UpdateConns(n) PROVE Growing /\ SessionStep /\ AnswerStep
  <2>1. /\ ver' = [ver EXCEPT ![n]["conn"][n] = @ + 1]
        /\ RowSet(rpc, n, CallsTouched(n, {<<"conn", n>>}), rpc')
        /\ RowSet(sess, n, Touched(sess[n], {<<"conn", n>>}), sess')
    BY <1>9 DEF UpdateConns, RowSet
  <2>2. Growing
    BY <1>4, <2>1, Zenon DEF SyncConstants
  <2>3. AnswerStep /\ NoNewCall
    BY <1>2, <2>1, CallsOvertakenStep
  <2> QED BY <2>1, <2>2, <2>3, SessionsTouched
<1>10. ASSUME NEW n \in Node, NEW k \in Kinds, Update(n, k) PROVE Growing /\ SessionStep /\ AnswerStep
  <2> DEFINE I == {<<k, n>>} \cap (Timed \X Node)
  <2>1. /\ ver' = [ver EXCEPT ![n][k][n] = @ + 1]
        /\ RowSet(rpc, n, CallsTouched(n, I), rpc')
        /\ RowSet(sess, n, Touched(sess[n], I), sess')
    BY <1>10 DEF Update, RowSet
  <2> HIDE DEF I
  <2>2. Growing
    BY <1>4, <2>1, Zenon
  <2>3. AnswerStep /\ NoNewCall
    BY <1>2, <2>1, CallsOvertakenStep
  <2> QED BY <2>1, <2>2, <2>3, SessionsTouched
<1>11. ASSUME UNCHANGED <<ver, sess, rpc>> PROVE Growing /\ SessionStep /\ AnswerStep
  BY <1>1, <1>2, <1>3, <1>11, SessionsSame
<1>12. ASSUME (\E n \in Node : Refresh(n)) \/ (\E l \in Links : LinkDown(l) \/ LinkUp(l)) \/ UNCHANGED vars
       PROVE  UNCHANGED <<ver, sess, rpc>>
  BY <1>12 DEF Refresh, LinkDown, LinkUp, vars
<1>13. \A n, d \in Node : ~ Expire(n, d)
  BY DEF Expire
<1> QED BY <1>5, <1>6, <1>7, <1>8, <1>9, <1>10, <1>11, <1>12, <1>13 DEF Next

\* At first every node counts its neighbours as having what they have.
LEMMA CoveredInit ==
    ASSUME SyncConstants, Init
    PROVE  SessionTypes /\ Covered
<1> DEFINE saved(d) == [k \in Kinds |-> [p \in Node |-> IF p = d THEN 0 ELSE 1]]
<1>1. ver \in [Node -> Versions] /\ \A n, p \in Node, k \in Kinds : ver[n][k][p] = 1
  BY DEF Init, Versions
<1>2. ASSUME NEW d \in Node
      PROVE  /\ SessionShape(Synchronised(d)) /\ Synchronised(d).saved \in Versions
             /\ \A k \in Kinds, p \in Node : Synchronised(d).saved[k][p] <= 1
  <2>1. Synchronised(d) = [id |-> 1, dst |-> 1, saved |-> saved(d), recent |-> {}, withheld |-> Nothing]
    <3>1. ASSUME NEW a, NEW b, NEW c
          PROVE  [[id |-> 1, dst |-> 0, saved |-> a, recent |-> b, withheld |-> a]
                     EXCEPT !.dst = 1, !.recent = {}, !.saved = c]
                   = [id |-> 1, dst |-> 1, saved |-> c, recent |-> {}, withheld |-> a]
      <4> DEFINE r == [id |-> 1, dst |-> 0, saved |-> a, recent |-> b, withheld |-> a]
      <4>1. [r EXCEPT !.dst = 1] = [id |-> 1, dst |-> 1, saved |-> a, recent |-> b, withheld |-> a]
        OBVIOUS
      <4> DEFINE u == [id |-> 1, dst |-> 1, saved |-> a, recent |-> b, withheld |-> a]
      <4>2. [u EXCEPT !.recent = {}] = [id |-> 1, dst |-> 1, saved |-> a, recent |-> {}, withheld |-> a]
        OBVIOUS
      <4> DEFINE w == [id |-> 1, dst |-> 1, saved |-> a, recent |-> {}, withheld |-> a]
      <4>3. [w EXCEPT !.saved = c] = [id |-> 1, dst |-> 1, saved |-> c, recent |-> {}, withheld |-> a]
        OBVIOUS
      <4> QED BY <4>1, <4>2, <4>3, Zenon
    <3> QED BY <3>1, Zenon DEF Synchronised, NewSession
  <2>2. saved(d) \in Versions /\ \A k \in Kinds, p \in Node : saved(d)[k][p] <= 1
    BY DEF Versions
  <2> HIDE DEF saved
  <2> QED BY <2>1, <2>2 DEF SessionShape
<1>3. /\ Matrix(sess)
      /\ \A n, d \in Node : sess[n][d] = IF {n, d} \in Links THEN Synchronised(d) ELSE NoSession
  BY DEF Init, Matrix, Row
<1>4. \A n, d \in Node : rpc[n][d] = NoRpc
  BY DEF Init
<1>5. ASSUME NEW n \in Node, NEW d \in Node, sess[n][d] # NoSession
      PROVE  /\ SessionShape(sess[n][d]) /\ sess[n][d].saved \in Versions
             /\ \A k \in Kinds, p \in Node : sess[n][d].saved[k][p] <= 1
  BY <1>2, <1>3, <1>5, Zenon
<1>6. SavedIsHeld
  BY <1>1, <1>5 DEF SavedIsHeld
<1>7. ASSUME NEW n \in Node, NEW p \in Node PROVE tables[n].bitmap[p] <= ver[n]["conn"][p]
  <2>1. ver[n] \in Versions /\ ver[n]["peer"][n] > 0
    BY <1>1 DEF SyncConstants
  <2>2. tables[n] = Tables(n, ver[n], hist)
    BY DEF Init
  <2> QED BY <2>1, <2>2, TablesDerived
<1> QED BY <1>3, <1>4, <1>5, <1>6, <1>7 DEF SessionTypes, Covered

\* Unless items expire: for any nodes, links, updates, failures and broken links,
\* what a session counts as held by its partner (dst_saved_*_versions), and so never
\* pushes again, the partner has.  With expiring items it is false, as the run
\* route_forgotten shows.
THEOREM SavedIsHeldHolds ==
    ASSUME SyncConstants, ~ Expiring
    PROVE  Spec => []SavedIsHeld
<1> DEFINE Inv == SyncTypes /\ Owned /\ SessionTypes /\ Covered
<1>1. Init => Inv
  BY SyncInit, CoveredInit
<1>2. Inv /\ [Next]_vars => Inv'
  <2> SUFFICES ASSUME Inv, [Next]_vars PROVE Inv'
    OBVIOUS
  <2>1. VersionStep /\ TableStep /\ CallStep
    BY SyncSteps
  <2>2. SyncTypes' /\ Owned'
    BY <2>1, StepOwned
  <2>3. Growing /\ SessionStep /\ AnswerStep
    BY SyncCovered, HandleCovered, AnsweredCovered, OthersCovered
  <2>4. SessionTypes' /\ Covered'
    BY <2>1, <2>2, <2>3, StepCovered
  <2> QED BY <2>2, <2>4
<1>3. Inv => SavedIsHeld
  BY DEF Covered
<1> QED BY <1>1, <1>2, <1>3, PTL DEF Spec
=============================================================================
