---------------------------- MODULE Credentials ----------------------------
(***************************************************************************)
(* CredentialManager: credentials by id, generated and revoked by          *)
(* concurrent requests, kept in memory under a lock and written whole to a *)
(* file.  An operation changes the map, releases the lock, and takes it    *)
(* again to save.  std::fs::write truncates before it writes, so a crash   *)
(* or an error in between leaves a file that does not parse; a failed      *)
(* write is only logged.                                                   *)
(***************************************************************************)
EXTENDS Integers, FiniteSets, Functions

CONSTANTS
    Op,          \* concurrent requests
    Id,          \* credential ids the requests name
    MaxKeys,     \* bound: key pairs generated
    MaxCrashes,  \* bound
    MaxFailed    \* bound: writes that fail

VARIABLES
    mem,      \* credentials: id -> key, a partial function
    file,     \* whether the file parses, and the map it then holds
    writer,   \* the operation inside save_to_disk, which holds the lock
    op,       \* op[o]: its step, the key it drops, the map it serialised
    keys,     \* key pairs generated so far
    revoked,  \* keys whose revocation was answered after a write that worked
    budget    \* crashes and failed writes left

vars == <<mem, file, writer, op, keys, revoked, budget>>

Nobody == "nobody"
Empty  == [i \in {} |-> 0]
Torn   == [ok |-> FALSE, map |-> Empty]
Whole(f) == [ok |-> TRUE, map |-> f]
Idle   == [pc |-> "idle", drops |-> 0, image |-> Empty]
Saving(k) == [pc |-> "save", drops |-> k, image |-> Empty]

Without(f, i) == Restrict(f, DOMAIN f \ {i})
With(f, i, k) == [j \in DOMAIN f \cup {i} |-> IF j = i THEN k ELSE f[j]]

Init ==
    /\ mem = Empty
    /\ file = Whole(Empty)
    /\ writer = Nobody
    /\ op = [o \in Op |-> Idle]
    /\ keys = 0
    /\ revoked = {}
    /\ budget = [crashes |-> MaxCrashes, failed |-> MaxFailed]

Locked == writer # Nobody

\* generate_credential_with_options: an id that exists answers its old secret.
Generate(o, i) ==
    /\ ~Locked /\ op[o] = Idle
    /\ i \notin DOMAIN mem /\ keys < MaxKeys
    /\ keys' = keys + 1
    /\ mem' = With(mem, i, keys + 1)
    /\ op' = [op EXCEPT ![o] = Saving(0)]
    /\ UNCHANGED <<file, writer, revoked, budget>>

Revoke(o, i) ==
    /\ ~Locked /\ op[o] = Idle
    /\ i \in DOMAIN mem
    /\ mem' = Without(mem, i)
    /\ op' = [op EXCEPT ![o] = Saving(mem[i])]
    /\ UNCHANGED <<file, writer, keys, revoked, budget>>

\* Fault: the lock is released once the map is serialised.
OpenReleased(o) ==
    /\ ~Locked /\ op[o].pc = "save"
    /\ file' = Torn
    /\ op' = [op EXCEPT ![o].pc = "write", ![o].image = mem]
    /\ UNCHANGED <<mem, writer, keys, revoked, budget>>

\* save_to_disk takes the lock again and serialises the map, whoever changed
\* it; fs::write opens and truncates the file.
Open(o) ==
    /\ ~Locked /\ op[o].pc = "save"
    /\ writer' = o
    /\ file' = Torn
    /\ op' = [op EXCEPT ![o].pc = "write", ![o].image = mem]
    /\ UNCHANGED <<mem, keys, revoked, budget>>

\* The write that does not even open the file is logged and forgotten.
FailedSave(o) ==
    /\ ~Locked /\ op[o].pc = "save" /\ budget.failed > 0
    /\ budget' = [budget EXCEPT !.failed = @ - 1]
    /\ op' = [op EXCEPT ![o] = Idle]
    /\ UNCHANGED <<mem, file, writer, keys, revoked>>

\* A write that fails half way leaves the file truncated.
FailedWrite(o) ==
    /\ op[o].pc = "write" /\ budget.failed > 0
    /\ budget' = [budget EXCEPT !.failed = @ - 1]
    /\ writer' = Nobody
    /\ op' = [op EXCEPT ![o] = Idle]
    /\ UNCHANGED <<mem, file, keys, revoked>>

Written(o) ==
    /\ op[o].pc = "write"
    /\ file' = Whole(op[o].image)
    /\ writer' = Nobody
    /\ revoked' = revoked \cup ({op[o].drops} \ {0})
    /\ op' = [op EXCEPT ![o] = Idle]
    /\ UNCHANGED <<mem, keys, budget>>

\* The process dies and starts again: CredentialManager::new loads the file.
Restart ==
    /\ budget.crashes > 0
    /\ budget' = [budget EXCEPT !.crashes = @ - 1]
    /\ mem' = file.map
    /\ writer' = Nobody
    /\ op' = [o \in Op |-> Idle]
    /\ UNCHANGED <<file, keys, revoked>>

Next ==
    \/ \E o \in Op, i \in Id : Generate(o, i) \/ Revoke(o, i)
    \/ \E o \in Op : Open(o) \/ FailedSave(o) \/ FailedWrite(o) \/ Written(o)
    \/ Restart

Spec == Init /\ [][Next]_vars
----------------------------------------------------------------------------
(* Properties *)

\* The types of the state.
TypeOK ==
    /\ DOMAIN mem \subseteq Id /\ DOMAIN file.map \subseteq Id
    /\ writer \in Op \cup {Nobody}
    /\ \A o \in Op : op[o].pc \in {"idle", "save", "write"} /\ op[o].drops \in 0 .. keys
    /\ keys \in 0 .. MaxKeys
    /\ revoked \subseteq 1 .. keys

TrustedKeys(f) == {f[i] : i \in DOMAIN f}

\* A key whose revoke_credential was answered after a write that worked is
\* never trusted again, by is_pubkey_trusted or after a restart from the file:
\* no save of a concurrent request writes back a map that still holds it.
RevokedStays == TrustedKeys(mem) \cap revoked = {}
=============================================================================
