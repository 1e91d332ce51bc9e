---------------------------- MODULE RootUpgrade ----------------------------
(***************************************************************************)
(* Making a device a second root.  Its user arms a one-time acceptance     *)
(* token that expires; a root pushes the root key; the handler takes the   *)
(* token, checks that no key file exists, seals and writes the file with   *)
(* the token's passphrase, registers the root in the pool and answers.     *)
(* Handlers of different calls run on different threads.                   *)
(***************************************************************************)
EXTENDS Integers, FiniteSets

CONSTANTS
    Request,   \* calls of upgrade_to_root_device, retries included
    Ttl,       \* lifetime of a token
    Waiting,   \* whether the user arms no token while a push is being handled
    MaxArms,   \* bound: tokens armed; the n-th has passphrase n
    MaxTime,   \* bound: the time at which the clock stops
    MaxFailed  \* bound: writes that fail

VARIABLES
    now,
    arms,      \* tokens armed so far
    armed,     \* armed_root_upgrade: 0 or the passphrase, and its expiry
    handler,   \* handler[r]: the step of the call and its passphrase
    file,      \* sk_root.age: None, Torn or the passphrase that opens it
    pool,      \* whether the root is in the trust pool
    failed     \* writes that failed so far

vars == <<now, arms, armed, handler, file, pool, failed>>

NoToken == [pass |-> 0, expires |-> 0]
None == 0
Torn == -1   \* fs::write created the file and failed to fill it

Init ==
    /\ now = 0 /\ arms = 0
    /\ armed = NoToken
    /\ handler = [r \in Request |-> [pc |-> "sent", pass |-> 0]]
    /\ file = None
    /\ pool = FALSE
    /\ failed = 0

Tick ==
    /\ now < MaxTime
    /\ now' = now + 1
    /\ UNCHANGED <<arms, armed, handler, file, pool, failed>>

\* A new token replaces whatever is armed.
ArmRootUpgrade ==
    /\ arms < MaxArms
    /\ Waiting => \A r \in Request : handler[r].pc \notin {"check", "write"}
    /\ arms' = arms + 1
    /\ armed' = [pass |-> arms + 1, expires |-> now + Ttl]
    /\ UNCHANGED <<now, handler, file, pool, failed>>

Goto(r, pc) == handler' = [handler EXCEPT ![r].pc = pc]

\* Fault: the token is read and left armed.
TakeKept(r) ==
    /\ handler[r].pc = "sent"
    /\ IF armed # NoToken /\ now < armed.expires
       THEN handler' = [handler EXCEPT ![r] = [pc |-> "check", pass |-> armed.pass]]
       ELSE Goto(r, "refused")
    /\ UNCHANGED <<now, arms, armed, file, pool, failed>>

\* take_armed_passphrase clears the token even when it has expired.
TakeArmedPassphrase(r) ==
    /\ handler[r].pc = "sent"
    /\ armed' = NoToken
    /\ IF armed # NoToken /\ now < armed.expires
       THEN handler' = [handler EXCEPT ![r] = [pc |-> "check", pass |-> armed.pass]]
       ELSE Goto(r, "refused")
    /\ UNCHANGED <<now, arms, file, pool, failed>>

\* install_root_from_upgrade refuses a payload that is not the root's key, and
\* refuses to overwrite a key.
CheckExists(r) ==
    /\ handler[r].pc = "check"
    /\ \/ file = None /\ Goto(r, "write")
       \/ Goto(r, "refused")
    /\ UNCHANGED <<now, arms, armed, file, pool, failed>>

\* save_to_file creates or truncates, then fills; it can fail before or after
\* it has touched the file.
SaveToFile(r) ==
    /\ handler[r].pc = "write"
    /\ \/ /\ file' = handler[r].pass
          /\ Goto(r, "register")
          /\ UNCHANGED failed
       \/ /\ failed < MaxFailed
          /\ failed' = failed + 1
          /\ Goto(r, "refused")
          /\ file' \in {file, Torn}
    /\ UNCHANGED <<now, arms, armed, pool>>

AddRoot(r) ==
    /\ handler[r].pc = "register"
    /\ pool' = TRUE
    /\ Goto(r, "acked")
    /\ UNCHANGED <<now, arms, armed, file, failed>>

Handle(r) == TakeArmedPassphrase(r) \/ CheckExists(r) \/ SaveToFile(r) \/ AddRoot(r)

Next == Tick \/ ArmRootUpgrade \/ \E r \in Request : Handle(r)

Spec == Init /\ [][Next]_vars
----------------------------------------------------------------------------
(* Properties *)

\* The types of the state.
TypeOK ==
    /\ now \in 0 .. MaxTime /\ arms \in 0 .. MaxArms /\ failed \in 0 .. MaxFailed
    /\ armed \in [pass : 0 .. arms, expires : 0 .. MaxTime + Ttl]
    /\ handler \in [Request -> [pc : {"sent", "check", "write", "register", "acked", "refused"},
                               pass : 0 .. arms]]
    /\ file \in Torn .. arms
    /\ pool \in BOOLEAN

\* A device that answered upgrade_to_root_device with ack stays a root: its
\* key file opens with the passphrase its user armed for that call and the
\* root is in the pool, whatever a concurrent or repeated push does.  (Without
\* Waiting, two pushes can both find no file and both write it.)
AckedIsRoot ==
    \A r \in Request : handler[r].pc = "acked" => file = handler[r].pass /\ pool
=============================================================================
