---------------------------- MODULE MCInvariants ----------------------------
(***************************************************************************)
(* Components, and instances of them, of which only safety is checked: the *)
(* token bucket, the replay window, the rate limit of fetch_config, the    *)
(* credential file, the root upgrade, and route synchronisation while a    *)
(* link flaps.  A behaviour is one of the component that part names; the   *)
(* others rest in their initial states.                                    *)
(***************************************************************************)
EXTENDS TokenBucket, TLC

CONSTANTS a, b, big

VARIABLES
    part,
    max_seq, bitmap, valid, seen,                                     \* ReplayWindow
    clock, call, queue, grants,                                       \* FetchLimit
    creds, file, writer, op, keys, revoked, budget,                   \* Credentials
    time, arms, armed, handler, keyFile, pool, failed,                \* RootUpgrade
    links, hist, ver, tables, rsess, born, rpc, rbudget               \* RouteSync

----------------------------------------------------------------------------
(* The instances *)

\* The bucket: packets of one and two tokens, and one larger than the bucket.
PacketSizes == (a :> 1) @@ (b :> 2) @@ (big :> 4)

\* Three bytes of three bits: a shift can stay inside a byte, cross one or two
\* byte borders, or empty the window.
W == INSTANCE ReplayWindow WITH ByteBits <- 3, Bytes <- 3, MaxSeq <- 12

\* Two calls of one caller, who may make two in three ticks.
L == INSTANCE FetchLimit
     WITH Call <- {a, b}, KeyOf <- [c \in {a, b} |-> "caller"],
          Window <- 3, MaxCalls <- 2, MaxLag <- 1, MaxTime <- 6, now <- clock

\* Two requests about two ids; one crash, one failed write.
C == INSTANCE Credentials
     WITH Op <- {a, b}, Id <- {1, 2}, MaxKeys <- 3, MaxCrashes <- 1, MaxFailed <- 1, mem <- creds

\* Two pushes, or one and its retry, for two tokens armed one after the other.
U == INSTANCE RootUpgrade
     WITH Request <- {a, b}, Ttl <- 2, Waiting <- TRUE, MaxArms <- 2, MaxTime <- 3, MaxFailed <- 1,
          now <- time, file <- keyFile

\* Three nodes in a row, the link to the last one breaks once.
F == INSTANCE RouteSync
     WITH Node <- 1 .. 3, Kinds <- {"peer", "conn"}, Links <- {{1, 2}, {2, 3}},
          Flapping <- {{2, 3}}, MaxFlaps <- 1, MaxUpdates <- 0, MaxFails <- 0,
          Expiring <- FALSE, Gap <- FALSE, sess <- rsess, budget <- rbudget

\* Two nodes that forget each other while their link is down.
E == INSTANCE RouteSync
     WITH Node <- 1 .. 2, Kinds <- {"peer", "conn"}, Links <- {{1, 2}},
          Flapping <- {{1, 2}}, MaxFlaps <- 1, MaxUpdates <- 0, MaxFails <- 0,
          Expiring <- TRUE, Gap <- FALSE, sess <- rsess, budget <- rbudget

windowVars == <<max_seq, bitmap, valid, seen>>
limitVars == <<clock, call, queue, grants>>
credVars == <<creds, file, writer, op, keys, revoked, budget>>
upgradeVars == <<time, arms, armed, handler, keyFile, pool, failed>>
routeVars == <<links, hist, ver, tables, rsess, born, rpc, rbudget>>
allVars == <<part, vars, windowVars, limitVars, credVars, upgradeVars, routeVars>>

PartsInit ==
    /\ part \in {"bucket", "window", "limit", "credentials", "upgrade", "flap", "forget"}
    /\ Init /\ W!Init /\ L!Init /\ C!Init /\ U!Init
    /\ IF part = "forget" THEN E!Init ELSE F!Init

PartsNext ==
    \/ part = "bucket" /\ Next
       /\ UNCHANGED <<part, windowVars, limitVars, credVars, upgradeVars, routeVars>>
    \/ part = "window" /\ W!Next
       /\ UNCHANGED <<part, vars, limitVars, credVars, upgradeVars, routeVars>>
    \/ part = "limit" /\ L!Next
       /\ UNCHANGED <<part, vars, windowVars, credVars, upgradeVars, routeVars>>
    \/ part = "credentials" /\ C!Next
       /\ UNCHANGED <<part, vars, windowVars, limitVars, upgradeVars, routeVars>>
    \/ part = "upgrade" /\ U!Next
       /\ UNCHANGED <<part, vars, windowVars, limitVars, credVars, routeVars>>
    \/ part = "flap" /\ F!Next
       /\ UNCHANGED <<part, vars, windowVars, limitVars, credVars, upgradeVars>>
    \/ part = "forget" /\ E!Next
       /\ UNCHANGED <<part, vars, windowVars, limitVars, credVars, upgradeVars>>

PartsSpec == PartsInit /\ [][PartsNext]_allVars

----------------------------------------------------------------------------
(* The properties of the component at work *)

\* The types of the state.
PartsTypeOK ==
    /\ part = "bucket" => TypeOK
    /\ part = "window" => W!TypeOK
    /\ part = "limit" => L!TypeOK
    /\ part = "credentials" => C!TypeOK
    /\ part = "upgrade" => U!TypeOK
    /\ part = "flap" => F!TypeOK
    /\ part = "forget" => E!TypeOK

\* ReplayWindow256::can_accept refuses exactly what was accepted or is too old,
\* and accept records exactly the number it accepts.
WindowExact ==
    /\ [](part = "window" => W!RefusesExactly)
    /\ [][part = "window" => W!AcceptStep]_allVars

\* enforce_fetch_rate_limit grants at most MaxCalls calls per window, and refuses
\* only callers that used up their calls.
LimitExact ==
    /\ [](part = "limit" => L!AtMostMaxCalls)
    /\ [][part = "limit" => L!RefusalJustified]_allVars

\* A key CredentialManager revoked is never trusted again.
RevokedStays == part = "credentials" => C!RevokedStays

\* A device that acknowledged upgrade_to_root_device stays a root.
AckedIsRoot == part = "upgrade" => U!AckedIsRoot

\* What dst_saved_*_versions says a partner has, it has; and nobody has a newer
\* version of route information than its owner.
TablesTruthful ==
    /\ part = "flap" => F!SavedIsHeld /\ F!OwnerNewest
    /\ part = "forget" => E!OwnerNewest

\* When nothing is left to push, every node has all route information.
SettledIsSynced == part = "flap" => F!SettledIsSynced
=============================================================================
