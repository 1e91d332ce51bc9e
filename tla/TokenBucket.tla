---------------------------- MODULE TokenBucket ----------------------------
(***************************************************************************)
(* The token bucket that limits traffic.  A background task refills it at  *)
(* every tick and wakes the waiting consumers; consumers and the task      *)
(* change the token count with a load and a compare-exchange loop, so a    *)
(* step of another can come between the two.                               *)
(*                                                                         *)
(* Time counts ticks of the clock; Rate tokens are due per Unit of them.   *)
(***************************************************************************)
EXTENDS Integers

CONSTANTS
    Consumer,   \* tasks that consume
    Size,       \* Size[c]: the tokens each of c's packets takes
    Capacity,
    Rate, Unit,
    MaxTime     \* bound: the time at which the clock stops

ASSUME BucketAssumption ==
    /\ Capacity \in Nat /\ Rate \in Nat /\ Unit \in Nat \ {0}
    /\ Size \in [Consumer -> Nat \ {0}]

VARIABLES
    now,       \* elapsed_micros
    tokens,    \* available_tokens
    last,      \* last_refill_time
    refill,    \* the refill task: its step and the values it holds
    cons,      \* cons[c]: the consumer's step and the count it loaded
    consumed   \* tokens consumed so far

vars == <<now, tokens, last, refill, cons, consumed>>

Init ==
    /\ now = 0
    /\ tokens = Capacity
    /\ last = 0
    /\ refill = [pc |-> "sleep", add |-> 0, cur |-> 0]
    /\ cons = [c \in Consumer |-> [pc |-> "idle", cur |-> 0]]
    /\ consumed = 0

Tick ==
    /\ now < MaxTime
    /\ now' = now + 1
    /\ UNCHANGED <<tokens, last, refill, cons, consumed>>

----------------------------------------------------------------------------
(* The refill task *)

\* The interval ticks: refill takes the time since the last one, and what is
\* due for it, rounded down.
Due(elapsed) == (Rate * elapsed) \div Unit

StartRefill ==
    /\ refill.pc = "sleep"
    /\ last' = now
    /\ LET add == Due(now - last)
       IN refill' = [pc |-> IF add = 0 THEN "notify" ELSE "cas", add |-> add, cur |-> tokens]
    /\ UNCHANGED <<now, tokens, cons, consumed>>

\* Fault: the capacity is not enforced.
First(a, b) == a

Lesser(a, b) == IF a < b THEN a ELSE b

\* Add without exceeding the capacity; a failed exchange loads the count again.
Refill ==
    /\ refill.pc = "cas"
    /\ IF tokens = refill.cur
       THEN /\ tokens' = Lesser(refill.cur + refill.add, Capacity)
            /\ refill' = [refill EXCEPT !.pc = "notify"]
       ELSE /\ refill' = [refill EXCEPT !.cur = tokens]
            /\ UNCHANGED tokens
    /\ UNCHANGED <<now, last, cons, consumed>>

\* notify_waiters wakes those that wait now.
Notify ==
    /\ refill.pc = "notify"
    /\ refill' = [pc |-> "sleep", add |-> 0, cur |-> 0]
    /\ cons' = [c \in Consumer |->
                  IF cons[c].pc = "wait" THEN [pc |-> "load", cur |-> 0] ELSE cons[c]]
    /\ UNCHANGED <<now, tokens, last, consumed>>

----------------------------------------------------------------------------
(* Consumers *)

Step(c, pc, cur) == cons' = [cons EXCEPT ![c] = [pc |-> pc, cur |-> cur]]

Consume(c) ==
    /\ cons[c].pc = "idle"
    /\ Step(c, "load", 0)
    /\ UNCHANGED <<now, tokens, last, refill, consumed>>

\* try_consume: a packet larger than the bucket is refused at once.
Load(c) ==
    /\ cons[c].pc = "load"
    /\ IF Size[c] > Capacity THEN Step(c, "refused", 0) ELSE Step(c, "cas", tokens)
    /\ UNCHANGED <<now, tokens, last, refill, consumed>>

\* Fault: the new count is stored whatever the count has become.
TryConsumeStores(c) ==
    /\ cons[c].pc = "cas"
    /\ IF cons[c].cur < Size[c]
       THEN /\ Step(c, "refused", 0)
            /\ UNCHANGED <<tokens, consumed>>
       ELSE /\ tokens' = cons[c].cur - Size[c]
            /\ consumed' = consumed + Size[c]
            /\ Step(c, "idle", 0)
    /\ UNCHANGED <<now, last, refill>>

\* The compare-exchange; a failed one loads the count again.
TryConsume(c) ==
    /\ cons[c].pc = "cas"
    /\ \/ /\ cons[c].cur < Size[c]
          /\ Step(c, "refused", 0)
          /\ UNCHANGED <<tokens, consumed>>
       \/ /\ cons[c].cur >= Size[c] /\ tokens = cons[c].cur
          /\ tokens' = cons[c].cur - Size[c]
          /\ consumed' = consumed + Size[c]
          /\ Step(c, "idle", 0)
       \/ /\ cons[c].cur >= Size[c] /\ tokens # cons[c].cur
          /\ Step(c, "cas", tokens)
          /\ UNCHANGED <<tokens, consumed>>
    /\ UNCHANGED <<now, last, refill>>

\* Only after the refusal does the consumer ask to be notified.
Wait(c) ==
    /\ cons[c].pc = "refused"
    /\ Step(c, "wait", 0)
    /\ UNCHANGED <<now, tokens, last, refill, consumed>>

Next ==
    \/ Tick \/ StartRefill \/ Refill \/ Notify
    \/ \E c \in Consumer : Consume(c) \/ Load(c) \/ TryConsume(c) \/ Wait(c)

Spec == Init /\ [][Next]_vars

----------------------------------------------------------------------------
(* Properties *)

\* The types of the state: no interleaving of a refill with consumers takes
\* available_tokens below zero, where the u64 would wrap, or above the capacity.
TypeOK ==
    /\ now \in Nat /\ last \in 0 .. now
    /\ tokens \in 0 .. Capacity
    /\ consumed \in Nat
    /\ refill \in [pc : {"sleep", "cas", "notify"}, add : Nat, cur : 0 .. Capacity]
    /\ cons \in [Consumer -> [pc : {"idle", "load", "cas", "refused", "wait"}, cur : 0 .. Capacity]]

\* The limit itself: up to any moment, however try_consume and refill
\* interleave, the consumers have taken no more than the initial burst and
\* what the rate allows for the time since the bucket was made.
Within == Unit * consumed <= Unit * Capacity + Rate * now
=============================================================================
