----------------------------- MODULE LeaseBoard -----------------------------
(***************************************************************************)
(* What callers of AgentCoordinationStore may rely on (workflow/leases.py),*)
(* without statements and transactions: acquire, release and expiry take   *)
(* effect at once.  A slot is granted when nobody holds it or whoever does *)
(* is late, until two agents have asked for it at the same time.           *)
(***************************************************************************)
EXTENDS Naturals

CONSTANTS Agent, Slot, Lease, NoSlot

VARIABLES
    asking,     \* the slot each agent is asking for
    board,      \* the leases that hold each slot
    due,        \* the time at which each lease lapses
    used,       \* the leases ever granted
    clock,
    raced       \* slots that two agents have asked for at the same time

vars == <<asking, board, due, used, clock, raced>>

Init ==
    /\ asking = [a \in Agent |-> NoSlot]
    /\ board = [s \in Slot |-> {}]
    /\ due \in [Lease -> Nat]
    /\ used = {} /\ clock = 0 /\ raced = {}

Lapsed(l) == due[l] <= clock

Ask(a, s) ==
    /\ asking[a] = NoSlot
    /\ asking' = [asking EXCEPT ![a] = s]
    /\ raced' = IF \E b \in Agent : asking[b] = s THEN raced \cup {s} ELSE raced
    /\ UNCHANGED <<board, due, used, clock>>

(* Refused, or the agent's process has died.                               *)
Withdraw(a) ==
    /\ asking[a] # NoSlot
    /\ asking' = [asking EXCEPT ![a] = NoSlot]
    /\ UNCHANGED <<board, due, used, clock, raced>>

(* A new lease takes the slot, from late holders only, and from all of     *)
(* them unless the slot was raced for.                                     *)
Grant(a, s, l) ==
    /\ asking[a] = s /\ l \notin used
    /\ \E gone \in SUBSET board[s] :
           /\ \A m \in gone : Lapsed(m)
           /\ gone = board[s] \/ s \in raced
           /\ board' = [board EXCEPT ![s] = (board[s] \ gone) \cup {l}]
    /\ \A m \in Lease \ {l} : due'[m] = due[m]
    /\ used' = used \cup {l}
    /\ asking' = [asking EXCEPT ![a] = NoSlot]
    /\ UNCHANGED <<clock, raced>>

Drop(ls) ==
    /\ board' = [s \in Slot |-> board[s] \ ls]
    /\ UNCHANGED <<asking, due, used, clock, raced>>

Release(l) == l \in used /\ Drop({l})

Expire(ls) == (\A l \in ls : l \in used /\ Lapsed(l)) /\ Drop(ls)

Tick == clock' = clock + 1 /\ UNCHANGED <<asking, board, due, used, raced>>

Next ==
    \/ \E a \in Agent, s \in Slot : Ask(a, s) \/ \E l \in Lease : Grant(a, s, l)
    \/ \E a \in Agent : Withdraw(a)
    \/ \E l \in Lease : Release(l)
    \/ \E ls \in SUBSET Lease : Expire(ls)
    \/ Tick

Spec == Init /\ [][Next]_vars
=============================================================================
