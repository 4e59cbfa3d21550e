---------------------------- MODULE AgentLeases ----------------------------
(***************************************************************************)
(* AgentCoordinationStore (workflow/leases.py): the SQLite table of leases *)
(* that several OpenContext processes share.  A lease gives one agent one  *)
(* (run_id, phase) slot until it is released or its time is up.            *)
(*                                                                         *)
(* Each statement of a method is a step of its own.  Python's sqlite3      *)
(* opens a transaction only before the first INSERT or UPDATE, so what a   *)
(* SELECT returned may be stale when the UPDATE or INSERT it leads to      *)
(* commits; the writes of one method commit together.  The agent_id column *)
(* guards nothing and is left out.                                         *)
(***************************************************************************)
EXTENDS Naturals

CONSTANTS Agent,      \* processes that share coordination.db
          Run, Phase, \* the two columns of a slot
          LeaseId,    \* the uuid4 values that may be drawn
          Duration,   \* the durations callers pass to acquire
          MaxTime,    \* bound: the clock stops here
          NoSlot      \* the slot of a row that does not exist

ASSUME LeaseAssumption ==
    /\ Duration \subseteq Nat
    /\ MaxTime \in Nat
    /\ NoSlot \notin Run \X Phase

VARIABLES leases,  \* the table agent_leases, one row per lease id
          op,      \* the method call each agent is in, between two statements
          clock,   \* datetime.now(tz=UTC), the same for every process
          raced    \* history: slots on which two acquires have overlapped

vars == <<leases, op, clock, raced>>

-----------------------------------------------------------------------------

Slot == Run \X Phase

Status == {"absent", "active", "released", "expired"}

LeaseRow == [slot: Slot \cup {NoSlot}, expires_at: Nat, status: Status]

Step == {"idle", "acquire_read", "acquire_write", "release_write",
         "expire_write", "sweep_read", "sweep_write"}

Op == [step: Step, slot: Slot \cup {NoSlot}, now: Nat, duration: Nat,
       picked: SUBSET LeaseId]

TypeOK ==
    /\ leases \in [LeaseId -> LeaseRow]
    /\ op \in [Agent -> Op]
    /\ clock \in Nat
    /\ raced \subseteq Slot

NoLease == [slot |-> NoSlot, expires_at |-> 0, status |-> "absent"]

Idle == [step |-> "idle", slot |-> NoSlot, now |-> 0, duration |-> 0, picked |-> {}]

Init ==
    /\ leases = [l \in LeaseId |-> NoLease]
    /\ op = [a \in Agent |-> Idle]
    /\ clock = 0
    /\ raced = {}

\* SELECT ... WHERE run_id = ? AND phase = ? AND status = 'active'
ActiveRows(s) == {l \in LeaseId : leases[l].status = "active" /\ leases[l].slot = s}

\* UPDATE agent_leases SET status = ? WHERE lease_id IN ids
Marked(ids, status) ==
    [l \in LeaseId |-> IF l \in ids THEN [leases[l] EXCEPT !.status = status]
                                    ELSE leases[l]]

Acquiring(a, s) == op[a].step \in {"acquire_read", "acquire_write"} /\ op[a].slot = s

-----------------------------------------------------------------------------
(* acquire: read the clock, look for an active row, then grant.            *)

BeginAcquire(a, s, d) ==
    /\ op[a].step = "idle"
    /\ op' = [op EXCEPT ![a] = [step |-> "acquire_read", slot |-> s, now |-> clock,
                                duration |-> d, picked |-> {}]]
    /\ raced' = IF \E b \in Agent : Acquiring(b, s) THEN raced \cup {s} ELSE raced
    /\ UNCHANGED <<leases, clock>>

\* The SELECT ... LIMIT 1: no row, or any one of the matching rows.
FindNone(a) ==
    /\ op[a].step = "acquire_read"
    /\ ActiveRows(op[a].slot) = {}
    /\ op' = [op EXCEPT ![a].step = "acquire_write"]
    /\ UNCHANGED <<leases, clock, raced>>

FindStale(a) ==
    /\ op[a].step = "acquire_read"
    /\ \E l \in ActiveRows(op[a].slot) :
          /\ leases[l].expires_at <= op[a].now
          /\ op' = [op EXCEPT ![a].step = "acquire_write", ![a].picked = {l}]
    /\ UNCHANGED <<leases, clock, raced>>

Refuse(a) ==
    /\ op[a].step = "acquire_read"
    /\ \E l \in ActiveRows(op[a].slot) : leases[l].expires_at > op[a].now
    /\ op' = [op EXCEPT ![a] = Idle]
    /\ UNCHANGED <<leases, clock, raced>>

\* Mutant: the stale row is left active beside the new one.
GrantBesideStale(a) ==
    /\ op[a].step = "acquire_write"
    /\ \E new \in LeaseId :
          /\ leases[new].status = "absent"
          /\ leases' = [leases EXCEPT
                          ![new] = [slot |-> op[a].slot,
                                    expires_at |-> op[a].now + op[a].duration,
                                    status |-> "active"]]
    /\ op' = [op EXCEPT ![a] = Idle]
    /\ UNCHANGED <<clock, raced>>

\* One transaction: the stale row expires and the new row appears.
Grant(a) ==
    /\ op[a].step = "acquire_write"
    /\ \E new \in LeaseId :
          /\ leases[new].status = "absent"
          /\ leases' = [Marked(op[a].picked, "expired") EXCEPT
                          ![new] = [slot |-> op[a].slot,
                                    expires_at |-> op[a].now + op[a].duration,
                                    status |-> "active"]]
    /\ op' = [op EXCEPT ![a] = Idle]
    /\ UNCHANGED <<clock, raced>>

-----------------------------------------------------------------------------
(* release (by lease id) and release_by_run_phase (by slot).               *)

Release(a, l) ==
    /\ op[a].step = "idle"
    /\ leases[l].status # "absent"
    /\ leases' = Marked({l}, "released")
    /\ UNCHANGED <<op, clock, raced>>

SelectForRelease(a, s) ==
    /\ op[a].step = "idle"
    /\ \E l \in ActiveRows(s) :
          op' = [op EXCEPT ![a] = [Idle EXCEPT !.step = "release_write", !.picked = {l}]]
    /\ UNCHANGED <<leases, clock, raced>>

\* Mutants: a status AgentLeaseStatus does not have; a release undone.
ReleaseAsClosed(a) ==
    /\ op[a].step = "release_write"
    /\ leases' = Marked(op[a].picked, "closed")
    /\ op' = [op EXCEPT ![a] = Idle]
    /\ UNCHANGED <<clock, raced>>

ReleaseRestoring(a) ==
    /\ op[a].step = "release_write"
    /\ leases' = Marked(op[a].picked, "active")
    /\ op' = [op EXCEPT ![a] = Idle]
    /\ UNCHANGED <<clock, raced>>

ReleaseSelected(a) ==
    /\ op[a].step = "release_write"
    /\ leases' = Marked(op[a].picked, "released")
    /\ op' = [op EXCEPT ![a] = Idle]
    /\ UNCHANGED <<clock, raced>>

-----------------------------------------------------------------------------
(* Lazy expiry on read: get_lease reads the row and then the clock,        *)
(* get_active_leases the clock and then the rows of all runs or of one.    *)

SelectLease(a, l) ==
    /\ op[a].step = "idle"
    /\ leases[l].status = "active"
    /\ op' = [op EXCEPT ![a] = [Idle EXCEPT !.step = "expire_write", !.picked = {l}]]
    /\ UNCHANGED <<leases, clock, raced>>

\* Mutant: the row's own expiry time is not looked at.
ExpireUnchecked(a) ==
    /\ op[a].step = "expire_write"
    /\ leases' = Marked(op[a].picked, "expired")
    /\ op' = [op EXCEPT ![a] = Idle]
    /\ UNCHANGED <<clock, raced>>

ExpireSelected(a) ==
    /\ op[a].step = "expire_write"
    /\ leases' = Marked({l \in op[a].picked : leases[l].expires_at < clock}, "expired")
    /\ op' = [op EXCEPT ![a] = Idle]
    /\ UNCHANGED <<clock, raced>>

BeginSweep(a) ==
    /\ op[a].step = "idle"
    /\ op' = [op EXCEPT ![a] = [Idle EXCEPT !.step = "sweep_read", !.now = clock]]
    /\ UNCHANGED <<leases, clock, raced>>

SelectExpired(a, runs) ==
    /\ op[a].step = "sweep_read"
    /\ op' = [op EXCEPT ![a].step = "sweep_write",
                        ![a].picked = {l \in LeaseId :
                            /\ leases[l].status = "active"
                            /\ leases[l].slot \in runs \X Phase
                            /\ leases[l].expires_at < op[a].now}]
    /\ UNCHANGED <<leases, clock, raced>>

ExpireSwept(a) ==
    /\ op[a].step = "sweep_write"
    /\ leases' = Marked(op[a].picked, "expired")
    /\ op' = [op EXCEPT ![a] = Idle]
    /\ UNCHANGED <<clock, raced>>

-----------------------------------------------------------------------------

\* The process dies, or the write raises "database is locked": the
\* connection closes without a commit and the call leaves nothing behind.
Crash(a) ==
    /\ op[a].step # "idle"
    /\ op' = [op EXCEPT ![a] = Idle]
    /\ UNCHANGED <<leases, clock, raced>>

Tick ==
    /\ clock < MaxTime
    /\ clock' = clock + 1
    /\ UNCHANGED <<leases, op, raced>>

Next ==
    \/ \E a \in Agent :
          \/ \E s \in Slot, d \in Duration : BeginAcquire(a, s, d)
          \/ FindNone(a)
          \/ FindStale(a)
          \/ Refuse(a)
          \/ Grant(a)
          \/ \E l \in LeaseId : Release(a, l) \/ SelectLease(a, l)
          \/ \E s \in Slot : SelectForRelease(a, s)
          \/ ReleaseSelected(a)
          \/ ExpireSelected(a)
          \/ BeginSweep(a)
          \/ SelectExpired(a, Run)
          \/ \E r \in Run : SelectExpired(a, {r})
          \/ ExpireSwept(a)
          \/ Crash(a)
    \/ Tick

Spec == Init /\ [][Next]_vars

-----------------------------------------------------------------------------
(* Properties.                                                             *)

\* acquire raises RuntimeError "if an ACTIVE (non-expired) lease already
\* exists for the same (run_id, phase)": two live leases never share a slot.
ActiveLeaseExclusive ==
    \A l, m \in LeaseId :
        /\ l # m
        /\ leases[l].status = "active" /\ leases[l].expires_at > clock
        /\ leases[m].status = "active" /\ leases[m].expires_at > clock
        => leases[l].slot # leases[m].slot

\* What the store really guarantees: a slot has at most one active row for
\* as long as no two acquires of that slot have been in flight together,
\* whatever releases, sweeps, crashes and clock ticks come between the
\* statements of the calls.
ExclusiveUnlessRaced ==
    \A l, m \in LeaseId :
        /\ l # m
        /\ leases[l].status = "active"
        /\ leases[m].status = "active"
        /\ leases[l].slot = leases[m].slot
        => leases[l].slot \in raced

Board == INSTANCE LeaseBoard WITH
    Lease <- LeaseId,
    asking <- [a \in Agent |-> IF op[a].step \in {"acquire_read", "acquire_write"}
                               THEN op[a].slot ELSE NoSlot],
    board <- [s \in Slot |-> ActiveRows(s)],
    due <- [l \in LeaseId |-> leases[l].expires_at],
    used <- {l \in LeaseId : leases[l].status # "absent"}

\* The table implements a board on which acquire, release and expiry are
\* atomic, although each decides from rows and a clock it read before: the
\* transaction of acquire is the moment of the grant, which takes a slot
\* from nobody but a late holder, until two acquires of it overlap.
ImplementsBoard == Board!Spec

\* Lazy expiry never takes a lease from its holder early: a row goes from
\* active to expired only once its expires_at has been reached, although
\* acquire, get_lease and get_active_leases decide from an earlier read.
NoEarlyExpiry ==
    [][\A l \in LeaseId :
          leases[l].status = "active" /\ leases'[l].status = "expired"
             => leases[l].expires_at <= clock]_vars

\* No renewal and no resurrection: a lease keeps its slot and its expiry
\* time, and one that was released or expired is never active again, even
\* when a stale reader writes to it later.
NoResurrection ==
    [][\A l \in LeaseId :
          leases[l].status # "absent"
             => /\ leases'[l].slot = leases[l].slot
                /\ leases'[l].expires_at = leases[l].expires_at
                /\ leases'[l].status = "active" => leases[l].status = "active"]_vars
=============================================================================
