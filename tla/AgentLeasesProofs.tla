------------------------- MODULE AgentLeasesProofs -------------------------
(***************************************************************************)
(* The safety properties of AgentLeases, for any number of processes,      *)
(* runs, phases and leases.                                                *)
(***************************************************************************)
EXTENDS AgentLeases, TLAPS

-----------------------------------------------------------------------------
(* Helpers.                                                                *)

\* Marked rewrites nothing but the status column of the rows it is given.
LEMMA MarkedFacts ==
    ASSUME TypeOK, NEW ids, NEW status \in Status
    PROVE  /\ Marked(ids, status) \in [LeaseId -> LeaseRow]
           /\ \A l \in LeaseId :
                /\ Marked(ids, status)[l].slot = leases[l].slot
                /\ Marked(ids, status)[l].expires_at = leases[l].expires_at
                /\ l \in ids => Marked(ids, status)[l].status = status
                /\ l \notin ids => Marked(ids, status)[l].status = leases[l].status
<1>1. \A l \in LeaseId : leases[l] \in LeaseRow
    BY DEF TypeOK
<1>2. \A l \in LeaseId : [leases[l] EXCEPT !.status = status] \in LeaseRow
    BY <1>1 DEF LeaseRow
<1>3. \A l \in LeaseId :
          /\ [leases[l] EXCEPT !.status = status].slot = leases[l].slot
          /\ [leases[l] EXCEPT !.status = status].expires_at = leases[l].expires_at
          /\ [leases[l] EXCEPT !.status = status].status = status
    BY <1>1 DEF LeaseRow
<1>. QED
    BY <1>1, <1>2, <1>3 DEF Marked

\* What Grant does to the table, row by row.
LEMMA GrantFacts ==
    ASSUME TypeOK, LeaseAssumption, NEW a \in Agent, Grant(a)
    PROVE  \E new \in LeaseId :
              /\ leases[new].status = "absent"
              /\ leases' \in [LeaseId -> LeaseRow]
              /\ leases'[new].slot = op[a].slot
              /\ leases'[new].status = "active"
              /\ \A l \in LeaseId \ {new} :
                    /\ leases'[l].slot = leases[l].slot
                    /\ leases'[l].expires_at = leases[l].expires_at
                    /\ l \in op[a].picked => leases'[l].status = "expired"
                    /\ l \notin op[a].picked => leases'[l].status = leases[l].status
<1>1. PICK new \in LeaseId :
          /\ leases[new].status = "absent"
          /\ leases' = [Marked(op[a].picked, "expired") EXCEPT
                          ![new] = [slot |-> op[a].slot,
                                    expires_at |-> op[a].now + op[a].duration,
                                    status |-> "active"]]
    BY DEF Grant
<1>2. [slot |-> op[a].slot, expires_at |-> op[a].now + op[a].duration,
       status |-> "active"] \in LeaseRow
    BY DEF TypeOK, Op, LeaseRow, Status
<1>3. Marked(op[a].picked, "expired") \in [LeaseId -> LeaseRow]
    BY MarkedFacts DEF Status
<1>4. leases' \in [LeaseId -> LeaseRow]
    BY <1>1, <1>2, <1>3
<1>5. \A l \in LeaseId \ {new} : leases'[l] = Marked(op[a].picked, "expired")[l]
    BY <1>1, <1>3
<1>6. leases'[new].slot = op[a].slot /\ leases'[new].status = "active"
    BY <1>1, <1>3
<1>. QED
    BY <1>1, <1>4, <1>5, <1>6, MarkedFacts DEF Status

-----------------------------------------------------------------------------
(* Type correctness.                                                       *)

LEMMA TypeInit == LeaseAssumption /\ Init => TypeOK
    BY DEF LeaseAssumption, Init, TypeOK, NoLease, LeaseRow, Status, Idle, Op, Step, Slot

LEMMA TypeNext == LeaseAssumption /\ TypeOK /\ [Next]_vars => TypeOK'
<1>. SUFFICES ASSUME LeaseAssumption, TypeOK, [Next]_vars
              PROVE  TypeOK'
    OBVIOUS
<1>. USE DEF TypeOK
<1>idle. Idle \in Op
    BY DEF Idle, Op, Step
<1>1. ASSUME NEW a \in Agent, NEW s \in Slot, NEW d \in Duration, BeginAcquire(a, s, d)
      PROVE  TypeOK'
    BY <1>1 DEF BeginAcquire, Op, Step, LeaseAssumption
<1>2. ASSUME NEW a \in Agent, FindNone(a)
      PROVE  TypeOK'
    BY <1>2 DEF FindNone, Op, Step
<1>3. ASSUME NEW a \in Agent, FindStale(a)
      PROVE  TypeOK'
  <2>1. PICK l \in LeaseId :
            op' = [op EXCEPT ![a].step = "acquire_write", ![a].picked = {l}]
    BY <1>3 DEF FindStale, ActiveRows
  <2>2. op[a] \in Op /\ "acquire_write" \in Step
    BY DEF Step
  <2>3. [op[a] EXCEPT !.step = "acquire_write", !.picked = {l}] \in Op
    BY <2>2 DEF Op
  <2>4. op' = [op EXCEPT ![a] = [op[a] EXCEPT !.step = "acquire_write", !.picked = {l}]]
    BY <2>1
  <2>5. op' \in [Agent -> Op]
    BY <2>3, <2>4
  <2>. QED
    BY <1>3, <2>5 DEF FindStale
<1>4. ASSUME NEW a \in Agent, Refuse(a)
      PROVE  TypeOK'
    BY <1>4, <1>idle DEF Refuse
<1>5. ASSUME NEW a \in Agent, Grant(a)
      PROVE  TypeOK'
    BY <1>5, <1>idle, GrantFacts DEF Grant
<1>6. ASSUME NEW a \in Agent, NEW l \in LeaseId, Release(a, l)
      PROVE  TypeOK'
    BY <1>6, MarkedFacts DEF Release, Status
<1>7. ASSUME NEW a \in Agent, NEW s \in Slot, SelectForRelease(a, s)
      PROVE  TypeOK'
  <2>1. PICK l \in LeaseId :
            op' = [op EXCEPT ![a] = [Idle EXCEPT !.step = "release_write", !.picked = {l}]]
    BY <1>7 DEF SelectForRelease, ActiveRows
  <2>2. op' \in [Agent -> Op]
    BY <2>1 DEF Idle, Op, Step
  <2>. QED
    BY <1>7, <2>2 DEF SelectForRelease
<1>8. ASSUME NEW a \in Agent, ReleaseSelected(a)
      PROVE  TypeOK'
    BY <1>8, <1>idle, MarkedFacts DEF ReleaseSelected, Status
<1>9. ASSUME NEW a \in Agent, NEW l \in LeaseId, SelectLease(a, l)
      PROVE  TypeOK'
    BY <1>9 DEF SelectLease, Idle, Op, Step
<1>10. ASSUME NEW a \in Agent, ExpireSelected(a)
       PROVE  TypeOK'
    BY <1>10, <1>idle, MarkedFacts DEF ExpireSelected, Status
<1>11. ASSUME NEW a \in Agent, BeginSweep(a)
       PROVE  TypeOK'
    BY <1>11 DEF BeginSweep, Idle, Op, Step
<1>12. ASSUME NEW a \in Agent, NEW runs, SelectExpired(a, runs)
       PROVE  TypeOK'
  <2>1. PICK rows \in SUBSET LeaseId :
            op' = [op EXCEPT ![a].step = "sweep_write", ![a].picked = rows]
    BY <1>12 DEF SelectExpired
  <2>2. op[a] \in Op /\ "sweep_write" \in Step
    BY DEF Step
  <2>3. [op[a] EXCEPT !.step = "sweep_write", !.picked = rows] \in Op
    BY <2>2 DEF Op
  <2>4. op' = [op EXCEPT ![a] = [op[a] EXCEPT !.step = "sweep_write", !.picked = rows]]
    BY <2>1
  <2>5. op' \in [Agent -> Op]
    BY <2>3, <2>4
  <2>. QED
    BY <1>12, <2>5 DEF SelectExpired
<1>13. ASSUME NEW a \in Agent, ExpireSwept(a)
       PROVE  TypeOK'
    BY <1>13, <1>idle, MarkedFacts DEF ExpireSwept, Status
<1>14. ASSUME NEW a \in Agent, Crash(a)
       PROVE  TypeOK'
    BY <1>14, <1>idle DEF Crash
<1>15. CASE Tick
    BY <1>15 DEF Tick
<1>16. CASE UNCHANGED vars
    BY <1>16 DEF vars
<1>. QED
    BY <1>1, <1>2, <1>3, <1>4, <1>5, <1>6, <1>7, <1>8, <1>9, <1>10, <1>11,
       <1>12, <1>13, <1>14, <1>15, <1>16 DEF Next

\* The table, the calls in flight and the clock keep their types.
THEOREM TypeCorrect == Spec => []TypeOK
    BY LeaseAssumption, TypeInit, TypeNext, PTL DEF Spec

-----------------------------------------------------------------------------
(* No resurrection: only Marked and Grant touch the table, Marked never    *)
(* marks a row active, and Grant takes an absent row.                      *)

LEMMA NoResurrectionStep ==
    ASSUME LeaseAssumption, TypeOK, [Next]_vars,
           NEW l \in LeaseId, leases[l].status # "absent"
    PROVE  /\ leases'[l].slot = leases[l].slot
           /\ leases'[l].expires_at = leases[l].expires_at
           /\ leases'[l].status = "active" => leases[l].status = "active"
<1>. USE MarkedFacts DEF Status
<1>1. CASE UNCHANGED leases
    BY <1>1
<1>2. CASE \E a \in Agent : Grant(a)
    BY <1>2, GrantFacts
<1>3. CASE \E a \in Agent, k \in LeaseId : Release(a, k)
    BY <1>3 DEF Release
<1>4. CASE \E a \in Agent : ReleaseSelected(a)
    BY <1>4 DEF ReleaseSelected
<1>5. CASE \E a \in Agent : ExpireSelected(a)
    BY <1>5 DEF ExpireSelected
<1>6. CASE \E a \in Agent : ExpireSwept(a)
    BY <1>6 DEF ExpireSwept
<1>7. \/ UNCHANGED leases
      \/ \E a \in Agent :
            \/ Grant(a)
            \/ \E k \in LeaseId : Release(a, k)
            \/ ReleaseSelected(a)
            \/ ExpireSelected(a)
            \/ ExpireSwept(a)
    BY DEF Next, vars, BeginAcquire, FindNone, FindStale, Refuse, SelectForRelease,
           SelectLease, BeginSweep, SelectExpired, Crash, Tick
<1>. QED
    BY <1>1, <1>2, <1>3, <1>4, <1>5, <1>6, <1>7

\* A lease keeps its slot and its expiry time and, once released or expired,
\* is never active again, whatever stale write reaches its row.
THEOREM LeasesNeverResurrect == Spec => NoResurrection
<1>1. LeaseAssumption /\ TypeOK /\ [Next]_vars
      => [\A l \in LeaseId :
             leases[l].status # "absent"
               => /\ leases'[l].slot = leases[l].slot
                  /\ leases'[l].expires_at = leases[l].expires_at
                  /\ leases'[l].status = "active" => leases[l].status = "active"]_vars
    BY NoResurrectionStep
<1>. QED
    BY <1>1, LeaseAssumption, TypeCorrect, PTL DEF Spec, NoResurrection

-----------------------------------------------------------------------------
(* Exclusion without a race.  ExclusiveUnlessRaced is not inductive: it    *)
(* needs to know that on a slot that has not been raced only one call is   *)
(* acquiring, and that a call about to insert has picked every active row. *)

SoleAcquirer ==
    \A a, b \in Agent, s \in Slot :
        Acquiring(a, s) /\ Acquiring(b, s) /\ s \notin raced => a = b

SlotNamed ==
    /\ \A a \in Agent : op[a].step \in {"acquire_read", "acquire_write"} => op[a].slot \in Slot
    /\ \A l \in LeaseId : leases[l].status = "active" => leases[l].slot \in Slot

StaleRowPicked ==
    \A a \in Agent, l \in LeaseId :
        /\ op[a].step = "acquire_write"
        /\ op[a].slot \notin raced
        /\ leases[l].status = "active"
        /\ leases[l].slot = op[a].slot
        => l \in op[a].picked

ExclusionInv ==
    /\ TypeOK
    /\ SoleAcquirer
    /\ SlotNamed
    /\ StaleRowPicked
    /\ ExclusiveUnlessRaced

(* Expiry in time.  A row that a call is about to mark expired had reached *)
(* its expiry time when the call read the clock, and keeps that time.      *)

PickedInTime ==
    \A a \in Agent :
        /\ op[a].now <= clock
        /\ op[a].step = "acquire_read" => op[a].picked = {}
        /\ op[a].step \in {"acquire_write", "sweep_write"}
             => \A l \in op[a].picked :
                   leases[l].status # "absent" /\ leases[l].expires_at <= clock

\* Only Grant makes a row active.
LEMMA ActiveOnlyByGrant ==
    ASSUME LeaseAssumption, TypeOK, [Next]_vars, \A a \in Agent : ~Grant(a),
           NEW l \in LeaseId, leases'[l].status = "active"
    PROVE  leases[l].status = "active" /\ leases'[l].slot = leases[l].slot
<1>. USE MarkedFacts DEF Status
<1>1. CASE UNCHANGED leases
    BY <1>1
<1>2. CASE \E a \in Agent, k \in LeaseId : Release(a, k)
    BY <1>2 DEF Release
<1>3. CASE \E a \in Agent : ReleaseSelected(a)
    BY <1>3 DEF ReleaseSelected
<1>4. CASE \E a \in Agent : ExpireSelected(a)
    BY <1>4 DEF ExpireSelected
<1>5. CASE \E a \in Agent : ExpireSwept(a)
    BY <1>5 DEF ExpireSwept
<1>6. \/ UNCHANGED leases
      \/ \E a \in Agent :
            \/ \E k \in LeaseId : Release(a, k)
            \/ ReleaseSelected(a)
            \/ ExpireSelected(a)
            \/ ExpireSwept(a)
    BY DEF Next, vars, BeginAcquire, FindNone, FindStale, Refuse, SelectForRelease,
           SelectLease, BeginSweep, SelectExpired, Crash, Tick
<1>. QED
    BY <1>1, <1>2, <1>3, <1>4, <1>5, <1>6

\* Calls in flight: which are acquiring after a step, and what they picked.
LEMMA AcquiringStep ==
    ASSUME TypeOK, [Next]_vars, NEW a \in Agent, op'[a].step \in {"acquire_read", "acquire_write"}
    PROVE  \/ op'[a] = op[a]
           \/ op'[a].slot = op[a].slot /\ op[a].step = "acquire_read" /\ (FindNone(a) \/ FindStale(a))
           \/ op'[a].step = "acquire_read" /\ \E s \in Slot, d \in Duration : BeginAcquire(a, s, d)
<1>. USE DEF TypeOK
<1>idle. Idle.step = "idle"
    BY DEF Idle
<1>1. CASE UNCHANGED op
    BY <1>1
<1>2. ASSUME NEW b \in Agent, NEW s \in Slot, NEW d \in Duration, BeginAcquire(b, s, d)
      PROVE  op'[a] = op[a] \/ (a = b /\ op'[a].step = "acquire_read")
    BY <1>2 DEF BeginAcquire
<1>3. ASSUME NEW b \in Agent, FindNone(b)
      PROVE  op'[a] = op[a] \/ (a = b /\ op'[a].slot = op[a].slot /\ op[a].step = "acquire_read")
    BY <1>3 DEF FindNone, Op
<1>4. ASSUME NEW b \in Agent, FindStale(b)
      PROVE  op'[a] = op[a] \/ (a = b /\ op'[a].slot = op[a].slot /\ op[a].step = "acquire_read")
  <2>1. PICK l \in LeaseId :
            op' = [op EXCEPT ![b].step = "acquire_write", ![b].picked = {l}]
    BY <1>4 DEF FindStale, ActiveRows
  <2>2. op[b] \in Op
    OBVIOUS
  <2>. QED
    BY <1>4, <2>1, <2>2 DEF FindStale, Op
<1>5. ASSUME NEW b \in Agent,
             \/ Refuse(b)
             \/ Grant(b)
             \/ ReleaseSelected(b)
             \/ ExpireSelected(b)
             \/ ExpireSwept(b)
             \/ Crash(b)
      PROVE  op'[a] = op[a]
    BY <1>5, <1>idle DEF Refuse, Grant, ReleaseSelected, ExpireSelected, ExpireSwept, Crash
<1>6. ASSUME NEW b \in Agent, NEW s, SelectForRelease(b, s)
      PROVE  op'[a] = op[a]
  <2>1. PICK l \in LeaseId :
            op' = [op EXCEPT ![b] = [Idle EXCEPT !.step = "release_write", !.picked = {l}]]
    BY <1>6 DEF SelectForRelease, ActiveRows
  <2>. QED
    BY <2>1 DEF Idle
<1>7. ASSUME NEW b \in Agent, NEW l, SelectLease(b, l) \/ BeginSweep(b)
      PROVE  op'[a] = op[a]
    BY <1>7 DEF SelectLease, BeginSweep, Idle
<1>8. ASSUME NEW b \in Agent, NEW runs, SelectExpired(b, runs)
      PROVE  op'[a] = op[a]
    BY <1>8 DEF SelectExpired, Op
<1>. QED
  <2>1. CASE UNCHANGED op
    BY <2>1
  <2>2. CASE \E b \in Agent, s \in Slot, d \in Duration : BeginAcquire(b, s, d)
    BY <2>2, <1>2
  <2>3. CASE \E b \in Agent : FindNone(b) \/ FindStale(b)
    BY <2>3, <1>3, <1>4
  <2>4. CASE \E b \in Agent :
                \/ Refuse(b) \/ Grant(b) \/ ReleaseSelected(b) \/ ExpireSelected(b)
                \/ ExpireSwept(b) \/ Crash(b) \/ BeginSweep(b)
                \/ \E s \in Slot : SelectForRelease(b, s)
                \/ \E l \in LeaseId : SelectLease(b, l)
                \/ SelectExpired(b, Run) \/ \E r \in Run : SelectExpired(b, {r})
    BY <2>4, <1>5, <1>6, <1>7, <1>8
  <2>. QED
    BY <2>1, <2>2, <2>3, <2>4 DEF Next, vars, Release, Tick

\* The history only grows, and a call that starts beside another of the
\* same slot is recorded in it.
LEMMA RacedStep ==
    ASSUME [Next]_vars
    PROVE  /\ raced \subseteq raced'
           /\ \A a, b \in Agent, s \in Slot, d \in Duration :
                BeginAcquire(a, s, d) /\ Acquiring(b, s) => s \in raced'
<1>1. \A a, b \in Agent, s \in Slot, d \in Duration :
          BeginAcquire(a, s, d) /\ Acquiring(b, s) => s \in raced'
    BY DEF BeginAcquire
<1>2. raced \subseteq raced'
    BY DEF Next, vars, BeginAcquire, FindNone, FindStale, Refuse, Grant, Release,
           SelectForRelease, ReleaseSelected, SelectLease, ExpireSelected,
           BeginSweep, SelectExpired, ExpireSwept, Crash, Tick
<1>. QED
    BY <1>1, <1>2

LEMMA SoleAcquirerNext ==
    ASSUME TypeOK, TypeOK', SoleAcquirer, [Next]_vars
    PROVE  SoleAcquirer'
<1>1. SUFFICES ASSUME NEW a \in Agent, NEW b \in Agent, NEW s \in Slot,
                      Acquiring(a, s)', Acquiring(b, s)', s \notin raced', a # b
               PROVE  FALSE
    BY DEF SoleAcquirer
<1>2. \A c \in Agent : Acquiring(c, s)' =>
          Acquiring(c, s) \/ \E d \in Duration : BeginAcquire(c, s, d)
  <2>1. SUFFICES ASSUME NEW c \in Agent, Acquiring(c, s)', ~Acquiring(c, s)
                 PROVE  \E d \in Duration : BeginAcquire(c, s, d)
    OBVIOUS
  <2>2. op'[c].step \in {"acquire_read", "acquire_write"} /\ op'[c].slot = s
    BY <2>1 DEF Acquiring
  <2>3. PICK t \in Slot, d \in Duration : BeginAcquire(c, t, d)
    BY <2>1, <2>2, AcquiringStep DEF Acquiring
  <2>4. op'[c].slot = t
    BY <2>3 DEF BeginAcquire, TypeOK
  <2>. QED
    BY <2>2, <2>3, <2>4
<1>3. ~(Acquiring(a, s) /\ Acquiring(b, s))
    BY <1>1, RacedStep DEF SoleAcquirer
<1>4. ASSUME NEW c \in Agent, NEW e \in Agent, c # e, Acquiring(e, s)', s \notin raced',
             NEW d \in Duration, BeginAcquire(c, s, d)
      PROVE  FALSE
  <2>1. op'[e] = op[e]
    BY <1>4 DEF BeginAcquire, TypeOK
  <2>2. Acquiring(e, s)
    BY <1>4, <2>1 DEF Acquiring
  <2>. QED
    BY <1>4, <2>2, RacedStep
<1>. QED
    BY <1>1, <1>2, <1>3, <1>4

LEMMA SlotNamedNext ==
    ASSUME LeaseAssumption, TypeOK, SlotNamed, [Next]_vars
    PROVE  SlotNamed'
<1>1. ASSUME NEW a \in Agent, op'[a].step \in {"acquire_read", "acquire_write"}
      PROVE  op'[a].slot \in Slot
  <2>1. CASE op'[a].slot = op[a].slot /\ op[a].step \in {"acquire_read", "acquire_write"}
    BY <2>1 DEF SlotNamed
  <2>2. CASE \E s \in Slot, d \in Duration : BeginAcquire(a, s, d)
    BY <2>2 DEF BeginAcquire, TypeOK
  <2>. QED
    BY <1>1, <2>1, <2>2, AcquiringStep
<1>2. ASSUME NEW l \in LeaseId, leases'[l].status = "active"
      PROVE  leases'[l].slot \in Slot
  <2>1. CASE \A a \in Agent : ~Grant(a)
    BY <1>2, <2>1, ActiveOnlyByGrant DEF SlotNamed
  <2>2. ASSUME NEW a \in Agent, Grant(a)
        PROVE  leases'[l].slot \in Slot
    <3>1. op[a].slot \in Slot
      BY <2>2 DEF Grant, SlotNamed
    <3>. QED
      BY <1>2, <2>2, <3>1, GrantFacts DEF SlotNamed
  <2>. QED
    BY <2>1, <2>2
<1>. QED
    BY <1>1, <1>2 DEF SlotNamed

\* What the granted row and the rows left active by a grant look like.
LEMMA GrantAlone ==
    ASSUME LeaseAssumption, ExclusionInv, NEW a \in Agent, Grant(a), op[a].slot \notin raced
    PROVE  \E new \in LeaseId :
              \A l \in LeaseId :
                  leases'[l].status = "active" /\ leases'[l].slot = op[a].slot => l = new
<1>1. op[a].step = "acquire_write"
    BY DEF Grant
<1>. QED
    BY <1>1, GrantFacts DEF ExclusionInv, StaleRowPicked

LEMMA StaleRowPickedNext ==
    ASSUME LeaseAssumption, ExclusionInv, [Next]_vars
    PROVE  StaleRowPicked'
<1>. USE DEF ExclusionInv
<1>1. SUFFICES ASSUME NEW a \in Agent, NEW l \in LeaseId,
                      op'[a].step = "acquire_write", op'[a].slot \notin raced',
                      leases'[l].status = "active", leases'[l].slot = op'[a].slot
               PROVE  l \in op'[a].picked
    BY DEF StaleRowPicked
<1>2. CASE op'[a] = op[a]
  <2>1. CASE \A b \in Agent : ~Grant(b)
    BY <1>1, <1>2, <2>1, ActiveOnlyByGrant, RacedStep DEF StaleRowPicked
  <2>2. ASSUME NEW b \in Agent, Grant(b)
        PROVE  l \in op'[a].picked
    <3>1. a # b
      BY <1>1, <2>2 DEF Grant, TypeOK, Idle
    <3>2. op[a].slot \in Slot /\ op[a].slot \notin raced
      BY <1>1, <1>2, RacedStep DEF SlotNamed
    <3>3. Acquiring(a, op[a].slot) /\ Acquiring(b, op[b].slot)
      BY <1>1, <1>2, <2>2 DEF Acquiring, Grant
    <3>4. op[b].slot # op[a].slot
      BY <3>1, <3>2, <3>3 DEF SoleAcquirer
    <3>5. leases[l].status = "active" /\ leases[l].slot = op[a].slot
      BY <1>1, <1>2, <2>2, <3>4, GrantFacts
    <3>. QED
      BY <1>1, <1>2, <3>2, <3>5 DEF StaleRowPicked
  <2>. QED
    BY <2>1, <2>2
<1>3. CASE FindNone(a)
  <2>1. UNCHANGED <<leases, raced>> /\ op'[a].slot = op[a].slot /\ ActiveRows(op[a].slot) = {}
    BY <1>3 DEF FindNone, TypeOK, Op
  <2>. QED
    BY <1>1, <2>1 DEF ActiveRows
<1>4. CASE FindStale(a)
  <2>1. PICK k \in ActiveRows(op[a].slot) :
            op' = [op EXCEPT ![a].step = "acquire_write", ![a].picked = {k}]
    BY <1>4 DEF FindStale
  <2>a. UNCHANGED <<leases, raced>>
    BY <1>4 DEF FindStale
  <2>b. op[a] \in Op
    BY DEF TypeOK
  <2>c. op' = [op EXCEPT ![a] = [op[a] EXCEPT !.step = "acquire_write", !.picked = {k}]]
    BY <2>1
  <2>d. op'[a] = [op[a] EXCEPT !.step = "acquire_write", !.picked = {k}]
    BY <2>c DEF TypeOK
  <2>2. UNCHANGED <<leases, raced>> /\ op'[a].slot = op[a].slot /\ op'[a].picked = {k}
    BY <2>a, <2>b, <2>d DEF Op
  <2>3. /\ k \in LeaseId /\ leases[k].status = "active" /\ leases[k].slot = op[a].slot
        /\ leases[l].status = "active" /\ leases[l].slot = op[a].slot
        /\ op[a].slot \notin raced
    BY <1>1, <2>1, <2>2 DEF ActiveRows
  <2>. QED
    BY <2>2, <2>3 DEF ExclusiveUnlessRaced
<1>. QED
    BY <1>1, <1>2, <1>3, <1>4, AcquiringStep

LEMMA ExclusiveNext ==
    ASSUME LeaseAssumption, ExclusionInv, [Next]_vars
    PROVE  ExclusiveUnlessRaced'
<1>. USE DEF ExclusionInv
<1>1. SUFFICES ASSUME NEW l \in LeaseId, NEW m \in LeaseId, l # m,
                      leases'[l].status = "active", leases'[m].status = "active",
                      leases'[l].slot = leases'[m].slot, leases'[l].slot \notin raced'
               PROVE  FALSE
    BY DEF ExclusiveUnlessRaced
<1>2. CASE \A a \in Agent : ~Grant(a)
  <2>1. /\ leases[l].status = "active" /\ leases'[l].slot = leases[l].slot
        /\ leases[m].status = "active" /\ leases'[m].slot = leases[m].slot
    BY <1>1, <1>2, ActiveOnlyByGrant
  <2>. QED
    BY <1>1, <2>1, RacedStep DEF ExclusiveUnlessRaced
<1>3. ASSUME NEW a \in Agent, Grant(a)
      PROVE  FALSE
  <2>1. CASE leases'[l].slot = op[a].slot
    BY <1>1, <1>3, <2>1, GrantAlone, RacedStep
  <2>2. CASE leases'[l].slot # op[a].slot
    <3>1. /\ leases[l].status = "active" /\ leases'[l].slot = leases[l].slot
          /\ leases[m].status = "active" /\ leases'[m].slot = leases[m].slot
      BY <1>1, <1>3, <2>2, GrantFacts
    <3>. QED
      BY <1>1, <3>1, RacedStep DEF ExclusiveUnlessRaced
  <2>. QED
    BY <2>1, <2>2
<1>. QED
    BY <1>2, <1>3

\* As long as no two acquires of a slot overlap, at most one of its rows is
\* active, whatever releases, sweeps, crashes and ticks come in between.
THEOREM LeaseExclusion == Spec => []ExclusiveUnlessRaced
<1>1. LeaseAssumption /\ Init => ExclusionInv
  <2>1. LeaseAssumption /\ Init => SoleAcquirer /\ SlotNamed /\ StaleRowPicked /\ ExclusiveUnlessRaced
    BY DEF Init, NoLease, Idle, SoleAcquirer, Acquiring, SlotNamed, StaleRowPicked,
           ExclusiveUnlessRaced
  <2>. QED
    BY <2>1, TypeInit DEF ExclusionInv
<1>2. LeaseAssumption /\ ExclusionInv /\ [Next]_vars => ExclusionInv'
    BY TypeNext, SoleAcquirerNext, SlotNamedNext, StaleRowPickedNext, ExclusiveNext
    DEF ExclusionInv
<1>3. ExclusionInv => ExclusiveUnlessRaced
    BY DEF ExclusionInv
<1>. QED
    BY <1>1, <1>2, <1>3, LeaseAssumption, PTL DEF Spec

-----------------------------------------------------------------------------
(* Expiry in time.                                                         *)

ExpiryInv == TypeOK /\ PickedInTime

\* A step never turns the clock back, and changes no row's expiry time.
LEMMA TimeStep ==
    ASSUME LeaseAssumption, TypeOK, [Next]_vars
    PROVE  /\ clock' \in Nat /\ clock <= clock'
           /\ \A l \in LeaseId : leases[l].status # "absent" =>
                 leases'[l].status # "absent" /\ leases'[l].expires_at = leases[l].expires_at
<1>0. UNCHANGED clock \/ clock' = clock + 1
    BY DEF Next, vars, BeginAcquire, FindNone, FindStale, Refuse, Grant, Release,
           SelectForRelease, ReleaseSelected, SelectLease, ExpireSelected,
           BeginSweep, SelectExpired, ExpireSwept, Crash, Tick
<1>1. clock' \in Nat /\ clock <= clock'
    BY <1>0 DEF TypeOK
<1>2. SUFFICES ASSUME NEW l \in LeaseId, leases[l].status # "absent"
               PROVE  leases'[l].status # "absent"
    BY <1>1, NoResurrectionStep
<1>. USE <1>2, MarkedFacts DEF Status
<1>3. CASE UNCHANGED leases
    BY <1>3
<1>4. CASE \E a \in Agent : Grant(a)
    BY <1>4, GrantFacts
<1>5. CASE \E a \in Agent, k \in LeaseId : Release(a, k)
    BY <1>5 DEF Release
<1>6. CASE \E a \in Agent : ReleaseSelected(a)
    BY <1>6 DEF ReleaseSelected
<1>7. CASE \E a \in Agent : ExpireSelected(a)
    BY <1>7 DEF ExpireSelected
<1>8. CASE \E a \in Agent : ExpireSwept(a)
    BY <1>8 DEF ExpireSwept
<1>9. \/ UNCHANGED leases
      \/ \E a \in Agent :
            \/ Grant(a)
            \/ \E k \in LeaseId : Release(a, k)
            \/ ReleaseSelected(a)
            \/ ExpireSelected(a)
            \/ ExpireSwept(a)
    BY DEF Next, vars, BeginAcquire, FindNone, FindStale, Refuse, SelectForRelease,
           SelectLease, BeginSweep, SelectExpired, Crash, Tick
<1>. QED
    BY <1>3, <1>4, <1>5, <1>6, <1>7, <1>8, <1>9

\* What a call in flight may newly believe after a step: nothing, or rows
\* whose expiry time its own clock reading had reached.
PickedAfter(a) ==
    \/ op'[a] = op[a]
    \/ /\ op'[a].now <= clock
       /\ op'[a].step \notin {"acquire_write", "sweep_write"}
    \/ /\ UNCHANGED leases
       /\ op'[a].now = op[a].now
       /\ \A l \in op'[a].picked :
             leases[l].status # "absent" /\ leases[l].expires_at <= op[a].now

LEMMA PickedStep ==
    ASSUME LeaseAssumption, TypeOK, [Next]_vars, NEW a \in Agent,
           op[a].step = "acquire_read" => op[a].picked = {}
    PROVE  PickedAfter(a)
<1>. USE DEF TypeOK, PickedAfter
<1>idle. Idle.step = "idle" /\ Idle.now = 0
    BY DEF Idle
<1>1. ASSUME NEW b \in Agent, NEW s \in Slot, NEW d \in Duration, BeginAcquire(b, s, d)
      PROVE  PickedAfter(a)
    BY <1>1 DEF BeginAcquire
<1>2. ASSUME NEW b \in Agent, FindNone(b)
      PROVE  PickedAfter(a)
    BY <1>2 DEF FindNone, Op
<1>3. ASSUME NEW b \in Agent, FindStale(b)
      PROVE  PickedAfter(a)
  <2>1. PICK l \in ActiveRows(op[b].slot) :
            /\ leases[l].expires_at <= op[b].now
            /\ op' = [op EXCEPT ![b].step = "acquire_write", ![b].picked = {l}]
    BY <1>3 DEF FindStale
  <2>2. l \in LeaseId /\ leases[l].status = "active"
    BY DEF ActiveRows
  <2>3. op' = [op EXCEPT ![b] = [op[b] EXCEPT !.step = "acquire_write", !.picked = {l}]]
    BY <2>1
  <2>4. op[b] \in Op /\ UNCHANGED leases
    BY <1>3 DEF FindStale
  <2>5. CASE a = b
    <3>1. op'[a] = [op[b] EXCEPT !.step = "acquire_write", !.picked = {l}]
      BY <2>3, <2>5
    <3>2. op'[a].now = op[a].now /\ op'[a].picked = {l}
      BY <3>1, <2>4, <2>5 DEF Op
    <3>. QED
      BY <2>1, <2>2, <2>4, <2>5, <3>2
  <2>6. CASE a # b
    BY <2>3, <2>6
  <2>. QED
    BY <2>5, <2>6
<1>4. ASSUME NEW b \in Agent,
             \/ Refuse(b)
             \/ Grant(b)
             \/ ReleaseSelected(b)
             \/ ExpireSelected(b)
             \/ ExpireSwept(b)
             \/ Crash(b)
      PROVE  PickedAfter(a)
    BY <1>4, <1>idle DEF Refuse, Grant, ReleaseSelected, ExpireSelected, ExpireSwept, Crash
<1>5. ASSUME NEW b \in Agent, NEW s, SelectForRelease(b, s)
      PROVE  PickedAfter(a)
  <2>1. PICK l \in LeaseId :
            op' = [op EXCEPT ![b] = [Idle EXCEPT !.step = "release_write", !.picked = {l}]]
    BY <1>5 DEF SelectForRelease, ActiveRows
  <2>. QED
    BY <2>1 DEF Idle
<1>6. ASSUME NEW b \in Agent, NEW l, SelectLease(b, l) \/ BeginSweep(b)
      PROVE  PickedAfter(a)
  <2>1. CASE SelectLease(b, l)
    BY <2>1 DEF SelectLease, Idle
  <2>2. CASE BeginSweep(b)
    BY <2>2 DEF BeginSweep, Idle
  <2>. QED
    BY <1>6, <2>1, <2>2
<1>7. ASSUME NEW b \in Agent, NEW runs, SelectExpired(b, runs)
      PROVE  PickedAfter(a)
  <2>1. UNCHANGED leases /\ op'[a].now = op[a].now
    BY <1>7 DEF SelectExpired, Op
  <2>2. CASE a = b
    <3>1. op'[a].picked = {l \in LeaseId : /\ leases[l].status = "active"
                                           /\ leases[l].slot \in runs \X Phase
                                           /\ leases[l].expires_at < op[a].now}
      BY <1>7, <2>2 DEF SelectExpired, Op
    <3>2. \A l \in op'[a].picked :
              leases[l].status # "absent" /\ leases[l].expires_at <= op[a].now
      BY <3>1 DEF Op, LeaseRow
    <3>. QED
      BY <2>1, <3>2
  <2>3. CASE a # b
    BY <1>7, <2>3 DEF SelectExpired
  <2>. QED
    BY <2>2, <2>3
<1>8. CASE UNCHANGED op
    BY <1>8
<1>. QED
  <2>1. CASE \E b \in Agent, s \in Slot, d \in Duration : BeginAcquire(b, s, d)
    BY <2>1, <1>1
  <2>2. CASE \E b \in Agent : FindNone(b) \/ FindStale(b)
    BY <2>2, <1>2, <1>3
  <2>3. CASE \E b \in Agent :
                \/ Refuse(b) \/ Grant(b) \/ ReleaseSelected(b) \/ ExpireSelected(b)
                \/ ExpireSwept(b) \/ Crash(b) \/ BeginSweep(b)
                \/ \E s \in Slot : SelectForRelease(b, s)
                \/ \E l \in LeaseId : SelectLease(b, l)
                \/ SelectExpired(b, Run) \/ \E r \in Run : SelectExpired(b, {r})
    BY <2>3, <1>4, <1>5, <1>6, <1>7
  <2>. QED
    BY <1>8, <2>1, <2>2, <2>3 DEF Next, vars, Release, Tick

LEMMA NothingPickedToRead ==
    ASSUME TypeOK, [Next]_vars, NEW a \in Agent, op'[a].step = "acquire_read",
           op[a].step = "acquire_read" => op[a].picked = {}
    PROVE  op'[a].picked = {}
<1>1. CASE FindNone(a) \/ FindStale(a)
  <2>1. CASE FindNone(a)
    BY <2>1 DEF FindNone, TypeOK, Op
  <2>2. CASE FindStale(a)
    <3>1. PICK l \in LeaseId :
              op' = [op EXCEPT ![a].step = "acquire_write", ![a].picked = {l}]
      BY <2>2 DEF FindStale, ActiveRows
    <3>2. op' = [op EXCEPT ![a] = [op[a] EXCEPT !.step = "acquire_write", !.picked = {l}]]
      BY <3>1
    <3>3. op'[a].step = "acquire_write"
      BY <3>2 DEF TypeOK, Op
    <3>. QED
      BY <3>3
  <2>. QED
    BY <1>1, <2>1, <2>2
<1>2. CASE \E s \in Slot, d \in Duration : BeginAcquire(a, s, d)
    BY <1>2 DEF BeginAcquire, TypeOK
<1>. QED
    BY <1>1, <1>2, AcquiringStep

LEMMA PickedInTimeNext ==
    ASSUME LeaseAssumption, ExpiryInv, [Next]_vars
    PROVE  PickedInTime'
<1>. SUFFICES ASSUME NEW a \in Agent
              PROVE  /\ op'[a].now <= clock'
                     /\ op'[a].step = "acquire_read" => op'[a].picked = {}
                     /\ op'[a].step \in {"acquire_write", "sweep_write"}
                          => \A l \in op'[a].picked :
                                leases'[l].status # "absent" /\ leases'[l].expires_at <= clock'
    BY DEF PickedInTime
<1>. USE DEF ExpiryInv
<1>1. op[a].step = "acquire_read" => op[a].picked = {}
    BY DEF PickedInTime
<1>2. op'[a].step = "acquire_read" => op'[a].picked = {}
    BY <1>1, NothingPickedToRead
<1>3. op[a] \in Op /\ op[a].now \in Nat /\ clock \in Nat /\ clock' \in Nat /\ clock <= clock'
    BY TimeStep DEF TypeOK, Op
<1>4. op[a].now <= clock
    BY DEF PickedInTime
<1>5. op'[a] \in Op /\ op'[a].now \in Nat
    BY TypeNext DEF TypeOK, Op
<1>6. \A l \in LeaseId : leases[l].expires_at \in Nat
    BY DEF TypeOK, LeaseRow
<1>7. PickedAfter(a)
    BY <1>1, PickedStep
<1>8. op'[a].now <= clock'
    BY <1>3, <1>4, <1>5, <1>7 DEF PickedAfter
<1>9. ASSUME op'[a].step \in {"acquire_write", "sweep_write"}, NEW l \in op'[a].picked
      PROVE  leases'[l].status # "absent" /\ leases'[l].expires_at <= clock'
  <2>1. l \in LeaseId
    BY <1>5, <1>9 DEF Op
  <2>2. CASE op'[a] = op[a]
    <3>1. leases[l].status # "absent" /\ leases[l].expires_at <= clock
      BY <1>9, <2>2 DEF PickedInTime
    <3>. QED
      BY <1>3, <1>6, <2>1, <3>1, TimeStep
  <2>3. CASE /\ UNCHANGED leases
             /\ \A k \in op'[a].picked :
                   leases[k].status # "absent" /\ leases[k].expires_at <= op[a].now
    BY <1>3, <1>4, <1>6, <1>9, <2>1, <2>3
  <2>. QED
    BY <1>7, <1>9, <2>2, <2>3 DEF PickedAfter
<1>. QED
    BY <1>2, <1>8, <1>9

LEMMA ExpiryStep ==
    ASSUME LeaseAssumption, ExpiryInv, [Next]_vars,
           NEW l \in LeaseId, leases[l].status = "active", leases'[l].status = "expired"
    PROVE  leases[l].expires_at <= clock
<1>. USE MarkedFacts DEF ExpiryInv, Status
<1>1. ASSUME NEW a \in Agent, Grant(a)
      PROVE  leases[l].expires_at <= clock
  <2>1. l \in op[a].picked
    BY <1>1, GrantFacts
  <2>. QED
    BY <1>1, <2>1 DEF Grant, PickedInTime
<1>2. CASE \E a \in Agent, k \in LeaseId : Release(a, k)
    BY <1>2 DEF Release
<1>3. CASE \E a \in Agent : ReleaseSelected(a)
    BY <1>3 DEF ReleaseSelected
<1>4. ASSUME NEW a \in Agent, ExpireSelected(a)
      PROVE  leases[l].expires_at <= clock
  <2>1. leases[l].expires_at < clock
    BY <1>4 DEF ExpireSelected
  <2>. QED
    BY <2>1 DEF TypeOK, LeaseRow
<1>5. ASSUME NEW a \in Agent, ExpireSwept(a)
      PROVE  leases[l].expires_at <= clock
    BY <1>5 DEF ExpireSwept, PickedInTime
<1>6. \/ UNCHANGED leases
      \/ \E a \in Agent :
            \/ Grant(a)
            \/ \E k \in LeaseId : Release(a, k)
            \/ ReleaseSelected(a)
            \/ ExpireSelected(a)
            \/ ExpireSwept(a)
    BY DEF Next, vars, BeginAcquire, FindNone, FindStale, Refuse, SelectForRelease,
           SelectLease, BeginSweep, SelectExpired, Crash, Tick
<1>. QED
    BY <1>1, <1>2, <1>3, <1>4, <1>5, <1>6

\* No lease is marked expired before its time, although the decision rests
\* on a row and a clock read before the write.
THEOREM LeasesExpireInTime == Spec => NoEarlyExpiry
<1>1. LeaseAssumption /\ Init => ExpiryInv
    BY TypeInit DEF Init, NoLease, Idle, ExpiryInv, PickedInTime
<1>2. LeaseAssumption /\ ExpiryInv /\ [Next]_vars => ExpiryInv'
    BY TypeNext, PickedInTimeNext DEF ExpiryInv
<1>3. LeaseAssumption /\ ExpiryInv /\ [Next]_vars
      => [\A l \in LeaseId :
             leases[l].status = "active" /\ leases'[l].status = "expired"
               => leases[l].expires_at <= clock]_vars
    BY ExpiryStep
<1>. QED
    BY <1>1, <1>2, <1>3, LeaseAssumption, PTL DEF Spec, NoEarlyExpiry

-----------------------------------------------------------------------------
(* The board.  A step maps to a step of LeaseBoard because a row that a    *)
(* call holds on to between two statements is a real one: what an acquire  *)
(* will expire lies in its own slot, and release_by_run_phase has one row. *)

WellPicked ==
    \A a \in Agent :
        /\ \A l \in op[a].picked :
              /\ leases[l].status # "absent"
              /\ op[a].step = "acquire_write" => leases[l].slot = op[a].slot
        /\ op[a].step = "release_write" => \E l \in LeaseId : op[a].picked = {l}

BoardInv == ExclusionInv /\ PickedInTime /\ WellPicked

\* What a call in flight may newly hold after a step: nothing, or rows it
\* has just selected.
SelectedAfter(a) ==
    \/ op'[a] = op[a]
    \/ op'[a].picked = {} /\ op'[a].step # "release_write"
    \/ /\ UNCHANGED leases
       /\ \A l \in op'[a].picked :
             /\ leases[l].status # "absent"
             /\ op'[a].step = "acquire_write" => leases[l].slot = op'[a].slot
       /\ op'[a].step = "release_write" => \E l \in LeaseId : op'[a].picked = {l}

LEMMA SelectedStep ==
    ASSUME LeaseAssumption, TypeOK, PickedInTime, [Next]_vars, NEW a \in Agent
    PROVE  SelectedAfter(a)
<1>. USE DEF TypeOK, SelectedAfter
<1>idle. Idle.step = "idle" /\ Idle.picked = {}
    BY DEF Idle
<1>1. ASSUME NEW b \in Agent, NEW s \in Slot, NEW d \in Duration, BeginAcquire(b, s, d)
      PROVE  SelectedAfter(a)
    BY <1>1 DEF BeginAcquire
<1>2. ASSUME NEW b \in Agent, FindNone(b)
      PROVE  SelectedAfter(a)
  <2>1. op[b].picked = {} /\ op[b] \in Op
    BY <1>2 DEF FindNone, PickedInTime
  <2>2. op' = [op EXCEPT ![b] = [op[b] EXCEPT !.step = "acquire_write"]]
    BY <1>2 DEF FindNone
  <2>3. op'[b].picked = {} /\ op'[b].step = "acquire_write"
    BY <2>1, <2>2 DEF Op
  <2>4. a # b => op'[a] = op[a]
    BY <2>2
  <2>. QED
    BY <2>3, <2>4
<1>3. ASSUME NEW b \in Agent, FindStale(b)
      PROVE  SelectedAfter(a)
  <2>1. PICK l \in ActiveRows(op[b].slot) :
            op' = [op EXCEPT ![b].step = "acquire_write", ![b].picked = {l}]
    BY <1>3 DEF FindStale
  <2>2. l \in LeaseId /\ leases[l].status = "active" /\ leases[l].slot = op[b].slot
    BY DEF ActiveRows
  <2>3. op' = [op EXCEPT ![b] = [op[b] EXCEPT !.step = "acquire_write", !.picked = {l}]]
    BY <2>1
  <2>4. op[b] \in Op /\ UNCHANGED leases
    BY <1>3 DEF FindStale
  <2>5. op'[b] = [op[b] EXCEPT !.step = "acquire_write", !.picked = {l}]
    BY <2>3
  <2>6. op'[b].slot = op[b].slot /\ op'[b].picked = {l} /\ op'[b].step = "acquire_write"
    BY <2>4, <2>5 DEF Op
  <2>7. a # b => op'[a] = op[a]
    BY <2>3
  <2>. QED
    BY <2>2, <2>4, <2>6, <2>7
<1>4. ASSUME NEW b \in Agent,
             \/ Refuse(b)
             \/ Grant(b)
             \/ ReleaseSelected(b)
             \/ ExpireSelected(b)
             \/ ExpireSwept(b)
             \/ Crash(b)
      PROVE  SelectedAfter(a)
    BY <1>4, <1>idle DEF Refuse, Grant, ReleaseSelected, ExpireSelected, ExpireSwept, Crash
<1>5. ASSUME NEW b \in Agent, NEW s, SelectForRelease(b, s)
      PROVE  SelectedAfter(a)
  <2>1. PICK l \in LeaseId :
            /\ leases[l].status = "active"
            /\ op' = [op EXCEPT ![b] = [Idle EXCEPT !.step = "release_write", !.picked = {l}]]
    BY <1>5 DEF SelectForRelease, ActiveRows
  <2>2. op'[b].picked = {l} /\ op'[b].step = "release_write"
    BY <2>1 DEF Idle
  <2>3. UNCHANGED leases
    BY <1>5 DEF SelectForRelease
  <2>4. a # b => op'[a] = op[a]
    BY <2>1
  <2>. QED
    BY <2>1, <2>2, <2>3, <2>4
<1>6. ASSUME NEW b \in Agent, NEW l \in LeaseId, SelectLease(b, l)
      PROVE  SelectedAfter(a)
  <2>1. op'[b].picked = {l} /\ op'[b].step = "expire_write"
    BY <1>6 DEF SelectLease, Idle
  <2>2. UNCHANGED leases /\ leases[l].status = "active" /\ (a # b => op'[a] = op[a])
    BY <1>6 DEF SelectLease
  <2>. QED
    BY <2>1, <2>2
<1>7. ASSUME NEW b \in Agent, BeginSweep(b)
      PROVE  SelectedAfter(a)
    BY <1>7 DEF BeginSweep, Idle
<1>8. ASSUME NEW b \in Agent, NEW runs, SelectExpired(b, runs)
      PROVE  SelectedAfter(a)
  <2>1. /\ UNCHANGED leases /\ op'[b].step = "sweep_write"
        /\ \A l \in op'[b].picked : leases[l].status = "active"
    BY <1>8 DEF SelectExpired, Op
  <2>2. a # b => op'[a] = op[a]
    BY <1>8 DEF SelectExpired
  <2>. QED
    BY <2>1, <2>2
<1>9. CASE UNCHANGED op
    BY <1>9
<1>. QED
  <2>1. CASE \E b \in Agent, s \in Slot, d \in Duration : BeginAcquire(b, s, d)
    BY <2>1, <1>1
  <2>2. CASE \E b \in Agent : FindNone(b) \/ FindStale(b)
    BY <2>2, <1>2, <1>3
  <2>3. CASE \E b \in Agent :
                \/ Refuse(b) \/ Grant(b) \/ ReleaseSelected(b) \/ ExpireSelected(b)
                \/ ExpireSwept(b) \/ Crash(b)
    BY <2>3, <1>4
  <2>4. CASE \E b \in Agent :
                \/ BeginSweep(b)
                \/ \E s \in Slot : SelectForRelease(b, s)
                \/ \E l \in LeaseId : SelectLease(b, l)
                \/ SelectExpired(b, Run) \/ \E r \in Run : SelectExpired(b, {r})
    BY <2>4, <1>5, <1>6, <1>7, <1>8
  <2>. QED
    BY <1>9, <2>1, <2>2, <2>3, <2>4 DEF Next, vars, Release, Tick

LEMMA WellPickedNext ==
    ASSUME LeaseAssumption, TypeOK, PickedInTime, WellPicked, [Next]_vars
    PROVE  WellPicked'
<1>1. \A a \in Agent : op[a].picked \subseteq LeaseId
    BY DEF TypeOK, Op
<1>2. SUFFICES ASSUME NEW a \in Agent
               PROVE  /\ \A l \in op'[a].picked :
                            /\ leases'[l].status # "absent"
                            /\ op'[a].step = "acquire_write" => leases'[l].slot = op'[a].slot
                      /\ op'[a].step = "release_write" => \E l \in LeaseId : op'[a].picked = {l}
    BY DEF WellPicked
<1>3. CASE op'[a] = op[a]
  <2>1. \A l \in op[a].picked : leases'[l].status # "absent" /\ leases'[l].slot = leases[l].slot
    BY <1>1, TimeStep, NoResurrectionStep DEF WellPicked
  <2>. QED
    BY <1>3, <2>1 DEF WellPicked
<1>4. CASE op'[a].picked = {} /\ op'[a].step # "release_write"
    BY <1>4
<1>5. CASE /\ UNCHANGED leases
           /\ \A l \in op'[a].picked :
                 /\ leases[l].status # "absent"
                 /\ op'[a].step = "acquire_write" => leases[l].slot = op'[a].slot
           /\ op'[a].step = "release_write" => \E l \in LeaseId : op'[a].picked = {l}
    BY <1>5
<1>. QED
    BY <1>3, <1>4, <1>5, SelectedStep DEF SelectedAfter

(* The board that a table stands for, as AgentLeases gives it to Board.    *)

Asks == [a \in Agent |-> IF op[a].step \in {"acquire_read", "acquire_write"}
                         THEN op[a].slot ELSE NoSlot]

Rows == [s \in Slot |-> ActiveRows(s)]

Due == [l \in LeaseId |-> leases[l].expires_at]

Used == {l \in LeaseId : leases[l].status # "absent"}

\* Only agent a's call moves on.
Moves(a) == \A b \in Agent \ {a} : op'[b] = op[b]

LEMMA AskMoves ==
    ASSUME NEW a \in Agent, Moves(a)
    PROVE  Asks' = [Asks EXCEPT ![a] =
                      IF op'[a].step \in {"acquire_read", "acquire_write"}
                      THEN op'[a].slot ELSE NoSlot]
    BY DEF Moves, Asks

LEMMA AskStays ==
    ASSUME NEW a \in Agent, Moves(a), Asks[a] =
                      IF op'[a].step \in {"acquire_read", "acquire_write"}
                      THEN op'[a].slot ELSE NoSlot
    PROVE  Asks' = Asks
<1>1. Asks' = [Asks EXCEPT ![a] = Asks[a]]
    BY AskMoves
<1>2. [Asks EXCEPT ![a] = Asks[a]] = Asks
    BY DEF Asks
<1>. QED
    BY <1>1, <1>2

LEMMA TableStays ==
    ASSUME UNCHANGED leases
    PROVE  UNCHANGED <<Rows, Due, Used>>
    BY DEF Rows, ActiveRows, Due, Used

\* Rows that leave the board keep their ids and their times.
LEMMA TableMarked ==
    ASSUME TypeOK, NEW ids, NEW status \in {"released", "expired"},
           \A l \in ids : leases[l].status # "absent",
           leases' = Marked(ids, status)
    PROVE  /\ Rows' = [s \in Slot |-> Rows[s] \ ids]
           /\ UNCHANGED <<Due, Used>>
<1>1. \A l \in LeaseId :
          /\ leases'[l].slot = leases[l].slot
          /\ leases'[l].expires_at = leases[l].expires_at
          /\ l \in ids => leases'[l].status = status
          /\ l \notin ids => leases'[l].status = leases[l].status
    BY MarkedFacts DEF Status
<1>2. Due' = Due
    BY <1>1 DEF Due
<1>3. Used' = Used
    BY <1>1 DEF Used
<1>4. \A s \in Slot : ActiveRows(s)' = ActiveRows(s) \ ids
    BY <1>1 DEF ActiveRows
<1>5. Rows' = [s \in Slot |-> ActiveRows(s)']
    BY DEF Rows
<1>6. \A s \in Slot : Rows[s] = ActiveRows(s)
    BY DEF Rows
<1>. QED
    BY <1>2, <1>3, <1>4, <1>5, <1>6

LEMMA AskStep ==
    ASSUME LeaseAssumption, TypeOK,
           NEW a \in Agent, NEW s \in Slot, NEW d \in Duration, BeginAcquire(a, s, d)
    PROVE  Board!Ask(a, s)
<1>1. Moves(a) /\ op'[a].step = "acquire_read" /\ op'[a].slot = s /\ UNCHANGED <<leases, clock>>
    BY DEF BeginAcquire, Moves, TypeOK
<1>2. Asks[a] = NoSlot
    BY DEF BeginAcquire, Asks
<1>3. Asks' = [Asks EXCEPT ![a] = s]
    BY <1>1, AskMoves
<1>4. \A b \in Agent : Acquiring(b, s) <=> Asks[b] = s
    BY DEF Acquiring, Asks, LeaseAssumption, Slot
<1>5. raced' = IF \E b \in Agent : Asks[b] = s THEN raced \cup {s} ELSE raced
    BY <1>4 DEF BeginAcquire
<1>. QED
    BY <1>1, <1>2, <1>3, <1>5, TableStays DEF Board!Ask, Asks, Rows, Due, Used

\* A SELECT changes nothing that others can see.
LEMMA LookStep ==
    ASSUME TypeOK, NEW a \in Agent,
           \/ FindNone(a)
           \/ FindStale(a)
           \/ \E s \in Slot : SelectForRelease(a, s)
           \/ \E l \in LeaseId : SelectLease(a, l)
           \/ BeginSweep(a)
           \/ \E runs \in SUBSET Run : SelectExpired(a, runs)
    PROVE  UNCHANGED Board!vars
<1>. USE DEF TypeOK
<1>a. op[a] \in Op
    OBVIOUS
<1>1. ASSUME Moves(a), UNCHANGED <<leases, clock, raced>>,
             Asks[a] = IF op'[a].step \in {"acquire_read", "acquire_write"}
                       THEN op'[a].slot ELSE NoSlot
      PROVE  UNCHANGED Board!vars
    BY <1>1, AskStays, TableStays DEF Board!vars, Asks, Rows, Due, Used
<1>2. ASSUME FindNone(a)
      PROVE  UNCHANGED Board!vars
  <2>1. op' = [op EXCEPT ![a] = [op[a] EXCEPT !.step = "acquire_write"]]
    BY <1>2 DEF FindNone
  <2>2. Moves(a) /\ op'[a].step = "acquire_write" /\ op'[a].slot = op[a].slot
    BY <2>1, <1>a DEF Moves, Op
  <2>3. Asks[a] = op[a].slot
    BY <1>2 DEF FindNone, Asks
  <2>. QED
    BY <1>1, <1>2, <2>2, <2>3 DEF FindNone
<1>3. ASSUME FindStale(a)
      PROVE  UNCHANGED Board!vars
  <2>1. PICK l \in LeaseId :
            op' = [op EXCEPT ![a].step = "acquire_write", ![a].picked = {l}]
    BY <1>3 DEF FindStale, ActiveRows
  <2>2. op' = [op EXCEPT ![a] = [op[a] EXCEPT !.step = "acquire_write", !.picked = {l}]]
    BY <2>1
  <2>3. op'[a] = [op[a] EXCEPT !.step = "acquire_write", !.picked = {l}]
    BY <2>2
  <2>4. Moves(a) /\ op'[a].step = "acquire_write" /\ op'[a].slot = op[a].slot
    BY <2>2, <2>3, <1>a DEF Moves, Op
  <2>5. Asks[a] = op[a].slot
    BY <1>3 DEF FindStale, Asks
  <2>. QED
    BY <1>1, <1>3, <2>4, <2>5 DEF FindStale
<1>4. ASSUME NEW s, SelectForRelease(a, s)
      PROVE  UNCHANGED Board!vars
  <2>1. PICK l \in LeaseId :
            op' = [op EXCEPT ![a] = [Idle EXCEPT !.step = "release_write", !.picked = {l}]]
    BY <1>4 DEF SelectForRelease, ActiveRows
  <2>2. Moves(a) /\ op'[a].step = "release_write"
    BY <2>1 DEF Moves, Idle
  <2>3. Asks[a] = NoSlot
    BY <1>4 DEF SelectForRelease, Asks
  <2>. QED
    BY <1>1, <1>4, <2>2, <2>3 DEF SelectForRelease
<1>5. ASSUME NEW l, SelectLease(a, l)
      PROVE  UNCHANGED Board!vars
  <2>1. Moves(a) /\ op'[a].step = "expire_write" /\ Asks[a] = NoSlot
    BY <1>5 DEF SelectLease, Moves, Idle, Asks
  <2>. QED
    BY <1>1, <1>5, <2>1 DEF SelectLease
<1>6. ASSUME BeginSweep(a)
      PROVE  UNCHANGED Board!vars
  <2>1. Moves(a) /\ op'[a].step = "sweep_read" /\ Asks[a] = NoSlot
    BY <1>6 DEF BeginSweep, Moves, Idle, Asks
  <2>. QED
    BY <1>1, <1>6, <2>1 DEF BeginSweep
<1>7. ASSUME NEW runs, SelectExpired(a, runs)
      PROVE  UNCHANGED Board!vars
  <2>1. Moves(a) /\ op'[a].step = "sweep_write"
    BY <1>7, <1>a DEF SelectExpired, Moves, Op
  <2>2. Asks[a] = NoSlot
    BY <1>7 DEF SelectExpired, Asks
  <2>. QED
    BY <1>1, <1>7, <2>1, <2>2 DEF SelectExpired
<1>. QED
    BY <1>2, <1>3, <1>4, <1>5, <1>6, <1>7

LEMMA WithdrawStep ==
    ASSUME LeaseAssumption, TypeOK, SlotNamed, NEW a \in Agent, Refuse(a) \/ Crash(a)
    PROVE  Board!Withdraw(a) \/ UNCHANGED Board!vars
<1>1. Moves(a) /\ op'[a].step = "idle" /\ UNCHANGED <<leases, clock, raced>>
    BY DEF Refuse, Crash, Moves, Idle, TypeOK
<1>2. CASE op[a].step \in {"acquire_read", "acquire_write"}
  <2>1. Asks[a] # NoSlot
    BY <1>2 DEF Asks, SlotNamed, LeaseAssumption, Slot
  <2>2. Asks' = [Asks EXCEPT ![a] = NoSlot]
    BY <1>1, AskMoves
  <2>. QED
    BY <1>1, <2>1, <2>2, TableStays DEF Board!Withdraw, Asks, Rows, Due, Used
<1>3. CASE op[a].step \notin {"acquire_read", "acquire_write"}
  <2>1. Asks[a] = NoSlot
    BY <1>3 DEF Asks
  <2>. QED
    BY <1>1, <2>1, AskStays, TableStays DEF Board!vars, Asks, Rows, Due, Used
<1>. QED
    BY <1>2, <1>3

LEMMA ReleaseStep ==
    ASSUME LeaseAssumption, TypeOK, WellPicked, NEW a \in Agent,
           ReleaseSelected(a) \/ \E l \in LeaseId : Release(a, l)
    PROVE  \E l \in LeaseId : Board!Release(l)
<1>1. ASSUME NEW l \in LeaseId, leases[l].status # "absent", UNCHANGED <<clock, raced>>,
             leases' = Marked({l}, "released"), Asks' = Asks
      PROVE  Board!Release(l)
  <2>1. Rows' = [s \in Slot |-> Rows[s] \ {l}] /\ UNCHANGED <<Due, Used>>
    BY <1>1, TableMarked
  <2>. QED
    BY <1>1, <2>1 DEF Board!Release, Board!Drop, Asks, Rows, Due, Used
<1>2. CASE ReleaseSelected(a)
  <2>1. PICK l \in LeaseId : op[a].picked = {l} /\ leases[l].status # "absent"
    BY <1>2 DEF ReleaseSelected, WellPicked
  <2>2. Moves(a) /\ op'[a].step = "idle" /\ Asks[a] = NoSlot
    BY <1>2 DEF ReleaseSelected, Moves, Idle, TypeOK, Asks
  <2>3. Asks' = Asks
    BY <2>2, AskStays
  <2>. QED
    BY <1>1, <1>2, <2>1, <2>3 DEF ReleaseSelected
<1>3. ASSUME NEW l \in LeaseId, Release(a, l)
      PROVE  Board!Release(l)
    BY <1>1, <1>3 DEF Release, Asks
<1>. QED
    BY <1>2, <1>3

LEMMA ExpireStep ==
    ASSUME LeaseAssumption, TypeOK, WellPicked, PickedInTime, NEW a \in Agent,
           ExpireSelected(a) \/ ExpireSwept(a)
    PROVE  \E ls \in SUBSET LeaseId : Board!Expire(ls)
<1>1. op[a].picked \subseteq LeaseId
    BY DEF TypeOK, Op
<1>2. Moves(a) /\ op'[a].step = "idle" /\ Asks[a] = NoSlot
    BY DEF ExpireSelected, ExpireSwept, Moves, Idle, TypeOK, Asks
<1>3. Asks' = Asks
    BY <1>2, AskStays
<1>4. ASSUME NEW ls \in SUBSET LeaseId, leases' = Marked(ls, "expired"),
             \A l \in ls : leases[l].status # "absent" /\ leases[l].expires_at <= clock
      PROVE  Board!Expire(ls)
  <2>1. Rows' = [s \in Slot |-> Rows[s] \ ls] /\ UNCHANGED <<Due, Used>>
    BY <1>4, TableMarked
  <2>2. UNCHANGED <<clock, raced>>
    BY DEF ExpireSelected, ExpireSwept
  <2>3. \A l \in ls : l \in Used /\ Due[l] <= clock
    BY <1>4 DEF Used, Due
  <2>. QED
    BY <1>3, <2>1, <2>2, <2>3
    DEF Board!Expire, Board!Drop, Board!Lapsed, Asks, Rows, Due, Used
<1>5. CASE ExpireSelected(a)
  <2>1. \A l \in op[a].picked :
            leases[l].expires_at < clock => leases[l].expires_at <= clock
    BY <1>1 DEF TypeOK, LeaseRow
  <2>2. \A l \in {k \in op[a].picked : leases[k].expires_at < clock} :
            leases[l].status # "absent" /\ leases[l].expires_at <= clock
    BY <2>1 DEF WellPicked
  <2>3. {k \in op[a].picked : leases[k].expires_at < clock} \in SUBSET LeaseId
    BY <1>1
  <2>4. leases' = Marked({k \in op[a].picked : leases[k].expires_at < clock}, "expired")
    BY <1>5 DEF ExpireSelected
  <2>. QED
    BY <1>4, <2>2, <2>3, <2>4
<1>6. CASE ExpireSwept(a)
    BY <1>1, <1>4, <1>6 DEF ExpireSwept, PickedInTime
<1>. QED
    BY <1>5, <1>6

\* The transaction of acquire: of the slot it writes, it takes exactly the
\* rows it had picked, which is all of them unless another call interfered.
LEMMA GrantStep ==
    ASSUME LeaseAssumption, BoardInv, NEW a \in Agent, Grant(a)
    PROVE  \E s \in Slot, l \in LeaseId : Board!Grant(a, s, l)
<1>. USE DEF BoardInv, ExclusionInv
<1>0. op[a].step = "acquire_write" /\ op[a].slot \in Slot
    BY DEF Grant, SlotNamed
<1>a. PICK s \in Slot : s = op[a].slot
    BY <1>0
<1>1. op[a].step = "acquire_write" /\ op[a].slot = s
    BY <1>0, <1>a
<1>. DEFINE gone == op[a].picked \cap ActiveRows(s)
<1>2. PICK new \in LeaseId :
              /\ leases[new].status = "absent"
              /\ leases' \in [LeaseId -> LeaseRow]
              /\ leases'[new].slot = s
              /\ leases'[new].status = "active"
              /\ \A l \in LeaseId \ {new} :
                    /\ leases'[l].slot = leases[l].slot
                    /\ leases'[l].expires_at = leases[l].expires_at
                    /\ l \in op[a].picked => leases'[l].status = "expired"
                    /\ l \notin op[a].picked => leases'[l].status = leases[l].status
    BY <1>1, GrantFacts
<1>3. ActiveRows(s)' = (ActiveRows(s) \ gone) \cup {new}
  <2>1. \A l \in LeaseId \ {new} : leases'[l].status = "active" <=>
            leases[l].status = "active" /\ l \notin op[a].picked
    BY <1>2
  <2>2. \A l \in LeaseId \ {new} : l \in ActiveRows(s)' <=> l \in ActiveRows(s) \ gone
    BY <1>2, <2>1 DEF ActiveRows
  <2>3. new \in ActiveRows(s)'
    BY <1>2 DEF ActiveRows, Grant
  <2>4. ActiveRows(s)' \subseteq LeaseId /\ ActiveRows(s) \subseteq LeaseId
    BY DEF ActiveRows
  <2>. QED
    BY <2>2, <2>3, <2>4
<1>4. ASSUME NEW t \in Slot, t # s
      PROVE  ActiveRows(t)' = ActiveRows(t)
  <2>1. \A l \in op[a].picked : leases[l].slot = s
    BY <1>1 DEF WellPicked
  <2>. QED
    BY <1>2, <1>4, <2>1 DEF ActiveRows
<1>5. Rows' = [Rows EXCEPT ![s] = (Rows[s] \ gone) \cup {new}]
  <2>1. Rows' = [t \in Slot |-> ActiveRows(t)'] /\ \A t \in Slot : Rows[t] = ActiveRows(t)
    BY DEF Rows
  <2>2. Rows = [t \in Slot |-> ActiveRows(t)]
    BY DEF Rows
  <2>. HIDE DEF gone
  <2>. QED
    BY <1>1, <1>3, <1>4, <2>1, <2>2
<1>6. gone \in SUBSET Rows[s] /\ \A m \in gone : Due[m] <= clock
    BY <1>1 DEF Rows, Due, ActiveRows, PickedInTime
<1>7. gone = Rows[s] \/ s \in raced
    BY <1>1 DEF Rows, ActiveRows, StaleRowPicked
<1>8. \A m \in LeaseId \ {new} : Due'[m] = Due[m]
    BY <1>2 DEF Due
<1>9. new \notin Used /\ Used' = Used \cup {new}
    BY <1>2 DEF Used, WellPicked
<1>10. Asks[a] = s /\ Asks' = [Asks EXCEPT ![a] = NoSlot]
  <2>1. Moves(a) /\ op'[a].step = "idle"
    BY DEF Grant, Moves, Idle, TypeOK
  <2>. QED
    BY <1>1, <2>1, AskMoves DEF Asks
<1>11. UNCHANGED <<clock, raced>>
    BY DEF Grant
<1>12. Board!Grant(a, s, new)
    BY <1>5, <1>6, <1>7, <1>8, <1>9, <1>10, <1>11
    DEF Board!Grant, Board!Lapsed, Asks, Rows, Due, Used
<1>. QED
    BY <1>1, <1>12

\* AgentCoordinationStore implements LeaseBoard: every call takes effect at
\* one of its statements, and an acquire takes its slot from nobody but a
\* late holder, until two acquires of the slot overlap.
THEOREM BoardImplemented == Spec => ImplementsBoard
<1>1. LeaseAssumption /\ Init => Board!Init
  <2>. SUFFICES ASSUME LeaseAssumption, Init PROVE Board!Init
    OBVIOUS
  <2>1. Asks = [a \in Agent |-> NoSlot]
    BY DEF Asks, Init, Idle
  <2>2. Rows = [s \in Slot |-> {}]
    BY DEF Rows, ActiveRows, Init, NoLease
  <2>3. Due \in [LeaseId -> Nat] /\ Used = {}
    BY DEF Due, Used, Init, NoLease
  <2>. QED
    BY <2>1, <2>2, <2>3 DEF Board!Init, Init, Asks, Rows, Due, Used
<1>2. LeaseAssumption /\ Init => BoardInv
  <2>1. LeaseAssumption /\ Init => SoleAcquirer /\ SlotNamed /\ StaleRowPicked /\ ExclusiveUnlessRaced
    BY DEF Init, NoLease, Idle, SoleAcquirer, Acquiring, SlotNamed, StaleRowPicked,
           ExclusiveUnlessRaced
  <2>2. LeaseAssumption /\ Init => PickedInTime /\ WellPicked
    BY DEF Init, NoLease, Idle, PickedInTime, WellPicked
  <2>. QED
    BY <2>1, <2>2, TypeInit DEF BoardInv, ExclusionInv
<1>3. LeaseAssumption /\ BoardInv /\ [Next]_vars => BoardInv'
    BY TypeNext, SoleAcquirerNext, SlotNamedNext, StaleRowPickedNext, ExclusiveNext,
       PickedInTimeNext, WellPickedNext
    DEF BoardInv, ExclusionInv, ExpiryInv
<1>4. LeaseAssumption /\ BoardInv /\ [Next]_vars => [Board!Next]_(Board!vars)
  <2>. SUFFICES ASSUME LeaseAssumption, BoardInv, [Next]_vars PROVE [Board!Next]_(Board!vars)
    OBVIOUS
  <2>0. TypeOK /\ SlotNamed /\ WellPicked /\ PickedInTime
    BY DEF BoardInv, ExclusionInv
  <2>1. ASSUME NEW a \in Agent, NEW s \in Slot, NEW d \in Duration, BeginAcquire(a, s, d)
        PROVE  Board!Next
    BY <2>0, <2>1, AskStep DEF Board!Next
  <2>2. ASSUME NEW a \in Agent,
               \/ FindNone(a)
               \/ FindStale(a)
               \/ \E s \in Slot : SelectForRelease(a, s)
               \/ \E l \in LeaseId : SelectLease(a, l)
               \/ BeginSweep(a)
               \/ SelectExpired(a, Run)
               \/ \E r \in Run : SelectExpired(a, {r})
        PROVE  UNCHANGED Board!vars
    BY <2>0, <2>2, LookStep
  <2>3. ASSUME NEW a \in Agent, Refuse(a) \/ Crash(a)
        PROVE  Board!Next \/ UNCHANGED Board!vars
    BY <2>0, <2>3, WithdrawStep DEF Board!Next
  <2>4. ASSUME NEW a \in Agent, Grant(a)
        PROVE  Board!Next
    BY <2>4, GrantStep DEF Board!Next
  <2>5. ASSUME NEW a \in Agent, ReleaseSelected(a) \/ \E l \in LeaseId : Release(a, l)
        PROVE  Board!Next
    BY <2>0, <2>5, ReleaseStep DEF Board!Next
  <2>6. ASSUME NEW a \in Agent, ExpireSelected(a) \/ ExpireSwept(a)
        PROVE  Board!Next
    BY <2>0, <2>6, ExpireStep DEF Board!Next
  <2>7. CASE Tick
    <3>1. UNCHANGED <<leases, op, raced>> /\ clock' = clock + 1
      BY <2>7 DEF Tick
    <3>2. Asks' = Asks
      BY <3>1 DEF Asks
    <3>3. Board!Tick
      BY <3>1, <3>2, TableStays DEF Board!Tick, Asks, Rows, Due, Used
    <3>. QED
      BY <3>3 DEF Board!Next
  <2>8. CASE UNCHANGED vars
    <3>1. UNCHANGED <<leases, op, raced, clock>>
      BY <2>8 DEF vars
    <3>2. Asks' = Asks
      BY <3>1 DEF Asks
    <3>. QED
      BY <3>1, <3>2, TableStays DEF Board!vars, Asks, Rows, Due, Used
  <2>. QED
    BY <2>1, <2>2, <2>3, <2>4, <2>5, <2>6, <2>7, <2>8 DEF Next
<1>. QED
    BY <1>1, <1>2, <1>3, <1>4, LeaseAssumption, PTL DEF Spec, ImplementsBoard, Board!Spec
=============================================================================
