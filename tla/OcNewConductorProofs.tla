------------------------ MODULE OcNewConductorProofs ------------------------
(***************************************************************************)
(* What state.json and the budget ledger of an oc-new run are worth, for   *)
(* any phase table, configuration, budget and number of processes.         *)
(***************************************************************************)
EXTENDS OcNewConductor, TLAPS

Active(p) == calls[p].step # "idle"

(* A call that has returned has left nothing behind, and as long as no     *)
(* overlap was noted there is one call at a time.                          *)
CallInv ==
    /\ \A p \in Process : ~Active(p) => calls[p] = Idle
    /\ "overlap" \notin mishaps => \A p, r \in Process : Active(p) /\ Active(r) => p = r

Fits(phases, next) ==
    /\ \A q \in Phase : next = Action("spawn_subagent", q) => q \in Due(phases)
    /\ next.kind = "done" => Due(phases) = {}

(* What a call is about to save fits as well as what is saved.             *)
FitInv ==
    config.budget # "strict" =>
        /\ saved.file = "whole" => Fits(saved.phases, saved.next)
        /\ \A p \in Process :
               /\ calls[p].step \notin {"truncate_first", "write_first"}
               /\ calls[p].step \in {"truncate", "write"} => Fits(calls[p].phases, calls[p].next)

(* Whoever holds the order to apply, holds it for good reason: on disk, as *)
(* a call has loaded it, or as a call has just decided it.                 *)
MayApply(next) ==
    next = Action("spawn_subagent", "apply") => ~ApplyBlocked /\ Available("apply")

ApplyInv ==
    /\ MayApply(saved.next)
    /\ \A p \in Process : MayApply(calls[p].loaded) /\ MayApply(calls[p].next)

(* What a call has read from the ledger was charged before.  As long as    *)
(* nobody has read it in the middle of another's charge, what it read was  *)
(* all there was, and the file is torn only while it is written, or by a   *)
(* death.                                                                  *)
LedgerInv ==
    /\ ledger.used <= spent
    /\ \A p \in Process : calls[p].used <= spent
    /\ "charge" \notin mishaps =>
           /\ ledger.file # "torn" => ledger.used = spent
           /\ ledger.file = "torn"
                 => "crash" \in mishaps \/ \E p \in Process : calls[p].step = "write_ledger"
           /\ \A p \in Process : Charging(p) => calls[p].used = spent
           /\ \A p \in Process : calls[p].step = "write_ledger" => ledger.file = "torn"
           /\ \A p, r \in Process : Charging(p) /\ Charging(r) => p = r

Orderly == mishaps \cap {"overlap", "crash", "lease"} = {}

(* The lease is there before the order is saved; nobody raises half way,   *)
(* since the ledger is torn only while a call writes it.                   *)
LeaseInv ==
    Orderly =>
        /\ ledger.file = "torn" <=> \E p \in Process : calls[p].step = "write_ledger"
        /\ \A p \in Process, q \in Phase :
               (/\ calls[p].step \in {"truncate_first", "write_first", "truncate", "write"}
                /\ calls[p].next = Action("spawn_subagent", q)) => q \in leased
        /\ (\A p \in Process : ~Active(p)) => \A q \in Phase : Spawned(q) => q \in leased

(* A call works on a copy of the saved phases and changes one of them.     *)
CopyInv ==
    /\ saved.file = "absent" => recorded = {}
    /\ saved.file = "whole" => recorded = Completed(saved.phases)
    /\ "overlap" \notin mishaps =>
           \A p \in Process : Active(p) =>
               \A q \in Phase : q # calls[p].phase
                                   => (Complete(calls[p].phases[q]) <=> q \in recorded)

Undisturbed == mishaps \cap {"overlap", "crash"} = {}

Writing(p) == calls[p].step \in {"write", "write_first"}

(* state.json is torn exactly while it is written.                         *)
FileInv == Undisturbed => (saved.file = "torn" <=> \E p \in Process : Writing(p))

-----------------------------------------------------------------------------
(* What an action does to the calls: p's own changes as named, the others  *)
(* stay as they are.                                                       *)
Others(p) == \A r \in Process : r # p => calls'[r] = calls[r]

Keeps(p) ==
    /\ calls'[p].phases = calls[p].phases
    /\ calls'[p].loaded = calls[p].loaded
    /\ calls'[p].phase = calls[p].phase

LEMMA CallFields ==
    ASSUME TypeOK, NEW p \in Process
    PROVE  /\ calls[p].step \in Step /\ calls[p].phases \in [Phase -> Status]
           /\ calls[p].loaded \in NextAction /\ calls[p].next \in NextAction
           /\ calls[p].phase \in Phase \cup {"none"}
           /\ calls[p].tokens \in Nat /\ calls[p].used \in Nat
BY DEF TypeOK, Call

LEMMA IdleFacts ==
    /\ Idle \in Call /\ NoAction \in NextAction
    /\ Idle.step = "idle" /\ Idle.phases = [q \in Phase |-> "pending"] /\ Idle.loaded = NoAction
    /\ Idle.next = NoAction /\ Idle.phase = "none" /\ Idle.tokens = 0 /\ Idle.used = 0
    /\ NoAction.kind = "none"
BY DEF Idle, NoPhases, Call, NoAction, Action, NextAction, Kind, Step, Status

LEMMA Becomes ==
    ASSUME TypeOK, NEW p \in Process, NEW c \in Call, calls' = [calls EXCEPT ![p] = c]
    PROVE  calls' \in [Process -> Call] /\ calls'[p] = c /\ Others(p)
BY DEF TypeOK, Others

LEMMA Moves ==
    ASSUME TypeOK, NEW p \in Process, NEW step \in Step,
           calls' = [calls EXCEPT ![p] = [calls[p] EXCEPT !.step = step]]
    PROVE  /\ calls' \in [Process -> Call] /\ Others(p) /\ Keeps(p)
           /\ calls'[p].step = step /\ calls'[p].next = calls[p].next
           /\ calls'[p].tokens = calls[p].tokens /\ calls'[p].used = calls[p].used
<1> DEFINE c == [calls[p] EXCEPT !.step = step]
<1>1. calls[p] \in Call
  BY DEF TypeOK
<1>2. /\ c \in Call /\ c.step = step /\ c.next = calls[p].next /\ c.tokens = calls[p].tokens
      /\ c.used = calls[p].used /\ c.phases = calls[p].phases /\ c.loaded = calls[p].loaded
      /\ c.phase = calls[p].phase
  BY <1>1 DEF Call
<1> HIDE DEF c
<1>3. calls' \in [Process -> Call] /\ calls'[p] = c /\ Others(p)
  BY <1>2, Becomes DEF c
<1> QED
  BY <1>2, <1>3 DEF Keeps

LEMMA Decides ==
    ASSUME TypeOK, NEW p \in Process, NEW step \in Step, NEW next \in NextAction, NEW c,
           c = [calls[p] EXCEPT !.step = step, !.next = next],
           calls' = [calls EXCEPT ![p] = c]
    PROVE  /\ calls' \in [Process -> Call] /\ Others(p) /\ Keeps(p)
           /\ calls'[p].step = step /\ calls'[p].next = next
           /\ calls'[p].tokens = calls[p].tokens /\ calls'[p].used = calls[p].used
<1>1. calls[p] \in Call
  BY DEF TypeOK
<1>2. /\ c \in Call /\ c.step = step /\ c.next = next /\ c.tokens = calls[p].tokens
      /\ c.used = calls[p].used /\ c.phases = calls[p].phases /\ c.loaded = calls[p].loaded
      /\ c.phase = calls[p].phase
  BY <1>1 DEF Call
<1>3. calls' \in [Process -> Call] /\ calls'[p] = c /\ Others(p)
  BY <1>2, Becomes
<1> QED
  BY <1>2, <1>3 DEF Keeps

(* What each action makes of the call of p.                                *)
LEMMA StartEffect ==
    ASSUME TypeOK, NEW p \in Process, Start(p)
    PROVE  /\ calls' \in [Process -> Call] /\ Others(p) /\ Keeps(p)
           /\ calls'[p].step = "advance" /\ calls'[p].next = calls[p].next
           /\ calls'[p].tokens = calls[p].tokens /\ calls'[p].used = calls[p].used
<1>1. calls' = [calls EXCEPT ![p] = [calls[p] EXCEPT !.step = "advance"]]
  BY DEF Start, TypeOK
<1>2. "advance" \in Step
  BY DEF Step
<1> QED
  BY <1>1, <1>2, Moves

LEMMA ReadLedgerEffect ==
    ASSUME TypeOK, NEW p \in Process, ReadLedger(p)
    PROVE  /\ calls' \in [Process -> Call] /\ Others(p) /\ Keeps(p)
           /\ calls'[p].step = "truncate_ledger" /\ calls'[p].next = calls[p].next
           /\ calls'[p].tokens = calls[p].tokens /\ calls'[p].used = ledger.used
<1> DEFINE c == [calls[p] EXCEPT !.step = "truncate_ledger", !.used = ledger.used]
<1>1. calls[p] \in Call /\ ledger.used \in Nat
  BY DEF TypeOK
<1>2. /\ c \in Call /\ c.step = "truncate_ledger" /\ c.used = ledger.used
      /\ c.next = calls[p].next /\ c.tokens = calls[p].tokens /\ c.phases = calls[p].phases
      /\ c.loaded = calls[p].loaded /\ c.phase = calls[p].phase
  BY <1>1 DEF Call, Step
<1>3. calls' = [calls EXCEPT ![p] = c]
  BY DEF ReadLedger, TypeOK
<1> HIDE DEF c
<1>4. calls' \in [Process -> Call] /\ calls'[p] = c /\ Others(p)
  BY <1>2, <1>3, Becomes
<1> QED
  BY <1>2, <1>4 DEF Keeps

LEMMA TruncateLedgerEffect ==
    ASSUME TypeOK, NEW p \in Process, TruncateLedger(p)
    PROVE  /\ calls' \in [Process -> Call] /\ Others(p) /\ Keeps(p)
           /\ calls'[p].step = "write_ledger" /\ calls'[p].next = calls[p].next
           /\ calls'[p].tokens = calls[p].tokens /\ calls'[p].used = calls[p].used
<1>1. calls' = [calls EXCEPT ![p] = [calls[p] EXCEPT !.step = "write_ledger"]]
  BY DEF TruncateLedger, TypeOK
<1>2. "write_ledger" \in Step
  BY DEF Step
<1> QED
  BY <1>1, <1>2, Moves

LEMMA WriteLedgerEffect ==
    ASSUME TypeOK, NEW p \in Process, WriteLedger(p)
    PROVE  /\ calls' \in [Process -> Call] /\ Others(p) /\ Keeps(p)
           /\ calls'[p].step = "release" /\ calls'[p].next = calls[p].next
           /\ calls'[p].tokens = 0 /\ calls'[p].used = 0
<1> DEFINE c == [calls[p] EXCEPT !.step = "release", !.tokens = 0, !.used = 0]
<1>1. calls[p] \in Call
  BY DEF TypeOK
<1>2. /\ c \in Call /\ c.step = "release" /\ c.used = 0 /\ c.tokens = 0
      /\ c.next = calls[p].next /\ c.phases = calls[p].phases
      /\ c.loaded = calls[p].loaded /\ c.phase = calls[p].phase
  BY <1>1 DEF Call, Step
<1>3. calls' = [calls EXCEPT ![p] = c]
  BY DEF WriteLedger, TypeOK
<1> HIDE DEF c
<1>4. calls' \in [Process -> Call] /\ calls'[p] = c /\ Others(p)
  BY <1>2, <1>3, Becomes
<1> QED
  BY <1>2, <1>4 DEF Keeps

LEMMA WriteFirstEffect ==
    ASSUME TypeOK, NEW p \in Process, WriteFirst(p)
    PROVE  /\ calls' \in [Process -> Call] /\ Others(p) /\ Keeps(p)
           /\ calls'[p].step = "truncate" /\ calls'[p].next = calls[p].next
           /\ calls'[p].tokens = calls[p].tokens /\ calls'[p].used = calls[p].used
<1>1. calls' = [calls EXCEPT ![p] = [calls[p] EXCEPT !.step = "truncate"]]
  BY DEF WriteFirst, TypeOK
<1>2. "truncate" \in Step
  BY DEF Step
<1> QED
  BY <1>1, <1>2, Moves

LEMMA RaiseOnLedgerEffect ==
    ASSUME TypeOK, NEW p \in Process, RaiseOnLedger(p)
    PROVE  calls' \in [Process -> Call] /\ Others(p) /\ calls'[p] = Idle
BY IdleFacts DEF TypeOK, RaiseOnLedger, Others

LEMMA WriteEffect ==
    ASSUME TypeOK, NEW p \in Process, Write(p)
    PROVE  calls' \in [Process -> Call] /\ Others(p) /\ calls'[p] = Idle
BY IdleFacts DEF TypeOK, Write, Others

LEMMA CrashEffect ==
    ASSUME TypeOK, NEW p \in Process, Crash(p)
    PROVE  calls' \in [Process -> Call] /\ Others(p) /\ calls'[p] = Idle
BY IdleFacts DEF TypeOK, Crash, Others

LEMMA TruncateEffect ==
    ASSUME TypeOK, NEW p \in Process, Truncate(p)
    PROVE  /\ calls' \in [Process -> Call] /\ Others(p) /\ Keeps(p)
           /\ \/ calls[p].step = "truncate" /\ calls'[p].step = "write"
              \/ calls[p].step = "truncate_first" /\ calls'[p].step = "write_first"
           /\ calls'[p].next = calls[p].next
           /\ calls'[p].tokens = calls[p].tokens /\ calls'[p].used = calls[p].used
<1> DEFINE step == IF calls[p].step = "truncate" THEN "write" ELSE "write_first"
<1>1. calls' = [calls EXCEPT ![p] = [calls[p] EXCEPT !.step = step]]
  BY DEF Truncate, TypeOK
<1>2. step \in Step
  BY DEF Step
<1>3. calls[p].step \in {"truncate", "truncate_first"}
  BY DEF Truncate
<1> HIDE DEF step
<1>4. /\ calls' \in [Process -> Call] /\ Others(p) /\ Keeps(p)
      /\ calls'[p].step = step /\ calls'[p].next = calls[p].next
      /\ calls'[p].tokens = calls[p].tokens /\ calls'[p].used = calls[p].used
  BY <1>1, <1>2, Moves
<1> QED
  BY <1>3, <1>4 DEF step

LEMMA ReleaseLeaseEffect ==
    ASSUME TypeOK, NEW p \in Process, ReleaseLease(p)
    PROVE  /\ calls' \in [Process -> Call] /\ Others(p) /\ Keeps(p)
           /\ \/ /\ calls'[p].step = "truncate"
                 /\ calls'[p].next = Action("blocked", calls[p].phase)
              \/ calls'[p].step = "advance" /\ calls'[p].next = calls[p].next
           /\ calls'[p].tokens = calls[p].tokens /\ calls'[p].used = calls[p].used
<1> DEFINE next == Action("blocked", calls[p].phase)
           c == [calls[p] EXCEPT !.step = "truncate", !.next = next]
<1>1. next \in NextAction /\ "advance" \in Step /\ "truncate" \in Step
  BY CallFields DEF Action, NextAction, Kind, Step
<1>2. \/ calls' = [calls EXCEPT ![p] = c]
      \/ calls' = [calls EXCEPT ![p] = [calls[p] EXCEPT !.step = "advance"]]
  BY DEF ReleaseLease, TypeOK
<1> HIDE DEF next
<1>3. c = [calls[p] EXCEPT !.step = "truncate", !.next = next]
  OBVIOUS
<1> HIDE DEF c
<1>4. CASE calls' = [calls EXCEPT ![p] = c]
  <2>1. /\ calls' \in [Process -> Call] /\ Others(p) /\ Keeps(p)
        /\ calls'[p].step = "truncate" /\ calls'[p].next = next
        /\ calls'[p].tokens = calls[p].tokens /\ calls'[p].used = calls[p].used
    BY <1>1, <1>3, <1>4, Decides
  <2> QED
    BY <2>1 DEF next
<1>5. CASE calls' = [calls EXCEPT ![p] = [calls[p] EXCEPT !.step = "advance"]]
  BY <1>1, <1>5, Moves
<1> QED
  BY <1>2, <1>4, <1>5

LEMMA ResumeEffect ==
    ASSUME TypeOK, NEW p \in Process, Resume(p)
    PROVE  /\ calls' \in [Process -> Call] /\ Others(p)
           /\ calls'[p].step = "advance" /\ calls'[p].phases = saved.phases
           /\ calls'[p].loaded = saved.next /\ calls'[p].next = NoAction
           /\ calls'[p].phase = "none" /\ calls'[p].tokens = 0 /\ calls'[p].used = 0
BY IdleFacts DEF TypeOK, Resume, Load, Call, Step, Others

Marks(p) ==
    \E q \in Phase, s \in {"passed", "warning", "failed"},
       envelope \in {"advances", "failed", "blocked"}, tokens \in Tokens :
          MarkDone(p, q, s, envelope, tokens)

LEMMA MarksEffect ==
    ASSUME TypeOK, NEW p \in Process, Marks(p)
    PROVE  /\ calls' \in [Process -> Call] /\ Others(p) /\ Load(p, "read_ledger")
           /\ calls'[p].step = "read_ledger"
           /\ calls'[p].phase \in Phase
           /\ \E t \in Status :
                 calls'[p].phases = [saved.phases EXCEPT ![calls'[p].phase] = t]
           /\ calls'[p].loaded = saved.next /\ calls'[p].next = NoAction
           /\ calls'[p].used = 0
           /\ UNCHANGED <<config, saved, files, leased, ledger, recorded, spent>>
<1>1. PICK q \in Phase, s \in {"passed", "warning", "failed"},
           envelope \in {"advances", "failed", "blocked"}, tokens \in Tokens :
              MarkDone(p, q, s, envelope, tokens)
  BY DEF Marks
<1> DEFINE t == Judged(q, s, envelope)
           call == [step |-> "read_ledger", loaded |-> saved.next, next |-> NoAction,
                    phases |-> [saved.phases EXCEPT ![q] = t],
                    phase |-> q, tokens |-> tokens, used |-> 0]
<1>2. t \in Status
  BY DEF Judged, Status
<1>3. tokens \in Nat
  BY FlowAssumption DEF FlowAssumption
<1>4. /\ calls' = [calls EXCEPT ![p] = call] /\ Load(p, "read_ledger")
      /\ UNCHANGED <<config, saved, files, leased, ledger, recorded, spent>>
  BY <1>1 DEF MarkDone
<1> HIDE DEF t
<1>5. call \in Call
  BY <1>2, <1>3, IdleFacts DEF TypeOK, Call, Step
<1>6. calls'[p] = call /\ calls' \in [Process -> Call] /\ Others(p)
  BY <1>4, <1>5 DEF TypeOK, Others
<1> QED
  BY <1>2, <1>4, <1>6

LEMMA DecidedType ==
    ASSUME NEW q \in Phase
    PROVE  /\ DecidedFor(q) \in NextAction /\ DecidedFor(q).phase = q
           /\ DecidedFor(q).kind \in {"blocked", "request_approval", "observe_only",
                                      "spawn_subagent"}
BY DEF DecidedFor, Action, NextAction, Kind

LEMMA AdvanceEffect ==
    ASSUME TypeOK, NEW p \in Process, Advance(p)
    PROVE  /\ calls' \in [Process -> Call] /\ Others(p) /\ Keeps(p)
           /\ calls'[p].tokens = calls[p].tokens /\ calls'[p].used = calls[p].used
           /\ \/ /\ Due(calls[p].phases) = {} /\ leased' = leased
                 /\ calls'[p].step = "truncate" /\ calls'[p].next = Action("done", "none")
              \/ \E q \in Due(calls[p].phases) \cap Phase :
                     /\ calls'[p].next = DecidedFor(q)
                     /\ \/ calls'[p].step = "truncate"
                        \/ OverBudget /\ calls'[p].step = "truncate_first"
                     /\ leased' = LeasedFor(p, DecidedFor(q)) \/ "lease" \in mishaps'
<1>1. CASE Due(calls[p].phases) = {} /\ leased' = leased
           /\ calls' = [calls EXCEPT ![p].step = "truncate", ![p].next = Action("done", "none")]
  <2> DEFINE next == Action("done", "none")
             c == [calls[p] EXCEPT !.step = "truncate", !.next = next]
  <2>1. next \in NextAction /\ "truncate" \in Step
    BY DEF Action, NextAction, Kind, Step
  <2>2. calls' = [calls EXCEPT ![p] = c]
    BY <1>1 DEF TypeOK
  <2> HIDE DEF next
  <2>3. c = [calls[p] EXCEPT !.step = "truncate", !.next = next]
    OBVIOUS
  <2> HIDE DEF c
  <2>4. /\ calls' \in [Process -> Call] /\ Others(p) /\ Keeps(p)
        /\ calls'[p].step = "truncate" /\ calls'[p].next = next
        /\ calls'[p].tokens = calls[p].tokens /\ calls'[p].used = calls[p].used
    BY <2>1, <2>2, <2>3, Decides
  <2> QED
    BY <1>1, <2>4 DEF next
<1>2. ASSUME NEW q \in Due(calls[p].phases),
             calls' = [calls EXCEPT ![p].next = DecidedFor(q),
                 ![p].step = IF Available(q) /\ OverBudget THEN "truncate_first" ELSE "truncate"],
             leased' = LeasedFor(p, DecidedFor(q)) \/ "lease" \in mishaps'
      PROVE  /\ calls' \in [Process -> Call] /\ Others(p) /\ Keeps(p)
             /\ calls'[p].tokens = calls[p].tokens /\ calls'[p].used = calls[p].used
             /\ \E r \in Due(calls[p].phases) \cap Phase :
                     /\ calls'[p].next = DecidedFor(r)
                     /\ \/ calls'[p].step = "truncate"
                        \/ OverBudget /\ calls'[p].step = "truncate_first"
                     /\ leased' = LeasedFor(p, DecidedFor(r)) \/ "lease" \in mishaps'
  <2>1. q \in Phase
    BY DEF Due, Phase
  <2>2. DecidedFor(q) \in NextAction
    BY <2>1, DecidedType
  <2> DEFINE next == DecidedFor(q)
             step == IF Available(q) /\ OverBudget THEN "truncate_first" ELSE "truncate"
             c == [calls[p] EXCEPT !.step = step, !.next = next]
  <2>3. step \in Step /\ (step = "truncate" \/ (OverBudget /\ step = "truncate_first"))
    BY DEF Step
  <2>4. calls' = [calls EXCEPT ![p] = c]
    BY <1>2 DEF TypeOK
  <2>5. next \in NextAction
    BY <2>2
  <2> HIDE DEF next, step
  <2>6. c = [calls[p] EXCEPT !.step = step, !.next = next]
    OBVIOUS
  <2> HIDE DEF c
  <2>7. /\ calls' \in [Process -> Call] /\ Others(p) /\ Keeps(p)
        /\ calls'[p].step = step /\ calls'[p].next = next
        /\ calls'[p].tokens = calls[p].tokens /\ calls'[p].used = calls[p].used
    BY <2>3, <2>4, <2>5, <2>6, Decides
  <2> QED
    BY <1>2, <2>1, <2>3, <2>7 DEF next
<1> QED
  BY <1>1, <1>2 DEF Advance
-----------------------------------------------------------------------------
LEMMA InitType == Init => TypeOK
<1> SUFFICES ASSUME Init PROVE TypeOK
  OBVIOUS
<1>1. saved \in [file : File, phases : [Phase -> Status], next : NextAction]
  BY IdleFacts DEF Init, NoPhases, File, Status
<1>2. calls \in [Process -> Call] /\ ledger \in [file : File, used : Nat]
  BY IdleFacts DEF Init, File
<1> QED
  BY <1>1, <1>2 DEF Init, TypeOK

LEMMA CallStepType ==
    ASSUME TypeOK, NEW p \in Process,
           Start(p) \/ Resume(p) \/ ReadLedger(p) \/ ReleaseLease(p) \/ RaiseOnLedger(p) \/ Crash(p)
    PROVE  TypeOK'
<1>1. calls' \in [Process -> Call]
  BY StartEffect, ResumeEffect, ReadLedgerEffect, ReleaseLeaseEffect, RaiseOnLedgerEffect,
     CrashEffect
<1>2. /\ config' = config /\ saved' = saved /\ ledger' = ledger /\ spent' = spent
      /\ recorded' = recorded
      /\ artifacts' = artifacts /\ published' = published /\ verdicts' = verdicts
  BY DEF Start, Resume, ReadLedger, ReleaseLease, RaiseOnLedger, Crash, files
<1>3. leased' \subseteq Phase
  BY DEF TypeOK, Start, Resume, ReadLedger, ReleaseLease, RaiseOnLedger, Crash
<1>4. mishaps' \subseteq Fault \cup {"overlap", "charge"}
  BY DEF TypeOK, Start, Resume, Load, Overlaps, ReadLedger, ReleaseLease, RaiseOnLedger, Crash
<1> QED
  BY <1>1, <1>2, <1>3, <1>4 DEF TypeOK

LEMMA MarksType == ASSUME TypeOK, NEW p \in Process, Marks(p) PROVE TypeOK'
<1>1. mishaps' \subseteq Fault \cup {"overlap", "charge"}
  BY MarksEffect DEF TypeOK, Load, Overlaps
<1> QED
  BY <1>1, MarksEffect DEF TypeOK, files

LEMMA TruncateLedgerType == ASSUME TypeOK, NEW p \in Process, TruncateLedger(p) PROVE TypeOK'
<1>1. ledger' \in [file : File, used : Nat]
  BY DEF TypeOK, TruncateLedger, EmptyLedger, File
<1> QED
  BY <1>1, TruncateLedgerEffect DEF TypeOK, TruncateLedger, files

LEMMA WriteLedgerType == ASSUME TypeOK, NEW p \in Process, WriteLedger(p) PROVE TypeOK'
<1>1. ledger' \in [file : File, used : Nat] /\ spent' \in Nat
  BY CallFields DEF TypeOK, WriteLedger, EmptyLedger, File
<1> QED
  BY <1>1, WriteLedgerEffect DEF TypeOK, WriteLedger, files

LEMMA AdvanceType == ASSUME TypeOK, NEW p \in Process, Advance(p) PROVE TypeOK'
<1>1. mishaps' \subseteq Fault \cup {"overlap", "charge"}
  BY DEF TypeOK, Advance
<1>2. ASSUME NEW q \in Due(calls[p].phases)
      PROVE  LeasedFor(p, DecidedFor(q)) \subseteq Phase
  <2>1. q \in Phase
    BY DEF Due, Phase
  <2> QED
    BY <2>1, DecidedType DEF TypeOK, LeasedFor
<1>3. leased' \subseteq Phase
  <2>1. \/ leased' = leased
        \/ \E q \in Due(calls[p].phases) : leased' = LeasedFor(p, DecidedFor(q))
    BY DEF Advance
  <2> QED
    BY <1>2, <2>1 DEF TypeOK
<1> QED
  BY <1>1, <1>3, AdvanceEffect DEF TypeOK, Advance, files

LEMMA SaveType ==
    ASSUME TypeOK, NEW p \in Process, Truncate(p) \/ WriteFirst(p) \/ Write(p)
    PROVE  TypeOK'
<1>1. calls' \in [Process -> Call]
  BY TruncateEffect, WriteFirstEffect, WriteEffect
<1>2. EmptyState \in [file : File, phases : [Phase -> Status], next : NextAction]
  BY IdleFacts DEF EmptyState, NoPhases, File, Status
<1>3. ASSUME NEW next \in NextAction, SaveText(calls[p].phases, next)
      PROVE  /\ saved' \in [file : File, phases : [Phase -> Status], next : NextAction]
             /\ recorded' \subseteq Phase
  BY <1>2, <1>3, CallFields DEF TypeOK, SaveText, File, Completed
<1>4. /\ saved' \in [file : File, phases : [Phase -> Status], next : NextAction]
      /\ recorded' \subseteq Phase
  <2>1. CASE Truncate(p)
    BY <1>2, <2>1 DEF TypeOK, Truncate
  <2>2. CASE WriteFirst(p)
    BY <1>3, <2>2, CallFields DEF WriteFirst
  <2>3. CASE Write(p)
    BY <1>3, <2>3, CallFields DEF Write
  <2> QED
    BY <2>1, <2>2, <2>3
<1> QED
  BY <1>1, <1>4 DEF TypeOK, Truncate, WriteFirst, Write, files

(* What the agents, the user and the lease store do.                       *)
Outside ==
    \/ \E a \in Artifact : WriteArtifact(a) \/ PublishArtifact(a)
    \/ \E what \in {"approved", "reports"} : Confirm(what)
    \/ \E q \in Phase : ExpireLease(q)

LEMMA OutsideType == ASSUME TypeOK, Outside PROVE TypeOK'
<1>1. CASE \E a \in Artifact : WriteArtifact(a)
  BY <1>1 DEF TypeOK, WriteArtifact
<1>2. CASE \E a \in Artifact : PublishArtifact(a)
  BY <1>2 DEF TypeOK, PublishArtifact
<1>3. CASE \E what \in {"approved", "reports"} : Confirm(what)
  BY <1>3 DEF TypeOK, Confirm, files
<1>4. CASE \E q \in Phase : ExpireLease(q)
  BY <1>4 DEF TypeOK, ExpireLease, files
<1> QED
  BY <1>1, <1>2, <1>3, <1>4 DEF Outside

(* The steps one by one, as the proofs below go through them.              *)
CallStep(p) == Start(p) \/ Resume(p) \/ Marks(p) \/ Continue(p) \/ Crash(p)

LEMMA Steps == Next => Outside \/ \E p \in Process : CallStep(p)
BY DEF Next, Outside, CallStep, Marks

LEMMA NextType == TypeOK /\ [Next]_vars => TypeOK'
<1> SUFFICES ASSUME TypeOK, [Next]_vars PROVE TypeOK'
  OBVIOUS
<1>1. ASSUME NEW p \in Process, CallStep(p) PROVE TypeOK'
  BY <1>1, CallStepType, MarksType, TruncateLedgerType, WriteLedgerType, AdvanceType, SaveType
  DEF CallStep, Continue
<1>2. CASE UNCHANGED vars
  BY <1>2 DEF TypeOK, vars, files
<1> QED
  BY <1>1, <1>2, OutsideType, Steps
-----------------------------------------------------------------------------
(* One call at a time.                                                     *)
LEMMA MishapsStay == TypeOK /\ [Next]_vars => mishaps \subseteq mishaps'
<1> SUFFICES ASSUME TypeOK, [Next]_vars PROVE mishaps \subseteq mishaps'
  OBVIOUS
<1>1. ASSUME NEW p \in Process, CallStep(p) PROVE mishaps \subseteq mishaps'
  BY <1>1 DEF CallStep, Continue, Start, Resume, Marks, MarkDone, Load, ReadLedger, TruncateLedger,
     WriteLedger, ReleaseLease, Advance, RaiseOnLedger, Truncate, WriteFirst, Write, Crash
<1>2. CASE Outside
  BY <1>2 DEF Outside, WriteArtifact, PublishArtifact, Confirm, ExpireLease
<1>3. CASE UNCHANGED vars
  BY <1>3 DEF vars
<1> QED
  BY <1>1, <1>2, <1>3, Steps

(* A call runs, or begins when no other does, or the overlap is noted.     *)
Enters(p) ==
    calls'[p].step # "idle" =>
        Active(p) \/ "overlap" \in mishaps' \/ \A r \in Process : r # p => ~Active(r)

LEMMA CallEnters ==
    ASSUME TypeOK, NEW p \in Process, CallStep(p)
    PROVE  Others(p) /\ Enters(p) /\ (calls'[p].step = "idle" => calls'[p] = Idle)
<1>1. CASE Start(p)
  BY <1>1, StartEffect DEF Enters, Active, Start
<1>2. ASSUME Resume(p) \/ \E step : Load(p, step)
      PROVE  \A r \in Process : r # p => ~Active(r) \/ "overlap" \in mishaps'
  BY <1>2 DEF Resume, Load, Overlaps, Active
<1>3. CASE Resume(p)
  BY <1>2, <1>3, ResumeEffect DEF Enters
<1>4. CASE Marks(p)
  <2>1. Others(p) /\ calls'[p].step = "read_ledger" /\ Load(p, "read_ledger")
    BY <1>4, MarksEffect
  <2> QED
    BY <1>2, <2>1 DEF Enters
<1>5. CASE RaiseOnLedger(p) \/ Write(p) \/ Crash(p)
  BY <1>5, RaiseOnLedgerEffect, WriteEffect, CrashEffect, IdleFacts DEF Enters
<1>6. CASE ReadLedger(p) \/ TruncateLedger(p) \/ WriteLedger(p) \/ WriteFirst(p)
  <2>1. calls[p].step # "idle"
    BY <1>6 DEF ReadLedger, TruncateLedger, WriteLedger, WriteFirst
  <2> QED
    BY <1>6, <2>1, ReadLedgerEffect, TruncateLedgerEffect, WriteLedgerEffect, WriteFirstEffect
    DEF Enters, Active
<1>7. CASE ReleaseLease(p) \/ Advance(p) \/ Truncate(p)
  <2>1. calls[p].step # "idle"
    BY <1>7 DEF ReleaseLease, Advance, Truncate
  <2>2. Others(p) /\ calls'[p].step # "idle"
    <3>1. CASE ReleaseLease(p)
      BY <3>1, ReleaseLeaseEffect
    <3>2. CASE Advance(p)
      BY <3>2, AdvanceEffect
    <3>3. CASE Truncate(p)
      BY <3>3, TruncateEffect
    <3> QED
      BY <1>7, <3>1, <3>2, <3>3
  <2> QED
    BY <2>1, <2>2 DEF Enters, Active
<1> QED
  BY <1>1, <1>3, <1>4, <1>5, <1>6, <1>7 DEF CallStep, Continue

LEMMA ConfigStays == [Next]_vars => config' = config
<1>1. ASSUME NEW p \in Process, CallStep(p) PROVE config' = config
  BY <1>1 DEF CallStep, Continue, Start, Resume, Marks, MarkDone, ReadLedger, TruncateLedger,
     WriteLedger, ReleaseLease, Advance, RaiseOnLedger, Truncate, WriteFirst, Write, Crash
<1>2. CASE Outside
  BY <1>2 DEF Outside, WriteArtifact, PublishArtifact, Confirm, ExpireLease
<1>3. CASE UNCHANGED vars
  BY <1>3 DEF vars
<1> QED
  BY <1>1, <1>2, <1>3, Steps

LEMMA OutsideCalls == Outside \/ UNCHANGED vars => calls' = calls /\ config' = config
    /\ saved' = saved /\ ledger' = ledger /\ recorded' = recorded /\ spent' = spent
BY DEF Outside, WriteArtifact, PublishArtifact, Confirm, ExpireLease, vars

LEMMA InitCall == Init => CallInv
BY IdleFacts DEF Init, CallInv, Active

LEMMA NextCall == TypeOK /\ CallInv /\ [Next]_vars => CallInv'
<1> SUFFICES ASSUME TypeOK, CallInv, [Next]_vars PROVE CallInv'
  OBVIOUS
<1>1. mishaps \subseteq mishaps'
  BY MishapsStay
<1>2. ASSUME NEW p \in Process, CallStep(p) PROVE CallInv'
  BY <1>1, <1>2, CallEnters DEF CallInv, Others, Enters, Active
<1>3. CASE Outside \/ UNCHANGED vars
  BY <1>1, <1>3, OutsideCalls DEF CallInv, Active
<1> QED
  BY <1>2, <1>3, Steps

-----------------------------------------------------------------------------
(* The saved action fits the saved phases.                                 *)
LEMMA FitsNothing ==
    \A phases, next : next.kind \notin {"spawn_subagent", "done"} => Fits(phases, next)
BY DEF Fits, Action

LEMMA InitFit == Init => FitInv
<1> SUFFICES ASSUME Init PROVE FitInv
  OBVIOUS
<1> QED
  BY IdleFacts DEF Init, FitInv

(* The action a call decides on fits the phases it has in hand.            *)
LEMMA AdvanceFits ==
    ASSUME TypeOK, NEW p \in Process, Advance(p)
    PROVE  Fits(calls'[p].phases, calls'[p].next)
<1>1. calls'[p].phases = calls[p].phases
  BY AdvanceEffect DEF Keeps
<1>2. CASE Due(calls[p].phases) = {} /\ calls'[p].next = Action("done", "none")
  BY <1>1, <1>2 DEF Fits, Action
<1>3. ASSUME NEW q \in Due(calls[p].phases) \cap Phase, calls'[p].next = DecidedFor(q)
      PROVE  Fits(calls'[p].phases, calls'[p].next)
  <2>1. \A r \in Phase : DecidedFor(q) = Action("spawn_subagent", r) => r = q
    BY DecidedType DEF Action
  <2>2. DecidedFor(q).kind # "done"
    BY DecidedType
  <2> QED
    BY <1>1, <1>3, <2>1, <2>2 DEF Fits
<1> QED
  BY <1>2, <1>3, AdvanceEffect

LEMMA NextFit == TypeOK /\ FitInv /\ [Next]_vars => FitInv'
<1> SUFFICES ASSUME TypeOK, FitInv, [Next]_vars PROVE FitInv'
  OBVIOUS
<1> SUFFICES ASSUME config.budget # "strict" PROVE FitInv'
  BY ConfigStays DEF FitInv
<1>1. /\ saved.file = "whole" => Fits(saved.phases, saved.next)
      /\ \A p \in Process :
             /\ calls[p].step \notin {"truncate_first", "write_first"}
             /\ calls[p].step \in {"truncate", "write"} => Fits(calls[p].phases, calls[p].next)
  BY DEF FitInv
<1>2. ASSUME NEW p \in Process, CallStep(p), Others(p),
             saved'.file = "whole" => Fits(saved'.phases, saved'.next),
             calls'[p].step \notin {"truncate_first", "write_first"},
             calls'[p].step \in {"truncate", "write"} => Fits(calls'[p].phases, calls'[p].next)
      PROVE  FitInv'
  <2>1. ASSUME NEW r \in Process
        PROVE  /\ calls'[r].step \notin {"truncate_first", "write_first"}
               /\ calls'[r].step \in {"truncate", "write"} => Fits(calls'[r].phases, calls'[r].next)
    BY <1>1, <1>2 DEF Others
  <2>2. saved'.file = "whole" => Fits(saved'.phases, saved'.next)
    BY <1>2
  <2> QED
    BY <2>1, <2>2 DEF FitInv, Fits, Due
<1>3. ASSUME NEW p \in Process, Start(p) \/ Resume(p) \/ ReadLedger(p) \/ TruncateLedger(p)
                 \/ WriteLedger(p) \/ RaiseOnLedger(p) \/ Crash(p)
      PROVE  FitInv'
  <2>1. saved' = saved /\ CallStep(p)
    BY <1>3 DEF Start, Resume, ReadLedger, TruncateLedger, WriteLedger, RaiseOnLedger, Crash,
       CallStep, Continue
  <2>2. Others(p) /\ calls'[p].step \in {"idle", "advance", "truncate_ledger", "write_ledger",
                                         "release"}
    BY <1>3, StartEffect, ResumeEffect, ReadLedgerEffect, TruncateLedgerEffect,
       WriteLedgerEffect, RaiseOnLedgerEffect, CrashEffect, IdleFacts
  <2> QED
    BY <1>1, <1>2, <2>1, <2>2
<1>4. ASSUME NEW p \in Process, Marks(p) PROVE FitInv'
  BY <1>1, <1>2, <1>4, MarksEffect DEF CallStep
<1>5. ASSUME NEW p \in Process, ReleaseLease(p) PROVE FitInv'
  <2>1. saved' = saved /\ CallStep(p)
    BY <1>5 DEF ReleaseLease, CallStep, Continue
  <2>2. \/ calls'[p].step = "advance"
        \/ (calls'[p].step = "truncate" /\ calls'[p].next.kind = "blocked")
    <3>1. Action("blocked", calls[p].phase).kind = "blocked"
      BY DEF Action
    <3> QED
      BY <1>5, <3>1, ReleaseLeaseEffect
  <2> QED
    BY <1>1, <1>2, <1>5, <2>1, <2>2, ReleaseLeaseEffect, FitsNothing
<1>6. ASSUME NEW p \in Process, Advance(p) PROVE FitInv'
  <2>1. saved' = saved /\ CallStep(p)
    BY <1>6 DEF Advance, CallStep, Continue
  <2>2. calls'[p].step = "truncate" /\ Others(p)
    BY <1>6, AdvanceEffect DEF OverBudget
  <2> QED
    BY <1>1, <1>2, <1>6, <2>1, <2>2, AdvanceFits
<1>7. ASSUME NEW p \in Process, Truncate(p) PROVE FitInv'
  <2>1. saved'.file = "torn" /\ CallStep(p)
    BY <1>7 DEF Truncate, CallStep, Continue, EmptyState
  <2>2. calls[p].step = "truncate"
    BY <1>1, <1>7 DEF Truncate
  <2> QED
    BY <1>1, <1>2, <1>7, <2>1, <2>2, TruncateEffect DEF Keeps
<1>8. ASSUME NEW p \in Process, WriteFirst(p) PROVE FitInv'
  BY <1>1, <1>8 DEF WriteFirst
<1>9. ASSUME NEW p \in Process, Write(p) PROVE FitInv'
  <2>1. /\ CallStep(p)
        /\ saved'.file = "whole"
              => saved'.phases = calls[p].phases /\ saved'.next = calls[p].next
    BY <1>9 DEF Write, SaveText, EmptyState, CallStep, Continue
  <2>2. calls[p].step = "write"
    BY <1>9 DEF Write
  <2> QED
    BY <1>1, <1>2, <1>9, <2>1, <2>2, WriteEffect, IdleFacts
<1>10. CASE Outside \/ UNCHANGED vars
  BY <1>1, <1>10, OutsideCalls DEF FitInv, Fits, Due
<1> QED
  BY <1>3, <1>4, <1>5, <1>6, <1>7, <1>8, <1>9, <1>10, Steps DEF CallStep, Continue
-----------------------------------------------------------------------------
(* Nobody holds the order to apply before apply is unlocked.               *)
Unlocked == ~ApplyBlocked /\ Available("apply")

Order == Action("spawn_subagent", "apply")

LEMMA UnlockedStays == TypeOK /\ Unlocked /\ [Next]_vars => Unlocked'
<1> SUFFICES ASSUME TypeOK, Unlocked, [Next]_vars PROVE Unlocked'
  OBVIOUS
<1>1. /\ artifacts \subseteq artifacts' /\ published \subseteq published'
      /\ verdicts.approved => verdicts'.approved
  <2>1. ASSUME NEW p \in Process, CallStep(p) PROVE UNCHANGED files
    <3>1. CASE Marks(p)
      BY <3>1, MarksEffect DEF files
    <3>2. CASE Start(p) \/ Resume(p) \/ Continue(p) \/ Crash(p)
      BY <3>2 DEF Continue, Start, Resume, ReadLedger, TruncateLedger, WriteLedger, ReleaseLease,
         Advance, RaiseOnLedger, Truncate, WriteFirst, Write, Crash, files
    <3> QED
      BY <2>1, <3>1, <3>2 DEF CallStep
  <2>2. CASE Outside
    BY <2>2 DEF TypeOK, Outside, WriteArtifact, PublishArtifact, Confirm, ExpireLease, files
  <2>3. CASE UNCHANGED vars
    BY <2>3 DEF vars, files
  <2> QED
    BY <2>1, <2>2, <2>3, Steps DEF files
<1>2. config' = config
  BY ConfigStays
<1> QED
  BY <1>1, <1>2 DEF Unlocked, ApplyBlocked, Available

LEMMA DecidedUnlocked ==
    ASSUME NEW q \in Phase, DecidedFor(q) = Order
    PROVE  Unlocked
<1>1. Order.kind = "spawn_subagent" /\ Order.phase = "apply"
  BY DEF Order, Action
<1>2. q = "apply"
  BY <1>1, DecidedType
<1>3. \A k : Action(k, q).kind = k
  BY DEF Action
<1>4. CASE Available(q) /\ ~(q = "apply" /\ ApplyBlocked)
  BY <1>2, <1>4 DEF Unlocked
<1>5. CASE ~(Available(q) /\ ~(q = "apply" /\ ApplyBlocked))
  <2>1. DecidedFor(q).kind \in {"blocked", "request_approval"}
    BY <1>3, <1>5 DEF DecidedFor
  <2> QED
    BY <1>1, <2>1
<1> QED
  BY <1>4, <1>5

(* Where the actions on disk and in the calls come from.                   *)
Inherits(p) ==
    /\ saved'.next \in {saved.next, calls[p].next, calls[p].loaded, NoAction}
    /\ calls'[p].loaded \in {calls[p].loaded, saved.next, NoAction}
    /\ \/ calls'[p].next \in {calls[p].next, NoAction}
       \/ calls'[p].next.kind \in {"blocked", "done"}
       \/ \E q \in Phase : calls'[p].next = DecidedFor(q)

LEMMA CallInherits ==
    ASSUME TypeOK, NEW p \in Process, CallStep(p)
    PROVE  Inherits(p)
<1>1. \A q : Action("blocked", q).kind = "blocked" /\ Action("done", q).kind = "done"
  BY DEF Action
<1>2. CASE Start(p)
  BY <1>2, StartEffect DEF Inherits, Keeps, Start
<1>3. CASE Resume(p)
  BY <1>3, ResumeEffect DEF Inherits, Resume
<1>4. CASE Marks(p)
  BY <1>4, MarksEffect DEF Inherits
<1>5. CASE ReadLedger(p)
  BY <1>5, ReadLedgerEffect DEF Inherits, Keeps, ReadLedger
<1>6. CASE TruncateLedger(p)
  BY <1>6, TruncateLedgerEffect DEF Inherits, Keeps, TruncateLedger
<1>7. CASE WriteLedger(p)
  BY <1>7, WriteLedgerEffect DEF Inherits, Keeps, WriteLedger
<1>8. CASE ReleaseLease(p)
  <2>1. saved' = saved
    BY <1>8 DEF ReleaseLease
  <2>2. calls'[p].next = calls[p].next \/ calls'[p].next.kind = "blocked"
    BY <1>1, <1>8, ReleaseLeaseEffect
  <2>3. calls'[p].loaded = calls[p].loaded
    BY <1>8, ReleaseLeaseEffect DEF Keeps
  <2> QED
    BY <2>1, <2>2, <2>3 DEF Inherits
<1>9. CASE Advance(p)
  <2>1. saved' = saved
    BY <1>9 DEF Advance
  <2>2. calls'[p].next.kind = "done" \/ \E q \in Phase : calls'[p].next = DecidedFor(q)
    BY <1>1, <1>9, AdvanceEffect
  <2>3. calls'[p].loaded = calls[p].loaded
    BY <1>9, AdvanceEffect DEF Keeps
  <2> QED
    BY <2>1, <2>2, <2>3 DEF Inherits
<1>10. CASE RaiseOnLedger(p)
  BY <1>10, RaiseOnLedgerEffect, IdleFacts DEF Inherits, RaiseOnLedger
<1>11. CASE Truncate(p)
  <2>1. saved'.next = NoAction
    BY <1>11 DEF Truncate, EmptyState
  <2> QED
    BY <1>11, <2>1, TruncateEffect DEF Inherits, Keeps
<1>12. CASE WriteFirst(p)
  <2>1. saved'.next \in {calls[p].loaded, NoAction}
    BY <1>12 DEF WriteFirst, SaveText, EmptyState
  <2> QED
    BY <1>12, <2>1, WriteFirstEffect DEF Inherits, Keeps
<1>13. CASE Write(p)
  <2>1. saved'.next \in {calls[p].next, NoAction}
    BY <1>13 DEF Write, SaveText, EmptyState
  <2> QED
    BY <1>13, <2>1, WriteEffect, IdleFacts DEF Inherits
<1>14. CASE Crash(p)
  BY <1>14, CrashEffect, IdleFacts DEF Inherits, Crash
<1> QED
  BY <1>2, <1>3, <1>4, <1>5, <1>6, <1>7, <1>8, <1>9, <1>10, <1>11, <1>12, <1>13, <1>14
  DEF CallStep, Continue

LEMMA InitApply == Init => ApplyInv
<1>1. NoAction # Action("spawn_subagent", "apply")
  BY DEF NoAction, Action
<1> QED
  BY <1>1, IdleFacts DEF Init, ApplyInv, MayApply

LEMMA NextApply == TypeOK /\ ApplyInv /\ [Next]_vars => ApplyInv'
<1> SUFFICES ASSUME TypeOK, ApplyInv, [Next]_vars PROVE ApplyInv'
  OBVIOUS
<1>1. CASE Unlocked
  BY <1>1, UnlockedStays DEF ApplyInv, MayApply, Unlocked
<1>2. CASE ~Unlocked
  <2>1. /\ saved.next # Order
        /\ \A r \in Process : calls[r].loaded # Order /\ calls[r].next # Order
    BY <1>2 DEF ApplyInv, MayApply, Unlocked, Order
  <2>2. Order.kind = "spawn_subagent" /\ NoAction # Order
    BY IdleFacts DEF Order, Action
  <2>3. ASSUME NEW p \in Process, CallStep(p)
        PROVE  /\ saved'.next # Order
               /\ \A r \in Process : calls'[r].loaded # Order /\ calls'[r].next # Order
    <3>1. Inherits(p) /\ Others(p)
      BY <2>3, CallInherits, CallEnters
    <3>2. saved'.next # Order /\ calls'[p].loaded # Order
      BY <2>1, <2>2, <3>1 DEF Inherits
    <3>3. calls'[p].next # Order
      BY <1>2, <2>1, <2>2, <3>1, DecidedUnlocked DEF Inherits
    <3> QED
      BY <2>1, <3>1, <3>2, <3>3 DEF Others
  <2>4. /\ saved'.next # Order
        /\ \A r \in Process : calls'[r].loaded # Order /\ calls'[r].next # Order
    BY <2>1, <2>3, OutsideCalls, Steps
  <2> QED
    BY <2>4 DEF ApplyInv, MayApply, Order, Action
<1> QED
  BY <1>1, <1>2

-----------------------------------------------------------------------------
(* No charge is lost.                                                      *)
LEMMA Alone ==
    ASSUME CallInv, "overlap" \notin mishaps, NEW p \in Process, Active(p),
           NEW r \in Process, r # p
    PROVE  calls[r] = Idle
BY DEF CallInv

(* The steps that touch neither the ledger nor what was read from it.      *)
LEMMA OffLedger ==
    ASSUME TypeOK, NEW p \in Process,
           \/ Start(p) \/ Resume(p) \/ Marks(p) \/ ReleaseLease(p) \/ Advance(p)
           \/ RaiseOnLedger(p) \/ Truncate(p) \/ WriteFirst(p) \/ Write(p) \/ Crash(p)
    PROVE  /\ ledger' = ledger /\ spent' = spent
           /\ calls'[p].used \in {0, calls[p].used}
           /\ calls'[p].step \notin {"truncate_ledger", "write_ledger"}
<1>1. CASE Start(p)
  BY <1>1, StartEffect DEF Start
<1>2. CASE Resume(p)
  BY <1>2, ResumeEffect DEF Resume
<1>3. CASE Marks(p)
  BY <1>3, MarksEffect
<1>4. CASE ReleaseLease(p)
  BY <1>4, ReleaseLeaseEffect DEF ReleaseLease
<1>5. CASE Advance(p)
  BY <1>5, AdvanceEffect DEF Advance
<1>6. CASE RaiseOnLedger(p)
  BY <1>6, RaiseOnLedgerEffect, IdleFacts DEF RaiseOnLedger
<1>7. CASE Truncate(p)
  BY <1>7, TruncateEffect DEF Truncate
<1>8. CASE WriteFirst(p)
  BY <1>8, WriteFirstEffect DEF WriteFirst
<1>9. CASE Write(p)
  BY <1>9, WriteEffect, IdleFacts DEF Write
<1>10. CASE Crash(p)
  BY <1>10, CrashEffect, IdleFacts DEF Crash
<1> QED
  BY <1>1, <1>2, <1>3, <1>4, <1>5, <1>6, <1>7, <1>8, <1>9, <1>10

LEMMA InitLedger == Init => LedgerInv
BY IdleFacts DEF Init, LedgerInv, Charging

LEMMA NextLedger == TypeOK /\ LedgerInv /\ [Next]_vars => LedgerInv'
<1> SUFFICES ASSUME TypeOK, LedgerInv, [Next]_vars PROVE LedgerInv'
  OBVIOUS
<1>1. mishaps \subseteq mishaps'
  BY MishapsStay
<1>2. /\ ledger.used <= spent /\ ledger.used \in Nat /\ spent \in Nat
      /\ \A p \in Process :
             calls[p].used <= spent /\ calls[p].used \in Nat /\ calls[p].tokens \in Nat
  BY CallFields DEF LedgerInv, TypeOK
<1>3. ASSUME NEW p \in Process, Others(p), spent' = spent, ledger' = ledger,
             calls'[p].used \in {0, calls[p].used},
             calls'[p].step \notin {"truncate_ledger", "write_ledger"},
             calls[p].step = "write_ledger" => "crash" \in mishaps'
      PROVE  LedgerInv'
  <2>1. \A r \in Process : calls'[r].used <= spent
    BY <1>2, <1>3 DEF Others
  <2>2. \A r \in Process : Charging(r)' => r # p /\ Charging(r)
    BY <1>3 DEF Others, Charging
  <2>3. \A r \in Process : r # p => calls'[r] = calls[r]
    BY <1>3 DEF Others
  <2>4. ASSUME "charge" \notin mishaps' PROVE "charge" \notin mishaps
    BY <1>1, <2>4
  <2>5. "charge" \notin mishaps' /\ ledger.file = "torn"
           => "crash" \in mishaps' \/ \E r \in Process : calls'[r].step = "write_ledger"
    BY <1>1, <1>3, <2>3, <2>4 DEF LedgerInv
  <2>6. "charge" \notin mishaps' => \A r \in Process : Charging(r)' => calls'[r].used = spent
    BY <2>2, <2>3, <2>4 DEF LedgerInv
  <2>7. "charge" \notin mishaps'
           => \A r \in Process : calls'[r].step = "write_ledger" => ledger.file = "torn"
    BY <1>3, <2>3, <2>4 DEF LedgerInv
  <2>8. "charge" \notin mishaps'
           => \A r, t \in Process : Charging(r)' /\ Charging(t)' => r = t
    BY <2>2, <2>4 DEF LedgerInv
  <2> QED
    BY <1>2, <1>3, <2>1, <2>4, <2>5, <2>6, <2>7, <2>8 DEF LedgerInv
<1>4. ASSUME NEW p \in Process,
             \/ Start(p) \/ Resume(p) \/ Marks(p) \/ ReleaseLease(p) \/ Advance(p)
             \/ RaiseOnLedger(p) \/ Truncate(p) \/ WriteFirst(p) \/ Write(p) \/ Crash(p)
      PROVE  LedgerInv'
  <2>1. CallStep(p)
    BY <1>4 DEF CallStep, Continue
  <2>2. Others(p)
    BY <2>1, CallEnters
  <2>3. calls[p].step = "write_ledger" => "crash" \in mishaps'
    <3>1. CASE Crash(p)
      BY <3>1 DEF Crash
    <3>2. CASE Marks(p)
      BY <3>2, MarksEffect DEF Load
    <3>3. CASE \/ Start(p) \/ Resume(p) \/ ReleaseLease(p) \/ Advance(p) \/ RaiseOnLedger(p)
               \/ Truncate(p) \/ WriteFirst(p) \/ Write(p)
      BY <3>3 DEF Start, Resume, Load, ReleaseLease, Advance, RaiseOnLedger, Truncate,
         WriteFirst, Write
    <3> QED
      BY <1>4, <3>1, <3>2, <3>3
  <2> QED
    BY <1>3, <1>4, <2>2, <2>3, OffLedger
<1>5. ASSUME NEW p \in Process, ReadLedger(p) PROVE LedgerInv'
  <2>1. ledger' = ledger /\ spent' = spent /\ ledger.file # "torn"
    BY <1>5 DEF ReadLedger
  <2>2. Others(p) /\ calls'[p].used = ledger.used /\ calls'[p].step = "truncate_ledger"
    BY <1>5, ReadLedgerEffect
  <2>3. \A r \in Process : calls'[r].used <= spent
    BY <1>2, <2>2 DEF Others
  <2>4. ASSUME "charge" \notin mishaps'
        PROVE  /\ ledger.used = spent
               /\ \A r \in Process : ~Charging(r)
    BY <1>1, <1>5, <2>1, <2>4 DEF ReadLedger, LedgerInv
  <2>5. ASSUME "charge" \notin mishaps', NEW r \in Process, Charging(r)'
        PROVE  r = p /\ calls'[r].used = spent /\ calls'[r].step # "write_ledger"
    BY <2>2, <2>4, <2>5 DEF Others, Charging
  <2> QED
    BY <1>2, <2>1, <2>3, <2>4, <2>5 DEF LedgerInv, Charging
<1>6. ASSUME NEW p \in Process, TruncateLedger(p) PROVE LedgerInv'
  <2>1. /\ spent' = spent /\ mishaps' = mishaps /\ calls[p].step = "truncate_ledger"
        /\ ledger'.file = "torn" /\ ledger'.used = 0
    BY <1>6 DEF TruncateLedger, EmptyLedger
  <2>2. Others(p) /\ calls'[p].used = calls[p].used /\ calls'[p].step = "write_ledger"
    BY <1>6, TruncateLedgerEffect
  <2>3. \A r \in Process : calls'[r].used = calls[r].used /\ (Charging(r)' <=> Charging(r))
    BY <2>1, <2>2 DEF Others, Charging
  <2> QED
    BY <1>2, <2>1, <2>2, <2>3 DEF LedgerInv
<1>7. ASSUME NEW p \in Process, WriteLedger(p) PROVE LedgerInv'
  <2>1. /\ calls[p].step = "write_ledger" /\ spent' = spent + calls[p].tokens
        /\ mishaps' = mishaps
        /\ \/ ledger'.used = calls[p].used + calls[p].tokens /\ ledger'.file = "whole"
           \/ ledger.file = "whole" /\ ledger'.used = 0
    BY <1>7 DEF WriteLedger, EmptyLedger, MayMix
  <2>2. Others(p) /\ calls'[p].step = "release" /\ calls'[p].used = 0
    BY <1>7, WriteLedgerEffect
  <2>3. ledger'.used <= spent' /\ \A r \in Process : calls'[r].used <= spent'
    BY <1>2, <2>1, <2>2 DEF Others
  <2>4. ASSUME "charge" \notin mishaps
        PROVE  /\ ledger'.used = spent' /\ ledger'.file = "whole"
               /\ \A r \in Process : calls'[r].step \notin {"truncate_ledger", "write_ledger"}
    <3>1. Charging(p)
      BY <2>1 DEF Charging
    <3>2. calls[p].used = spent /\ ledger.file = "torn"
      BY <2>1, <2>4, <3>1 DEF LedgerInv
    <3>3. \A r \in Process : r # p => ~Charging(r)
      BY <2>4, <3>1 DEF LedgerInv
    <3> QED
      BY <2>1, <2>2, <3>2, <3>3 DEF Others, Charging
  <2> QED
    BY <2>1, <2>3, <2>4 DEF LedgerInv, Charging
<1>8. CASE Outside \/ UNCHANGED vars
  BY <1>1, <1>8, OutsideCalls DEF LedgerInv, Charging
<1> QED
  BY <1>4, <1>5, <1>6, <1>7, <1>8, Steps DEF CallStep, Continue

-----------------------------------------------------------------------------
(* The lease of the phase that is handed out is held.                      *)
Saving == {"truncate_first", "write_first", "truncate", "write"}

LEMMA Sole ==
    ASSUME TypeOK, CallInv, [Next]_vars, NEW p \in Process, CallStep(p), "overlap" \notin mishaps'
    PROVE  \A r \in Process : r # p => calls[r] = Idle /\ calls'[r] = Idle
<1>1. Others(p) /\ Enters(p) /\ "overlap" \notin mishaps
  BY CallEnters, MishapsStay
<1>2. CASE Active(p)
  BY <1>1, <1>2, Alone DEF Others
<1>3. CASE ~Active(p)
  <2>1. Start(p) \/ Resume(p) \/ Marks(p)
    BY <1>3 DEF Active, CallStep, Continue, ReadLedger, TruncateLedger, WriteLedger, ReleaseLease,
       Advance, RaiseOnLedger, Truncate, WriteFirst, Write, Crash
  <2>2. calls'[p].step # "idle"
    <3>1. CASE Start(p)
      BY <3>1, StartEffect
    <3>2. CASE Resume(p)
      BY <3>2, ResumeEffect
    <3>3. CASE Marks(p)
      BY <3>3, MarksEffect
    <3> QED
      BY <2>1, <3>1, <3>2, <3>3
  <2>3. \A r \in Process : r # p => ~Active(r)
    BY <1>1, <1>3, <2>2 DEF Enters
  <2> QED
    BY <1>1, <2>3 DEF CallInv, Others
<1> QED
  BY <1>2, <1>3

(* What LeaseInv says of the one call there is.                            *)
Leases(p) ==
    /\ ledger.file = "torn" <=> calls[p].step = "write_ledger"
    /\ \A q \in Phase :
          calls[p].step \in Saving /\ calls[p].next = Action("spawn_subagent", q) => q \in leased
    /\ calls[p].step = "idle" => \A q \in Phase : Spawned(q) => q \in leased

LEMMA InitLease == Init => LeaseInv
BY IdleFacts DEF Init, LeaseInv, Spawned, Active

LEMMA StepLeases ==
    ASSUME TypeOK, NEW p \in Process, CallStep(p), Leases(p), "crash" \notin mishaps',
           "lease" \notin mishaps'
    PROVE  Leases(p)'
<1>1. CASE Start(p)
  BY <1>1, StartEffect DEF Leases, Saving, Start
<1>2. CASE Resume(p)
  BY <1>2, ResumeEffect DEF Leases, Saving, Resume, Load
<1>3. CASE Marks(p)
  BY <1>3, MarksEffect DEF Leases, Saving, Load
<1>4. CASE ReadLedger(p)
  BY <1>4, ReadLedgerEffect DEF Leases, Saving, ReadLedger
<1>5. CASE TruncateLedger(p)
  <2>1. ledger'.file = "torn"
    BY <1>5 DEF TruncateLedger, EmptyLedger
  <2> QED
    BY <1>5, <2>1, TruncateLedgerEffect DEF Leases, Saving
<1>6. CASE WriteLedger(p)
  <2>1. ledger.file = "torn"
    BY <1>6 DEF WriteLedger, Leases
  <2>2. ledger'.file = "whole"
    BY <1>6, <2>1 DEF WriteLedger, MayMix
  <2> QED
    BY <1>6, <2>2, WriteLedgerEffect DEF Leases, Saving
<1>7. CASE ReleaseLease(p)
  <2>1. ledger' = ledger /\ calls[p].step = "release"
    BY <1>7 DEF ReleaseLease
  <2>2. \A q \in Phase : Action("blocked", calls[p].phase) # Action("spawn_subagent", q)
    BY DEF Action
  <2>3. \/ calls'[p].step = "truncate" /\ calls'[p].next = Action("blocked", calls[p].phase)
        \/ calls'[p].step = "advance"
    BY <1>7, ReleaseLeaseEffect
  <2> QED
    BY <2>1, <2>2, <2>3 DEF Leases, Saving
<1>8. CASE Advance(p)
  <2>1. ledger' = ledger /\ calls[p].step = "advance"
    BY <1>8 DEF Advance
  <2>2. calls'[p].step \in {"truncate", "truncate_first"}
    BY <1>8, AdvanceEffect
  <2>3. ASSUME NEW q \in Phase, calls'[p].next = Action("spawn_subagent", q)
        PROVE  q \in leased'
    <3>1. Action("done", "none") # Action("spawn_subagent", q)
      BY DEF Action
    <3>2. PICK r \in Due(calls[p].phases) \cap Phase :
              /\ calls'[p].next = DecidedFor(r)
              /\ leased' = LeasedFor(p, DecidedFor(r)) \/ "lease" \in mishaps'
      BY <1>8, <2>3, <3>1, AdvanceEffect
    <3>3. leased' = LeasedFor(p, Action("spawn_subagent", q))
      BY <2>3, <3>2
    <3> QED
      BY <3>3 DEF LeasedFor, Action
  <2> QED
    BY <2>1, <2>2, <2>3 DEF Leases, Saving
<1>9. CASE RaiseOnLedger(p)
  BY <1>9 DEF RaiseOnLedger, Leases
<1>10. CASE Truncate(p)
  <2>1. ledger' = ledger /\ leased' = leased /\ calls[p].step \in {"truncate", "truncate_first"}
    BY <1>10 DEF Truncate
  <2>2. calls'[p].step \in {"write", "write_first"} /\ calls'[p].next = calls[p].next
    BY <1>10, TruncateEffect
  <2> QED
    BY <2>1, <2>2 DEF Leases, Saving
<1>11. CASE WriteFirst(p)
  <2>1. ledger' = ledger /\ leased' = leased /\ calls[p].step = "write_first"
    BY <1>11 DEF WriteFirst
  <2>2. calls'[p].step = "truncate" /\ calls'[p].next = calls[p].next
    BY <1>11, WriteFirstEffect
  <2> QED
    BY <2>1, <2>2 DEF Leases, Saving
<1>12. CASE Write(p)
  <2>1. ledger' = ledger /\ leased' = leased /\ calls[p].step = "write"
        /\ (saved'.file = "whole" => saved'.next = calls[p].next)
    BY <1>12 DEF Write, SaveText, EmptyState
  <2>2. calls'[p].step = "idle"
    BY <1>12, WriteEffect, IdleFacts
  <2> QED
    BY <2>1, <2>2 DEF Leases, Saving, Spawned
<1>13. CASE Crash(p)
  BY <1>13 DEF Crash
<1> QED
  BY <1>1, <1>2, <1>3, <1>4, <1>5, <1>6, <1>7, <1>8, <1>9, <1>10, <1>11, <1>12, <1>13
  DEF CallStep, Continue

LEMMA NextLease == TypeOK /\ CallInv /\ LeaseInv /\ [Next]_vars => LeaseInv'
<1> SUFFICES ASSUME TypeOK, CallInv, LeaseInv, [Next]_vars, Orderly' PROVE LeaseInv'
  BY DEF LeaseInv
<1>1. Orderly /\ {"overlap", "crash", "lease"} \cap mishaps' = {}
  BY MishapsStay DEF Orderly
<1>2. ASSUME NEW p \in Process, CallStep(p) PROVE LeaseInv'
  <2>1. \A r \in Process : r # p => calls[r] = Idle /\ calls'[r] = Idle
    BY <1>1, <1>2, Sole
  <2>2. Leases(p)
    BY <1>1, <2>1, IdleFacts DEF Leases, LeaseInv, Saving, Active
  <2>3. Leases(p)'
    BY <1>1, <1>2, <2>2, StepLeases
  <2> QED
    BY <2>1, <2>3, IdleFacts DEF Leases, LeaseInv, Saving, Active
<1>3. CASE Outside
  <2>1. calls' = calls /\ saved' = saved /\ ledger' = ledger
    BY <1>3, OutsideCalls
  <2>2. leased' = leased
    BY <1>1, <1>3 DEF Outside, WriteArtifact, PublishArtifact, Confirm, ExpireLease
  <2> QED
    BY <1>1, <2>1, <2>2 DEF LeaseInv, Spawned, Active
<1>4. CASE UNCHANGED vars
  BY <1>1, <1>4 DEF vars, LeaseInv, Spawned, Active
<1> QED
  BY <1>2, <1>3, <1>4, Steps

-----------------------------------------------------------------------------
(* A call changes the phase it is about, and no other.                     *)
LEMMA InitCopy == Init => CopyInv
BY IdleFacts DEF Init, CopyInv, Active

(* The text of a call reaches state.json, or the file is emptied or kept.  *)
Saves(p) ==
    /\ saved'.file = "whole" /\ saved'.phases = calls[p].phases
    /\ recorded' = Completed(calls[p].phases)
    /\ Active(p)

LEMMA CallSaves ==
    ASSUME TypeOK, NEW p \in Process, CallStep(p)
    PROVE  \/ saved' = saved /\ recorded' = recorded
           \/ saved'.file = "torn" /\ recorded' = recorded
           \/ Saves(p)
<1>1. CASE WriteFirst(p) \/ Write(p)
  BY <1>1 DEF WriteFirst, Write, SaveText, EmptyState, Saves, Active
<1>2. CASE Truncate(p)
  BY <1>2 DEF Truncate, EmptyState
<1>3. CASE Start(p) \/ Resume(p) \/ Crash(p) \/ ReadLedger(p) \/ TruncateLedger(p) \/ WriteLedger(p)
           \/ ReleaseLease(p) \/ Advance(p) \/ RaiseOnLedger(p)
  BY <1>3 DEF Start, Resume, Crash, ReadLedger, TruncateLedger, WriteLedger, ReleaseLease, Advance,
     RaiseOnLedger
<1>4. CASE Marks(p)
  BY <1>4, MarksEffect
<1> QED
  BY <1>1, <1>2, <1>3, <1>4 DEF CallStep, Continue

(* What CopyInv says of the one call there is.                             *)
Copies(p) ==
    calls[p].step # "idle" =>
        \A q \in Phase : q # calls[p].phase => (Complete(calls[p].phases[q]) <=> q \in recorded)

LEMMA StepCopies ==
    ASSUME TypeOK, CallInv, CopyInv, NEW p \in Process, CallStep(p), Copies(p)
    PROVE  Copies(p)'
<1>1. CASE Start(p)
  <2>1. calls[p] = Idle /\ recorded' = recorded /\ saved.file = "absent"
    BY <1>1 DEF Start, CallInv, Active
  <2>2. calls'[p].phases = [q \in Phase |-> "pending"]
    BY <1>1, <2>1, StartEffect, IdleFacts DEF Keeps
  <2> QED
    BY <2>1, <2>2 DEF Copies, CopyInv, Complete
<1>2. CASE Resume(p)
  <2>1. recorded' = recorded /\ recorded = Completed(saved.phases)
    BY <1>2 DEF Resume, Load, CopyInv
  <2> QED
    BY <1>2, <2>1, ResumeEffect DEF Copies, Completed
<1>3. CASE Marks(p)
  <2>1. /\ recorded' = recorded /\ recorded = Completed(saved.phases)
        /\ saved.phases \in [Phase -> Status]
    BY <1>3, MarksEffect DEF TypeOK, Load, CopyInv
  <2>2. \A q \in Phase : q # calls'[p].phase => calls'[p].phases[q] = saved.phases[q]
    BY <1>3, <2>1, MarksEffect
  <2> QED
    BY <2>1, <2>2 DEF Copies, Completed
<1>4. CASE RaiseOnLedger(p) \/ Write(p) \/ Crash(p)
  BY <1>4, RaiseOnLedgerEffect, WriteEffect, CrashEffect, IdleFacts DEF Copies
<1>5. ASSUME Keeps(p), calls[p].step # "idle",
             recorded' \in {recorded, Completed(calls[p].phases)}
      PROVE  Copies(p)'
  BY <1>5 DEF Copies, Keeps, Completed
<1>6. CASE ReadLedger(p)
  BY <1>5, <1>6, ReadLedgerEffect DEF ReadLedger
<1>7. CASE TruncateLedger(p)
  BY <1>5, <1>7, TruncateLedgerEffect DEF TruncateLedger
<1>8. CASE WriteLedger(p)
  BY <1>5, <1>8, WriteLedgerEffect DEF WriteLedger
<1>9. CASE ReleaseLease(p)
  BY <1>5, <1>9, ReleaseLeaseEffect DEF ReleaseLease
<1>10. CASE Advance(p)
  BY <1>5, <1>10, AdvanceEffect DEF Advance
<1>11. CASE Truncate(p)
  <2>1. recorded' = recorded /\ calls[p].step # "idle"
    BY <1>11 DEF Truncate
  <2> QED
    BY <1>5, <1>11, <2>1, TruncateEffect
<1>12. CASE WriteFirst(p)
  <2>1. recorded' \in {recorded, Completed(calls[p].phases)} /\ calls[p].step # "idle"
    BY <1>12 DEF WriteFirst, SaveText
  <2> QED
    BY <1>5, <1>12, <2>1, WriteFirstEffect
<1> QED
  BY <1>1, <1>2, <1>3, <1>4, <1>6, <1>7, <1>8, <1>9, <1>10, <1>11, <1>12 DEF CallStep, Continue

LEMMA NextCopy == TypeOK /\ CallInv /\ CopyInv /\ [Next]_vars => CopyInv'
<1> SUFFICES ASSUME TypeOK, CallInv, CopyInv, [Next]_vars PROVE CopyInv'
  OBVIOUS
<1>1. ASSUME NEW p \in Process, CallStep(p) PROVE CopyInv'
  <2>1. /\ saved'.file = "absent" => recorded' = {}
        /\ saved'.file = "whole" => recorded' = Completed(saved'.phases)
    BY <1>1, CallSaves DEF CopyInv, Saves
  <2>2. ASSUME "overlap" \notin mishaps', NEW r \in Process, Active(r)'
        PROVE  \A q \in Phase : q # calls'[r].phase
                                    => (Complete(calls'[r].phases[q]) <=> q \in recorded')
    <3>1. r = p
      BY <1>1, <2>2, Sole, IdleFacts DEF Active
    <3>2. Copies(p)
      BY <2>2, MishapsStay DEF Copies, CopyInv, Active
    <3>3. Copies(p)'
      BY <1>1, <3>2, StepCopies
    <3> QED
      BY <2>2, <3>1, <3>3 DEF Copies, Active
  <2> QED
    BY <2>1, <2>2 DEF CopyInv, Completed
<1>2. CASE Outside \/ UNCHANGED vars
  BY <1>2, MishapsStay, OutsideCalls DEF CopyInv, Active, Completed
<1> QED
  BY <1>1, <1>2, Steps

-----------------------------------------------------------------------------
(* Undisturbed, a call leaves a whole state.json.                          *)
LEMMA InitFile == Init => FileInv
BY IdleFacts DEF Init, FileInv, Writing

(* What FileInv says of the one call there is.                             *)
LEMMA StepTears ==
    ASSUME TypeOK, NEW p \in Process, CallStep(p), saved.file = "torn" <=> Writing(p),
           "crash" \notin mishaps'
    PROVE  saved'.file = "torn" <=> Writing(p)'
<1> USE DEF Writing
<1>1. CASE Start(p) \/ Resume(p) \/ ReadLedger(p) \/ TruncateLedger(p) \/ WriteLedger(p)
  <2>1. saved' = saved /\ calls[p].step \notin {"write", "write_first"}
    BY <1>1 DEF Start, Resume, Load, ReadLedger, TruncateLedger, WriteLedger
  <2>2. calls'[p].step \notin {"write", "write_first"}
    BY <1>1, StartEffect, ResumeEffect, ReadLedgerEffect, TruncateLedgerEffect, WriteLedgerEffect
  <2> QED
    BY <2>1, <2>2
<1>2. CASE Marks(p)
  BY <1>2, MarksEffect DEF Load
<1>3. CASE ReleaseLease(p)
  BY <1>3, ReleaseLeaseEffect DEF ReleaseLease
<1>4. CASE Advance(p)
  BY <1>4, AdvanceEffect DEF Advance
<1>5. CASE RaiseOnLedger(p)
  BY <1>5, RaiseOnLedgerEffect, IdleFacts DEF RaiseOnLedger
<1>6. CASE Truncate(p)
  BY <1>6, TruncateEffect DEF Truncate, EmptyState
<1>7. CASE WriteFirst(p)
  <2>1. saved'.file = "whole"
    BY <1>7 DEF WriteFirst, SaveText, MayMix
  <2> QED
    BY <1>7, <2>1, WriteFirstEffect
<1>8. CASE Write(p)
  <2>1. saved'.file = "whole"
    BY <1>8 DEF Write, SaveText, MayMix
  <2> QED
    BY <1>8, <2>1, WriteEffect, IdleFacts
<1>9. CASE Crash(p)
  BY <1>9 DEF Crash
<1> QED
  BY <1>1, <1>2, <1>3, <1>4, <1>5, <1>6, <1>7, <1>8, <1>9 DEF CallStep, Continue

LEMMA NextFile == TypeOK /\ CallInv /\ FileInv /\ [Next]_vars => FileInv'
<1> SUFFICES ASSUME TypeOK, CallInv, FileInv, [Next]_vars, Undisturbed' PROVE FileInv'
  BY DEF FileInv
<1>1. Undisturbed /\ "overlap" \notin mishaps' /\ "crash" \notin mishaps'
  BY MishapsStay DEF Undisturbed
<1>2. ASSUME NEW p \in Process, CallStep(p) PROVE FileInv'
  <2>1. \A r \in Process : r # p => calls[r] = Idle /\ calls'[r] = Idle
    BY <1>1, <1>2, Sole
  <2>2. \A r \in Process : r # p => ~Writing(r) /\ ~Writing(r)'
    BY <2>1, IdleFacts DEF Writing
  <2>3. saved.file = "torn" <=> Writing(p)
    BY <1>1, <2>2 DEF FileInv
  <2>4. saved'.file = "torn" <=> Writing(p)'
    BY <1>1, <1>2, <2>3, StepTears
  <2> QED
    BY <2>2, <2>4 DEF FileInv
<1>3. CASE Outside \/ UNCHANGED vars
  <2>1. calls' = calls /\ saved' = saved
    BY <1>3, OutsideCalls
  <2> QED
    BY <1>1, <2>1 DEF FileInv, Writing
<1> QED
  BY <1>2, <1>3, Steps

-----------------------------------------------------------------------------
Inv ==
    /\ TypeOK /\ CallInv /\ FitInv /\ ApplyInv /\ LedgerInv /\ LeaseInv /\ CopyInv
    /\ FileInv

LEMMA Inductive == Spec => []Inv
<1>1. Init => Inv
  BY InitType, InitCall, InitFit, InitApply, InitLedger, InitLease, InitCopy, InitFile DEF Inv
<1>2. Inv /\ [Next]_vars => Inv'
  BY NextType, NextCall, NextFit, NextApply, NextLedger, NextLease, NextCopy, NextFile
  DEF Inv
<1> QED
  BY <1>1, <1>2, PTL DEF Spec

\* state.json, the ledger, the leases and the calls in flight keep their types.
THEOREM TypeCorrect == Spec => []TypeOK
<1>1. Inv => TypeOK
  BY DEF Inv
<1> QED
  BY <1>1, Inductive, PTL

\* Whatever flow, configuration and interleaving of calls and crashes: unless
\* the budget is strict, an agent is only ever sent to the first phase that is
\* not complete, and "done" is said of complete runs only.
THEOREM SavedActionFits == Spec => []NextFitsPhases
<1>1. Inv => NextFitsPhases
  BY DEF Inv, FitInv, Fits, NextFitsPhases, Spawned
<1> QED
  BY <1>1, Inductive, PTL

\* An order to apply that reaches state.json was decided after the approval,
\* the test that fails and the inputs of apply were there, and these stay.
THEOREM ApplyIsUnlocked == Spec => []ApplyUnlocked
<1>1. Inv => ApplyUnlocked
  BY DEF Inv, ApplyInv, MayApply, ApplyUnlocked, Spawned
<1> QED
  BY <1>1, Inductive, PTL

\* For any token counts and any number of processes, the ledger never claims
\* more than was charged, loses a charge only to a call that reads it in the
\* middle of another's, and is torn at rest only after such a call or a death.
THEOREM LedgerIsComplete == Spec => []LedgerKeepsAll
<1>1. Inv => LedgerKeepsAll
  BY DEF Inv, LedgerInv, LedgerKeepsAll
<1> QED
  BY <1>1, Inductive, PTL

\* Without overlap, crash or lost lease, the phase an agent was sent to is
\* leased, since the lease is taken before the order is saved.
THEOREM SpawnHoldsLease == Spec => []SpawnedIsLeased
<1>1. Inv => SpawnedIsLeased
  BY DEF Inv, LeaseInv, SpawnedIsLeased, Orderly, Active
<1> QED
  BY <1>1, Inductive, PTL

\* A call saves the copy it has loaded, so that as long as no two calls have
\* overlapped only a call about a phase takes its completion back; and unless a
\* call dies, whoever looks between two calls finds a file that parses.
THEOREM CompletionsStay == Spec => NoLostCompletion
<1>1. ASSUME Inv, [Next]_vars, NEW q \in recorded \ recorded', "overlap" \notin mishaps
      PROVE  \E p \in Process : calls[p].phase = q
  <2>1. q \in Phase
    BY <1>1 DEF Inv, TypeOK
  <2>2. PICK p \in Process : CallStep(p)
    BY <1>1, OutsideCalls, Steps
  <2>3. Saves(p)
    BY <1>1, <2>2, CallSaves DEF Inv
  <2>4. ~Complete(calls[p].phases[q])
    BY <1>1, <2>1, <2>3 DEF Saves, Completed
  <2>5. calls[p].phase = q
    BY <1>1, <2>1, <2>3, <2>4 DEF Saves, Inv, CopyInv
  <2> QED
    BY <2>5
<1>2. Inv /\ [Next]_vars => Inv'
  BY NextType, NextCall, NextFit, NextApply, NextLedger, NextLease, NextCopy, NextFile
  DEF Inv
<1>3. Inv /\ Inv' /\ [Next]_vars =>
        [/\ \A q \in recorded \ recorded' :
               "overlap" \in mishaps \/ \E p \in Process : calls[p].phase = q
         /\ saved'.file = "torn"
               => \/ mishaps' \cap {"overlap", "crash"} # {}
                  \/ \E p \in Process : calls'[p].step \in {"write", "write_first"}]_vars
  BY <1>1 DEF Inv, FileInv, Undisturbed, Writing
<1> QED
  BY <1>2, <1>3, Inductive, PTL DEF Spec, NoLostCompletion
=============================================================================
