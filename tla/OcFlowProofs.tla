---------------------------- MODULE OcFlowProofs ----------------------------
(***************************************************************************)
(* Proofs about OcFlow, for every set of files, attempt budget, number of  *)
(* strategies and step limit.                                              *)
(***************************************************************************)
EXTENDS OcFlow, TLAPS

-----------------------------------------------------------------------------
(* Type correctness.                                                       *)

\* Restoring a checkpoint yields a workspace again.
LEMMA RestoredType ==
    ASSUME TypeOK
    PROVE  Restored \in [File -> Content]
BY DEF TypeOK, Restored, Context

\* The codes of the run-state contract are the only ones.
LEMMA ExitCodeType ==
    ASSUME NEW s, NEW v, NEW w
    PROVE  ExitCode(s, v, w) \in {0, 1, 3, 4, 5, 6, 8}
BY DEF ExitCode, BaseCode

\* Every path of resolve_completion and of the gates ends in a known status.
LEMMA FinalStatusType ==
    ASSUME TypeOK, NEW valid
    PROVE  EnforceGates(TerminalStatus, valid) \in Status
BY DEF TypeOK, EnforceGates, TerminalStatus, ResolveCompletion, NothingProduced,
       GraphStatus, Status

Result == [status: Status \cup {"none", "apply_failed"},
           exit_code: {0, 1, 3, 4, 5, 6, 8}, regression: Verification,
           changed: SUBSET File]

\* A final verdict is a well-typed result.
LEMMA DoneType ==
    ASSUME TypeOK, NEW s \in Status, NEW v, NEW g \in Verification, Done(s, v, g)
    PROVE  result' \in Result
<1>1. ExitCode(s, v, ctx.verification) \in {0, 1, 3, 4, 5, 6, 8}
  BY ExitCodeType
<1>2. ctx.changed \in SUBSET File
  BY DEF TypeOK, Context
<1>3. QED BY <1>1, <1>2 DEF Done, Result

LEMMA DoneFields ==
    ASSUME NEW s, NEW v, NEW g, Done(s, v, g)
    PROVE  /\ node' = "persisted"
           /\ result'.status = s
           /\ result'.exit_code = ExitCode(s, v, ctx.verification)
           /\ result'.regression = g
           /\ result'.changed = ctx.changed
BY DEF Done

\* What Mutate does to the context, for the reply and the edits it settles on.
MutateWith(r, edits) ==
    /\ edits \in {r.edits, {}}
    /\ ctx' = [ctx EXCEPT
          !.pending = edits,
          !.checkpoint = edits,
          !.saved = Captured(edits),
          !.emitted = TRUE,
          !.policy_blocked = IF r.why \in {"denied", "needs_approval"} THEN TRUE ELSE @,
          !.policy_approval_required = IF r.why = "needs_approval" THEN TRUE ELSE @,
          !.provider_available = IF r.why = "failed" THEN FALSE ELSE task.provider]

LEMMA MutateChooses ==
    ASSUME Mutate
    PROVE  \E r \in Replies : \E edits \in SUBSET File : MutateWith(r, edits)
<1>1. PICK r \in Replies :
         \E edits \in {r.edits} \cup (IF MayDrop(r.edits) THEN {{}} ELSE {}) :
            MutateWith(r, edits)
  BY DEF Mutate, MutateWith
<1>2. r.edits \subseteq File
  BY DEF Replies, Reply
<1>3. QED BY <1>1, <1>2

\* What LocalInspection does, for one answer of the tests.
InspectWith(tests) ==
    LET outcome  == Inspect(tests)
        rollback == outcome = "failed_blocking" /\ ctx.checkpoint # {} IN
    /\ ctx' = [ctx EXCEPT !.inspection = outcome, !.verification = tests,
                          !.restored_files = IF rollback THEN ctx.changed ELSE @]
    /\ disk' = IF rollback THEN Restored ELSE disk
    /\ node' = IF outcome = "passed" THEN "consolidation"
               ELSE IF outcome = "failed_recoverable" THEN "diagnose"
               ELSE "escalation"
    /\ status' = IF outcome = "failed_blocking" THEN "escalated" ELSE status

LEMMA InspectionChooses ==
    ASSUME LocalInspection
    PROVE  \E tests \in TestRuns : InspectWith(tests)
BY DEF LocalInspection, InspectWith

\* Init and every action keep the variables in their types.
LEMMA TypeInit == Init => TypeOK
<1> SUFFICES ASSUME Init PROVE TypeOK
  OBVIOUS
<1>1. disk \in [File -> Content] /\ inspected \in [File -> Content]
  BY DEF Init, Content, Defect
<1>2. task \in Task /\ task.provider \in BOOLEAN
  BY DEF Init, Task
<1>3. ctx \in Context
  <2>1. [f \in File |-> Absent] \in [File -> Content]
    BY DEF Absent, Content, Defect
  <2>2. QED BY <1>2, <2>1 DEF Init, Context, Outcome, Verification
<1>4. QED
  BY <1>1, <1>2, <1>3 DEF Init, TypeOK, Node, GraphStatus, NoResult, Verification

LEMMA TypeStep == TypeOK /\ [Next]_vars => TypeOK'
<1> SUFFICES ASSUME TypeOK, [Next]_vars PROVE TypeOK'
  OBVIOUS
<1> USE DEF TypeOK
<1>1. ASSUME ConfigInvalid \/ FinishRefused PROVE TypeOK'
  <2>1. result' \in Result
    BY <1>1, DoneType DEF ConfigInvalid, FinishRefused, Status, Verification
  <2>2. QED
    BY <1>1, <2>1 DEF ConfigInvalid, FinishRefused, Done, Node, Result
<1>2. CASE CaptureRed
  BY <1>2 DEF CaptureRed, StrictViolation, Node
<1>3. CASE StepLimit
  BY <1>3 DEF StepLimit, Node, GraphStatus
<1>4. CASE InitNode \/ GatherContext \/ GatherNothing \/ Plan \/ Escalation \/ Consolidation
  BY <1>4 DEF InitNode, GatherContext, GatherNothing, Plan, Escalation, Consolidation,
              Enter, Node, GraphStatus
<1>5. CASE Mutate
  <2>1. PICK r \in Replies : \E edits \in SUBSET File : MutateWith(r, edits)
    BY <1>5, MutateChooses
  <2>2. PICK edits \in SUBSET File : MutateWith(r, edits)
    BY <2>1
  <2>3. Captured(edits) \in [File -> Content]
    BY DEF Captured, Absent, Content, Defect
  <2>4. task.provider \in BOOLEAN
    BY DEF Task
  <2>5. ctx' \in Context
    <3> DEFINE blocked  == IF r.why \in {"denied", "needs_approval"} THEN TRUE
                           ELSE ctx.policy_blocked
               approval == IF r.why = "needs_approval" THEN TRUE
                           ELSE ctx.policy_approval_required
               provider == IF r.why = "failed" THEN FALSE ELSE task.provider
    <3>1. ctx' = [ctx EXCEPT !.pending = edits, !.checkpoint = edits,
                             !.saved = Captured(edits), !.emitted = TRUE,
                             !.policy_blocked = blocked,
                             !.policy_approval_required = approval,
                             !.provider_available = provider]
      BY <2>2 DEF MutateWith
    <3>2. blocked \in BOOLEAN /\ approval \in BOOLEAN /\ provider \in BOOLEAN
      BY <2>4 DEF Context
    <3> HIDE DEF blocked, approval, provider
    <3>3. QED BY <2>3, <3>1, <3>2 DEF Context
  <2>6. QED BY <1>5, <2>5 DEF Mutate, Enter, Node
<1>6. ASSUME NEW f \in File, NEW d \in Defect, ApplyEdit(f, d) PROVE TypeOK'
  <2>1. disk' \in [File -> Content]
    BY <1>6 DEF ApplyEdit, Content, Context
  <2>2. ctx' \in Context
    BY <1>6 DEF ApplyEdit, Context
  <2>3. QED BY <1>6, <2>1, <2>2 DEF ApplyEdit
<1>6a. CASE RecordEdit
  <2>1. ctx' \in Context
    BY <1>6a DEF RecordEdit, Context
  <2>2. QED BY <1>6a, <2>1 DEF RecordEdit
<1>7. CASE ApplyFailed \/ Interrupt
  BY <1>7, RestoredType DEF ApplyFailed, Interrupt, NoResult, Node, Status, Verification
<1>8. CASE Applied \/ Return
  BY <1>8 DEF Applied, Return, Node
<1>9. CASE LocalInspection
  <2>1. PICK tests \in TestRuns : InspectWith(tests)
    BY <1>9, InspectionChooses
  <2>2. tests \in Verification /\ Inspect(tests) \in Outcome
    BY DEF TestRuns, Verification, Inspect, Outcome
  <2>3. ctx' \in Context
    BY <2>1, <2>2 DEF Context, InspectWith
  <2>4. disk' \in [File -> Content] /\ node' \in Node /\ status' \in GraphStatus
    BY <2>1, RestoredType DEF Node, GraphStatus, InspectWith
  <2>5. QED BY <1>9, <2>3, <2>4 DEF LocalInspection, Enter
<1>10. CASE DiagnosePolicyBlocked \/ DiagnoseExhausted
  BY <1>10 DEF DiagnosePolicyBlocked, DiagnoseExhausted, Enter, Node, GraphStatus
<1>11. CASE DiagnoseFixReady
  BY <1>11 DEF DiagnoseFixReady, Enter, Node, Context
<1>12. CASE Finish
  <2>1. result' \in Result
    <3>1. PICK valid \in BOOLEAN, regression \in Regressions :
             Done(EnforceGates(TerminalStatus, valid), TestOnlySuspicious, regression)
      BY <1>12 DEF Finish
    <3>2. regression \in Verification
      BY DEF Regressions, Verification
    <3>3. QED BY <3>1, <3>2, FinalStatusType, DoneType
  <2>2. QED BY <1>12, <2>1 DEF Finish, Done, Node, Result
<1>13. CASE UNCHANGED vars
  BY <1>13 DEF vars
<1>14. QED
  BY <1>1, <1>2, <1>3, <1>4, <1>5, <1>6, <1>6a, <1>7, <1>8, <1>9, <1>10, <1>11, <1>12, <1>13
     DEF Next, Walk, Over

\* The variables of a run stay in their types: no handler produces a status,
\* a node or an exit code that the rest of the flow does not know.
THEOREM FlowTypeCorrect == Spec => []TypeOK
BY TypeInit, TypeStep, PTL DEF Spec

-----------------------------------------------------------------------------
(* The inductive invariants.                                               *)

Untouched == \A f \in File : ~Edited(f)

Walking == WalkNode \cup {"apply"}

\* The verdicts follow the node: no final result before the end, no walk
\* after a violation, and a status other than completed only past the repair
\* loop.
ControlInv ==
    /\ ~Judged => result = NoResult
    /\ node \in Walking \cup {"start", "completed"} => violation = "none"
    /\ violation = "test_only_edit" => Judged
    /\ node \in Walking \ {"escalation", "consolidation"} => status = "completed"
    /\ node = "start" => status = "completed"
    /\ node = "escalation" => status = "escalated"
    /\ node \in {"consolidation", "completed"} => status \in {"completed", "escalated"}
    /\ node = "broken_off" /\ violation = "none"
          => status \in {"needs_context", "policy_blocked", "failed"}

\* Each pass of the repair loop costs three nodes.
StepsTo(n) ==
    IF n \in {"start", "init"} THEN 0
    ELSE IF n = "gather_context" THEN 1
    ELSE IF n = "plan" THEN 2
    ELSE IF n = "mutate" THEN 3
    ELSE IF n \in {"apply", "local_inspection"} THEN 4
    ELSE IF n = "diagnose" THEN 5
    ELSE IF n = "escalation" THEN 6
    ELSE IF n = "consolidation" THEN 7
    ELSE 8

BoundInv ==
    /\ ctx.attempts <= MaxAttempts
    /\ steps <= StepsTo(node) + 3 * ctx.attempts
    /\ LimitNotReached

\* No walk of a strict run without a failing test.
RedInv ==
    /\ task.strict /\ task.mutates /\ node \in Walking => red = "failing"
    /\ node = "start" => Untouched
    /\ StrictNeedsRed

\* Where the run's bytes are: in files it has recorded, but for the edit it is
\* at, and in the last pass only while that pass can still be undone.
DiskInv ==
    /\ \A f \in File : Edited(f) => f \in ctx.changed \cup ctx.written
    /\ ctx.written # {} => node \in {"apply", "done"}
    /\ \A f \in ctx.checkpoint : ctx.saved[f].pass > 0 => f \in ctx.changed
    /\ ctx.pending \cup ctx.written \subseteq ctx.checkpoint
    /\ PassCanBeUndone
    /\ \A f \in File : disk[f].pass <= ctx.attempts + 1
    /\ node \in {"start", "init", "gather_context", "plan", "mutate"}
          => \A f \in File : disk[f].pass <= ctx.attempts
    /\ node \in {"apply", "local_inspection"}
          => /\ \A f \in ctx.checkpoint : ctx.saved[f].pass <= ctx.attempts
             /\ \A f \in File \ ctx.checkpoint : disk[f].pass <= ctx.attempts
    /\ ctx.inspection = "failed_blocking"
          => node \in {"escalation", "consolidation", "completed", "broken_off",
                       "persisted", "done"}
    /\ result.status = "apply_failed" => node = "done"
    /\ ctx.inspection = "failed_blocking" \/ result.status = "apply_failed"
          => \A f \in File : disk[f].pass <= ctx.attempts

\* Which runs have touched nothing: those that never reached mutate, and
\* those whose writes wait for an approval.
TouchInv ==
    /\ node \in {"start", "init", "gather_context", "plan"} => ctx.changed = {}
    /\ violation \in {"no_test_runner", "red_not_proven"} => ctx.changed = {}
    /\ status = "needs_context" => ctx.changed = {}
    /\ task.provider /\ ~task.approved
          => ctx.changed = {} /\ ctx.pending = {} /\ ctx.written = {}
    /\ ctx.policy_approval_required => task.provider /\ ~task.approved

\* A refusal empties the checkpoint, and mutate is never entered again.
PolicyInv ==
    ctx.policy_blocked
       => /\ ctx.pending = {}
          /\ ctx.checkpoint = {}
          /\ node \notin {"start", "init", "gather_context", "plan", "mutate"}

\* What a completed walk has seen.
Clean ==
    /\ inspected = disk
    /\ ctx.inspection = "passed"
    /\ \A f \in ctx.changed : disk[f].defect = "none"
    /\ ctx.verification # "failed"
    /\ task.mutates => ctx.changed # {}

VerdictInv ==
    /\ ctx.inspection # "failed_blocking" /\ result.status # "apply_failed"
          => \A f \in ctx.changed \cup ctx.written : Edited(f)
    /\ node \in {"consolidation", "completed"} /\ status = "completed" => Clean
    /\ CompletedIsHonest

-----------------------------------------------------------------------------
(* Control.                                                                *)

LEMMA ControlInit == Init => ControlInv
BY DEF Init, ControlInv, Walking, WalkNode, Judged

LEMMA ControlStep == TypeOK /\ ControlInv /\ [Next]_vars => ControlInv'
<1> SUFFICES ASSUME TypeOK, ControlInv, [Next]_vars PROVE ControlInv'
  OBVIOUS
<1> USE DEF ControlInv, Walking, WalkNode, Judged
<1>1. CASE ConfigInvalid \/ FinishRefused \/ Finish
  BY <1>1 DEF ConfigInvalid, FinishRefused, Finish, Done, TypeOK
<1>2. CASE CaptureRed
  BY <1>2 DEF CaptureRed, StrictViolation
<1>3. CASE StepLimit
  BY <1>3 DEF StepLimit
<1>4. CASE InitNode \/ GatherContext \/ GatherNothing \/ Plan \/ Mutate
  BY <1>4 DEF InitNode, GatherContext, GatherNothing, Plan, Mutate, Enter
<1>5. ASSUME NEW f \in File, NEW d \in Defect, ApplyEdit(f, d) PROVE ControlInv'
  BY <1>5 DEF ApplyEdit
<1>6. CASE RecordEdit \/ ApplyFailed \/ Applied \/ Return \/ Interrupt
  BY <1>6 DEF RecordEdit, ApplyFailed, Applied, Return, Interrupt, TypeOK
<1>7. CASE LocalInspection
  <2>1. PICK tests \in TestRuns : InspectWith(tests)
    BY <1>7, InspectionChooses
  <2>2. node = "local_inspection" /\ violation' = violation /\ result' = result
    BY <1>7 DEF LocalInspection, Enter
  <2>3. Inspect(tests) \in {"passed", "failed_recoverable", "failed_blocking"}
    BY DEF Inspect
  <2>4. QED BY <2>1, <2>2, <2>3 DEF InspectWith
<1>8. CASE DiagnosePolicyBlocked \/ DiagnoseExhausted \/ DiagnoseFixReady
  BY <1>8 DEF DiagnosePolicyBlocked, DiagnoseExhausted, DiagnoseFixReady, Enter
<1>9. CASE Escalation \/ Consolidation
  BY <1>9 DEF Escalation, Consolidation, Enter
<1>10. CASE UNCHANGED vars
  BY <1>10 DEF vars
<1>11. QED
  BY <1>1, <1>2, <1>3, <1>4, <1>5, <1>6, <1>7, <1>8, <1>9, <1>10 DEF Next, Walk, Over

LEMMA ControlCorrect == Spec => [](TypeOK /\ ControlInv)
BY TypeInit, TypeStep, ControlInit, ControlStep, PTL DEF Spec

-----------------------------------------------------------------------------
(* The repair loop is bounded.                                             *)

LEMMA BoundInit == Init => BoundInv
BY FlowAssumption DEF Init, BoundInv, StepsTo, LimitNotReached, FlowAssumption

LEMMA BoundStep == TypeOK /\ BoundInv /\ [Next]_vars => BoundInv'
<1> SUFFICES ASSUME TypeOK, BoundInv, [Next]_vars PROVE BoundInv'
  OBVIOUS
<1>0. /\ steps \in Nat /\ ctx.attempts \in Nat
      /\ MaxAttempts \in Nat /\ MaxSteps \in Nat
  BY FlowAssumption DEF TypeOK, Context, FlowAssumption
<1> USE <1>0 DEF BoundInv, StepsTo, LimitNotReached
<1>1. CASE ConfigInvalid \/ FinishRefused \/ Finish \/ Return \/ Interrupt \/ CaptureRed
  <2>1. /\ steps' = steps /\ ctx' = ctx /\ status' = status
        /\ node' \in {"persisted", "done"} \/ node = "start"
        /\ node' \in {"persisted", "done", "init", "broken_off"}
    BY <1>1 DEF ConfigInvalid, FinishRefused, Finish, Done, Return, Interrupt, CaptureRed
  <2>2. QED BY <2>1
<1>2. CASE StepLimit
  BY <1>2 DEF StepLimit, WalkNode
<1>3. CASE InitNode \/ GatherContext \/ GatherNothing \/ Plan
  BY <1>3 DEF InitNode, GatherContext, GatherNothing, Plan, Enter
<1>4. CASE Mutate
  <2>1. ctx'.attempts = ctx.attempts
    BY <1>4, MutateChooses DEF MutateWith, TypeOK, Context
  <2>2. QED BY <1>4, <2>1 DEF Mutate, Enter
<1>5. ASSUME NEW f \in File, NEW d \in Defect, ApplyEdit(f, d) PROVE BoundInv'
  <2>1. ctx'.attempts = ctx.attempts
    BY <1>5 DEF ApplyEdit, TypeOK, Context
  <2>2. QED BY <1>5, <2>1 DEF ApplyEdit
<1>6. CASE RecordEdit \/ ApplyFailed \/ Applied
  <2>1. ctx'.attempts = ctx.attempts
    BY <1>6 DEF RecordEdit, ApplyFailed, Applied, TypeOK, Context
  <2>2. QED BY <1>6, <2>1 DEF RecordEdit, ApplyFailed, Applied
<1>7. CASE LocalInspection
  <2>1. PICK tests \in TestRuns : InspectWith(tests)
    BY <1>7, InspectionChooses
  <2>2. ctx'.attempts = ctx.attempts
    BY <2>1 DEF InspectWith, TypeOK, Context
  <2>3. status' = "failed" => status = "failed"
    BY <2>1 DEF InspectWith
  <2>4. steps' = steps + 1 /\ node = "local_inspection"
        /\ node' \in {"consolidation", "diagnose", "escalation"}
    BY <1>7, <2>1 DEF LocalInspection, InspectWith, Enter
  <2>5. QED BY <2>2, <2>3, <2>4
<1>8. CASE DiagnosePolicyBlocked \/ DiagnoseExhausted
  BY <1>8 DEF DiagnosePolicyBlocked, DiagnoseExhausted, Enter
<1>9. CASE DiagnoseFixReady
  <2>1. ctx'.attempts = ctx.attempts + 1
    BY <1>9 DEF DiagnoseFixReady, TypeOK, Context
  <2>2. QED BY <1>9, <2>1 DEF DiagnoseFixReady, Enter
<1>10. CASE Escalation \/ Consolidation
  BY <1>10 DEF Escalation, Consolidation, Enter
<1>11. CASE UNCHANGED vars
  BY <1>11 DEF vars
<1>12. QED
  BY <1>1, <1>2, <1>3, <1>4, <1>5, <1>6, <1>7, <1>8, <1>9, <1>10, <1>11
     DEF Next, Walk, Over

LEMMA BoundCorrect == Spec => []BoundInv
BY TypeInit, TypeStep, BoundInit, BoundStep, PTL DEF Spec

\* Attempts stay within the budget, and every pass of the repair loop is paid
\* for: a run with a attempts has walked at most 3 * a + 8 nodes.
THEOREM RepairIsBounded == Spec => []RepairBounded
<1>1. TypeOK /\ BoundInv => RepairBounded
  BY FlowAssumption
     DEF TypeOK, Context, BoundInv, StepsTo, RepairBounded, FlowAssumption
<1>2. QED BY <1>1, FlowTypeCorrect, BoundCorrect, PTL

\* With the budgets the product resolves (at most three attempts) and its
\* limit of 50 nodes, the limit is never what ends a run.
THEOREM StepLimitUnreachable == Spec => []LimitNotReached
<1>1. BoundInv => LimitNotReached
  BY DEF BoundInv
<1>2. QED BY <1>1, BoundCorrect, PTL

-----------------------------------------------------------------------------
(* Strict TDD.                                                             *)

LEMMA UntouchedInit == Init => Untouched
BY DEF Init, Untouched, Edited

LEMMA RedInit == Init => RedInv
BY UntouchedInit DEF Init, RedInv, Walking, WalkNode, Untouched, StrictNeedsRed

\* Only ApplyEdit and the two rollbacks touch the workspace.
LEMMA DiskKept ==
    ASSUME [Next]_vars,
           ~LocalInspection, ~ApplyFailed,
           \A f \in File, d \in Defect : ~ApplyEdit(f, d)
    PROVE  disk' = disk
BY DEF Next, Walk, Over, vars, ConfigInvalid, FinishRefused, Finish, Interrupt, CaptureRed,
       StepLimit, InitNode, GatherContext, GatherNothing, Plan, Mutate, RecordEdit,
       Applied, Return, DiagnosePolicyBlocked, DiagnoseExhausted, DiagnoseFixReady,
       Escalation, Consolidation

\* red is captured before the walk and never again.
LEMMA RedKept ==
    ASSUME [Next]_vars, ~CaptureRed
    PROVE  red' = red /\ task' = task
BY DEF Next, Walk, Over, vars, ConfigInvalid, FinishRefused, Finish, Interrupt,
       StepLimit, InitNode, GatherContext, GatherNothing, Plan, Mutate, ApplyEdit,
       RecordEdit, ApplyFailed, Applied, Return, LocalInspection, DiagnosePolicyBlocked,
       DiagnoseExhausted, DiagnoseFixReady, Escalation, Consolidation

\* The walk is only entered through CaptureRed.
LEMMA WalkEntered ==
    ASSUME TypeOK, [Next]_vars, ~CaptureRed
    PROVE  /\ node' \in Walking => node \in Walking
           /\ node' = "start" => node = "start" /\ disk' = disk
<1> USE DEF Walking, WalkNode
<1>1. CASE ConfigInvalid \/ FinishRefused \/ Finish \/ Return \/ Interrupt
  BY <1>1 DEF ConfigInvalid, FinishRefused, Finish, Done, Return, Interrupt
<1>2. CASE StepLimit \/ InitNode \/ GatherContext \/ GatherNothing \/ Plan \/ Mutate
  BY <1>2 DEF StepLimit, InitNode, GatherContext, GatherNothing, Plan, Mutate, Enter
<1>3. ASSUME NEW f \in File, NEW d \in Defect, ApplyEdit(f, d)
      PROVE  node' \in Walking /\ node \in Walking
  BY <1>3 DEF ApplyEdit
<1>4. CASE RecordEdit \/ ApplyFailed \/ Applied \/ LocalInspection
  BY <1>4 DEF RecordEdit, ApplyFailed, Applied, LocalInspection, Enter
<1>5. CASE DiagnosePolicyBlocked \/ DiagnoseExhausted \/ DiagnoseFixReady
  BY <1>5 DEF DiagnosePolicyBlocked, DiagnoseExhausted, DiagnoseFixReady, Enter
<1>6. CASE Escalation \/ Consolidation
  BY <1>6 DEF Escalation, Consolidation, Enter
<1>7. CASE UNCHANGED vars
  BY <1>7 DEF vars
<1>8. QED
  BY <1>1, <1>2, <1>3, <1>4, <1>5, <1>6, <1>7 DEF Next, Walk, Over

\* A workspace is changed by a node of the walk.
LEMMA EditsAreWalked ==
    ASSUME [Next]_vars, disk' # disk
    PROVE  node \in Walking
<1>1. LocalInspection \/ ApplyFailed \/ \E f \in File, d \in Defect : ApplyEdit(f, d)
  BY DiskKept
<1>2. QED
  BY <1>1 DEF LocalInspection, ApplyFailed, ApplyEdit, Enter, Walking, WalkNode

LEMMA RedStep == TypeOK /\ RedInv /\ [Next]_vars => RedInv'
<1> SUFFICES ASSUME TypeOK, RedInv, [Next]_vars PROVE RedInv'
  OBVIOUS
<1>1. CASE CaptureRed
  <2>1. disk' = disk /\ task' = task /\ Untouched /\ node' # "start"
    BY <1>1 DEF CaptureRed, RedInv
  <2>2. Untouched'
    BY <2>1 DEF Untouched, Edited
  <2>3. task.strict /\ task.mutates /\ node' \in Walking => red' = "failing"
    BY <1>1 DEF CaptureRed, StrictViolation, Walking, WalkNode
  <2>4. QED BY <2>1, <2>2, <2>3 DEF RedInv, StrictNeedsRed, Untouched
<1>2. CASE ~CaptureRed
  <2>1. red' = red /\ task' = task
    BY <1>2, RedKept
  <2>2. /\ node' \in Walking => node \in Walking
        /\ node' = "start" => node = "start" /\ disk' = disk
    BY <1>2, WalkEntered
  <2>3. StrictNeedsRed'
    <3>1. CASE disk' = disk
      BY <2>1, <3>1 DEF RedInv, StrictNeedsRed, Edited
    <3>2. CASE disk' # disk
      BY <2>1, <3>2, EditsAreWalked DEF RedInv, StrictNeedsRed
    <3>3. QED BY <3>1, <3>2
  <2>4. QED BY <2>1, <2>2, <2>3 DEF RedInv, Untouched, Edited
<1>3. QED BY <1>1, <1>2

\* A strict run never changes the workspace without a failing test.
THEOREM StrictMutationNeedsRed == Spec => []StrictNeedsRed
<1>1. RedInv => StrictNeedsRed
  BY DEF RedInv
<1>2. QED
  BY <1>1, TypeInit, TypeStep, RedInit, RedStep, PTL DEF Spec

-----------------------------------------------------------------------------
(* What a refusal and a missing approval leave untouched.                  *)

\* Refused and failed replies carry no edits; nothing is proposed without an
\* approval.
LEMMA RepliesOnRefusal ==
    ASSUME TypeOK, NEW r \in Replies
    PROVE  /\ r.why \in {"denied", "needs_approval"} => r.edits = {}
           /\ r.why = "needs_approval" => task.provider /\ ~task.approved
           /\ task.provider /\ ~task.approved => r.edits = {}
BY DEF Replies, Reply, TypeOK, Task

\* The fields of the context that the mutate node leaves alone, and sets.
LEMMA MutateFields ==
    ASSUME TypeOK, NEW r, NEW edits, MutateWith(r, edits)
    PROVE  /\ ctx'.changed = ctx.changed
           /\ ctx'.attempts = ctx.attempts
           /\ ctx'.inspection = ctx.inspection
           /\ ctx'.verification = ctx.verification
           /\ ctx'.written = ctx.written
           /\ ctx'.pending = edits
           /\ ctx'.checkpoint = edits
           /\ ctx'.saved = Captured(edits)
           /\ ctx'.policy_blocked =
                 IF r.why \in {"denied", "needs_approval"} THEN TRUE ELSE ctx.policy_blocked
           /\ ctx'.policy_approval_required =
                 IF r.why = "needs_approval" THEN TRUE ELSE ctx.policy_approval_required
BY DEF MutateWith, TypeOK, Context

\* Inspection changes three fields, none of which says what was edited.
LEMMA InspectFields ==
    ASSUME TypeOK, NEW tests, InspectWith(tests)
    PROVE  /\ ctx'.changed = ctx.changed
           /\ ctx'.attempts = ctx.attempts
           /\ ctx'.inspection = Inspect(tests)
           /\ ctx'.verification = tests
           /\ ctx'.written = ctx.written
           /\ ctx'.pending = ctx.pending
           /\ ctx'.checkpoint = ctx.checkpoint
           /\ ctx'.saved = ctx.saved
           /\ ctx'.policy_blocked = ctx.policy_blocked
           /\ ctx'.policy_approval_required = ctx.policy_approval_required
BY DEF InspectWith, TypeOK, Context

LEMMA ApplyFields ==
    ASSUME TypeOK, NEW f \in File, NEW d \in Defect, ApplyEdit(f, d)
    PROVE  /\ ctx'.changed = ctx.changed
           /\ ctx'.written = {f}
           /\ ctx'.attempts = ctx.attempts
           /\ ctx'.inspection = ctx.inspection
           /\ ctx'.verification = ctx.verification
           /\ ctx'.pending = ctx.pending \ {f}
           /\ ctx'.checkpoint = ctx.checkpoint
           /\ ctx'.saved = ctx.saved
           /\ ctx'.policy_blocked = ctx.policy_blocked
           /\ ctx'.policy_approval_required = ctx.policy_approval_required
BY DEF ApplyEdit, TypeOK, Context

LEMMA RecordFields ==
    ASSUME TypeOK, RecordEdit
    PROVE  /\ ctx'.changed = ctx.changed \cup ctx.written
           /\ ctx'.written = {}
           /\ ctx'.attempts = ctx.attempts
           /\ ctx'.inspection = ctx.inspection
           /\ ctx'.verification = ctx.verification
           /\ ctx'.pending = ctx.pending
           /\ ctx'.checkpoint = ctx.checkpoint
           /\ ctx'.saved = ctx.saved
           /\ ctx'.policy_blocked = ctx.policy_blocked
           /\ ctx'.policy_approval_required = ctx.policy_approval_required
BY DEF RecordEdit, TypeOK, Context

LEMMA FixFields ==
    ASSUME TypeOK, DiagnoseFixReady
    PROVE  /\ ctx'.changed = ctx.changed
           /\ ctx'.attempts = ctx.attempts + 1
           /\ ctx'.inspection = ctx.inspection
           /\ ctx'.verification = ctx.verification
           /\ ctx'.written = ctx.written
           /\ ctx'.pending = ctx.pending
           /\ ctx'.checkpoint = ctx.checkpoint
           /\ ctx'.saved = ctx.saved
           /\ ctx'.policy_blocked = ctx.policy_blocked
           /\ ctx'.policy_approval_required = ctx.policy_approval_required
BY DEF DiagnoseFixReady, TypeOK, Context

LEMMA TouchInit == Init => TouchInv
BY DEF Init, TouchInv

LEMMA TouchStep == TypeOK /\ ControlInv /\ TouchInv /\ [Next]_vars => TouchInv'
<1> SUFFICES ASSUME TypeOK, ControlInv, TouchInv, [Next]_vars PROVE TouchInv'
  OBVIOUS
<1>1. CASE ConfigInvalid \/ FinishRefused \/ Finish \/ Return \/ Interrupt
  BY <1>1 DEF ConfigInvalid, FinishRefused, Finish, Done, Return, Interrupt, TouchInv
<1>2. CASE CaptureRed
  BY <1>2 DEF CaptureRed, TouchInv
<1>3. CASE StepLimit \/ InitNode \/ GatherContext \/ GatherNothing \/ Plan
  BY <1>3 DEF StepLimit, InitNode, GatherContext, GatherNothing, Plan, Enter, TouchInv
<1>4. CASE Mutate
  <2>1. PICK r \in Replies : \E edits \in SUBSET File : MutateWith(r, edits)
    BY <1>4, MutateChooses
  <2>2. PICK edits \in SUBSET File : MutateWith(r, edits)
    BY <2>1
  <2>3. edits \in {r.edits, {}}
    BY <2>2 DEF MutateWith
  <2>4. /\ node' = "apply" /\ task' = task /\ violation' = violation /\ status' = status
        /\ node = "mutate"
    BY <1>4 DEF Mutate, Enter
  <2>5. QED
    BY <2>2, <2>3, <2>4, MutateFields, RepliesOnRefusal DEF TouchInv
<1>5. ASSUME NEW f \in File, NEW d \in Defect, ApplyEdit(f, d) PROVE TouchInv'
  <2>1. /\ node' = node /\ task' = task /\ violation' = violation /\ status' = status
        /\ node = "apply" /\ f \in ctx.pending
    BY <1>5 DEF ApplyEdit
  <2>2. violation = "none" /\ status = "completed"
    BY <2>1 DEF ControlInv, Walking, WalkNode
  <2>3. QED BY <1>5, <2>1, <2>2, ApplyFields DEF TouchInv
<1>5a. CASE RecordEdit
  <2>1. /\ node' = node /\ task' = task /\ violation' = violation /\ status' = status
        /\ node = "apply" /\ ctx.written # {}
    BY <1>5a DEF RecordEdit
  <2>2. violation = "none" /\ status = "completed"
    BY <2>1 DEF ControlInv, Walking, WalkNode
  <2>3. QED BY <1>5a, <2>1, <2>2, RecordFields DEF TouchInv
<1>6. CASE ApplyFailed \/ Applied
  BY <1>6 DEF ApplyFailed, Applied, TouchInv
<1>7. CASE LocalInspection
  <2>1. PICK tests \in TestRuns : InspectWith(tests)
    BY <1>7, InspectionChooses
  <2>2. /\ node' \in {"consolidation", "diagnose", "escalation"}
        /\ status' = "needs_context" => status = "needs_context"
        /\ task' = task /\ violation' = violation
    BY <1>7, <2>1 DEF InspectWith, LocalInspection
  <2>3. QED BY <2>1, <2>2, InspectFields DEF TouchInv
<1>8. CASE DiagnosePolicyBlocked \/ DiagnoseExhausted
  BY <1>8 DEF DiagnosePolicyBlocked, DiagnoseExhausted, Enter, TouchInv
<1>9. CASE DiagnoseFixReady
  <2>1. /\ node' = "mutate" /\ task' = task /\ violation' = violation /\ status' = status
    BY <1>9 DEF DiagnoseFixReady
  <2>2. QED BY <1>9, <2>1, FixFields DEF TouchInv
<1>10. CASE Escalation \/ Consolidation
  BY <1>10 DEF Escalation, Consolidation, Enter, TouchInv
<1>11. CASE UNCHANGED vars
  BY <1>11 DEF vars, TouchInv
<1>12. QED
  BY <1>1, <1>2, <1>3, <1>4, <1>5, <1>5a, <1>6, <1>7, <1>8, <1>9, <1>10, <1>11
     DEF Next, Walk, Over

LEMMA PolicyInit == Init => PolicyInv
BY DEF Init, PolicyInv

LEMMA PolicyStep == TypeOK /\ PolicyInv /\ [Next]_vars => PolicyInv'
<1> SUFFICES ASSUME TypeOK, PolicyInv, [Next]_vars PROVE PolicyInv'
  OBVIOUS
<1>1. CASE \/ ConfigInvalid \/ FinishRefused \/ Finish \/ Return \/ Interrupt
           \/ CaptureRed \/ StepLimit
  BY <1>1 DEF ConfigInvalid, FinishRefused, Finish, Done, Return, Interrupt, CaptureRed,
              StepLimit, PolicyInv
<1>2. CASE InitNode \/ GatherContext \/ GatherNothing \/ Plan
  BY <1>2 DEF InitNode, GatherContext, GatherNothing, Plan, Enter, PolicyInv
<1>3. CASE Mutate
  <2>1. PICK r \in Replies : \E edits \in SUBSET File : MutateWith(r, edits)
    BY <1>3, MutateChooses
  <2>2. PICK edits \in SUBSET File : MutateWith(r, edits)
    BY <2>1
  <2>3. edits \in {r.edits, {}}
    BY <2>2 DEF MutateWith
  <2>4. node' = "apply" /\ node = "mutate"
    BY <1>3 DEF Mutate, Enter
  <2>5. ~ctx.policy_blocked
    BY <2>4 DEF PolicyInv
  <2>6. ctx'.policy_blocked => edits = {}
    BY <2>2, <2>3, <2>5, MutateFields, RepliesOnRefusal
  <2>7. ctx'.pending = edits /\ ctx'.checkpoint = edits
    BY <2>2, MutateFields
  <2>8. QED BY <2>4, <2>6, <2>7 DEF PolicyInv
<1>4. ASSUME NEW f \in File, NEW d \in Defect, ApplyEdit(f, d) PROVE PolicyInv'
  <2>1. node' = node /\ f \in ctx.pending
    BY <1>4 DEF ApplyEdit
  <2>2. QED BY <1>4, <2>1, ApplyFields DEF PolicyInv
<1>4a. CASE RecordEdit
  <2>1. node' = node
    BY <1>4a DEF RecordEdit
  <2>2. QED BY <1>4a, <2>1, RecordFields DEF PolicyInv
<1>5. CASE ApplyFailed \/ Applied
  BY <1>5 DEF ApplyFailed, Applied, PolicyInv
<1>6. CASE LocalInspection
  <2>1. PICK tests \in TestRuns : InspectWith(tests)
    BY <1>6, InspectionChooses
  <2>2. node' \in {"consolidation", "diagnose", "escalation"}
    BY <2>1 DEF InspectWith
  <2>3. QED BY <2>1, <2>2, InspectFields DEF PolicyInv
<1>7. CASE DiagnosePolicyBlocked \/ DiagnoseExhausted
  BY <1>7 DEF DiagnosePolicyBlocked, DiagnoseExhausted, Enter, PolicyInv
<1>8. CASE DiagnoseFixReady
  <2>1. ~ctx.policy_blocked
    BY <1>8 DEF DiagnoseFixReady
  <2>2. QED BY <1>8, <2>1, FixFields DEF PolicyInv
<1>9. CASE Escalation \/ Consolidation
  BY <1>9 DEF Escalation, Consolidation, Enter, PolicyInv
<1>10. CASE UNCHANGED vars
  BY <1>10 DEF vars, PolicyInv
<1>11. QED
  BY <1>1, <1>2, <1>3, <1>4, <1>4a, <1>5, <1>6, <1>7, <1>8, <1>9, <1>10
     DEF Next, Walk, Over

LEMMA PolicyCorrect == Spec => [](TypeOK /\ PolicyInv)
BY TypeInit, TypeStep, PolicyInit, PolicyStep, PTL DEF Spec

\* A policy refusal freezes the workspace for the rest of the run.
THEOREM RefusalFreezesWorkspace == Spec => PolicyBlockFreezes
<1>1. TypeOK /\ PolicyInv /\ [Next]_vars => [ctx.policy_blocked => disk' = disk]_vars
  <2> SUFFICES ASSUME TypeOK, PolicyInv, [Next]_vars, ctx.policy_blocked
               PROVE  disk' = disk
    OBVIOUS
  <2>1. ctx.pending = {} /\ ctx.checkpoint = {}
    BY DEF PolicyInv
  <2>2. CASE ApplyFailed
    BY <2>1, <2>2 DEF ApplyFailed, Restored, TypeOK
  <2>3. \A f \in File, d \in Defect : ~ApplyEdit(f, d)
    BY <2>1 DEF ApplyEdit
  <2>4. CASE LocalInspection
    BY <2>1, <2>4, InspectionChooses DEF InspectWith
  <2>5. QED BY <2>2, <2>3, <2>4, DiskKept
<1>2. QED BY <1>1, PolicyCorrect, PTL DEF Spec, PolicyBlockFreezes

-----------------------------------------------------------------------------
(* Rollback and the list of changed files.                                 *)

LEMMA DiskInit == Init => DiskInv
<1> SUFFICES ASSUME Init PROVE DiskInv
  OBVIOUS
<1>1. \A f \in File : disk[f].pass = 0
  BY DEF Init
<1>2. QED
  BY <1>1 DEF Init, DiskInv, PassCanBeUndone, Edited, NoResult

\* Restoring undoes the last pass: what was not captured is from an earlier
\* pass, and so is what was.
LEMMA RestoredPass ==
    ASSUME TypeOK, DiskInv, node \in {"apply", "local_inspection"}
    PROVE  \A f \in File : /\ Restored[f].pass \in Nat
                           /\ Restored[f].pass <= ctx.attempts
                           /\ Restored[f].pass > 0 => f \in ctx.changed
<1> SUFFICES ASSUME NEW f \in File
             PROVE  /\ Restored[f].pass \in Nat
                    /\ Restored[f].pass <= ctx.attempts
                    /\ Restored[f].pass > 0 => f \in ctx.changed
  OBVIOUS
<1>1. Restored[f] \in Content
  BY RestoredType
<1>2. CASE f \in ctx.checkpoint
  BY <1>1, <1>2 DEF Restored, DiskInv, Content
<1>3. CASE f \notin ctx.checkpoint
  BY <1>1, <1>3 DEF Restored, DiskInv, Content, Edited
<1>4. QED BY <1>2, <1>3

LEMMA DiskStep == TypeOK /\ ControlInv /\ DiskInv /\ [Next]_vars => DiskInv'
<1> SUFFICES ASSUME TypeOK, ControlInv, DiskInv, [Next]_vars PROVE DiskInv'
  OBVIOUS
<1>a. ctx.attempts \in Nat /\ \A f \in File : disk[f].pass \in Nat
  BY DEF TypeOK, Context, Content
<1>b. ~Judged => result.status = "none"
  BY DEF ControlInv, NoResult
<1>1. CASE ConfigInvalid \/ FinishRefused \/ Finish
  <2>1. /\ disk' = disk /\ ctx' = ctx /\ node' = "persisted"
        /\ node \in {"start", "completed", "broken_off"}
        /\ result'.status \in Status
    <3>1. ASSUME ConfigInvalid \/ FinishRefused
          PROVE  /\ disk' = disk /\ ctx' = ctx /\ node' = "persisted"
                 /\ node \in {"start", "completed", "broken_off"}
                 /\ result'.status \in {"needs_configuration", "tdd_violation"}
      BY <3>1, DoneFields DEF ConfigInvalid, FinishRefused
    <3>2. CASE Finish
      BY <3>2, FinalStatusType DEF Finish, Done
    <3>3. QED BY <1>1, <3>1, <3>2 DEF Status
  <2>2. result'.status # "apply_failed"
    BY <2>1 DEF Status
  <2>3. result.status # "apply_failed"
    BY <2>1 DEF DiskInv
  <2>4. QED BY <2>1, <2>2, <2>3, <1>a DEF DiskInv, PassCanBeUndone, Edited
<1>2. CASE Return \/ Interrupt
  <2>1. /\ disk' = disk /\ ctx' = ctx /\ node # "done" /\ node' = "done"
        /\ result'.status \in {result.status, "cancelled"}
    BY <1>2 DEF Return, Interrupt, TypeOK
  <2>2. result.status # "apply_failed"
    BY <2>1 DEF DiskInv
  <2>3. QED BY <2>1, <2>2, <1>a DEF DiskInv, PassCanBeUndone, Edited
<1>3. CASE CaptureRed \/ StepLimit \/ InitNode \/ GatherContext \/ GatherNothing \/ Plan
  BY <1>3 DEF CaptureRed, StepLimit, WalkNode, InitNode, GatherContext, GatherNothing, Plan,
              Enter, DiskInv, PassCanBeUndone, Edited
<1>4. CASE Mutate
  <2>1. PICK r \in Replies : \E edits \in SUBSET File : MutateWith(r, edits)
    BY <1>4, MutateChooses
  <2>2. PICK edits \in SUBSET File : MutateWith(r, edits)
    BY <2>1
  <2>3. node = "mutate" /\ node' = "apply" /\ disk' = disk /\ result' = result
    BY <1>4 DEF Mutate, Enter
  <2>4. \A f \in edits : ctx'.saved[f] = disk[f]
    <3>1. ctx'.saved = Captured(edits)
      BY <2>2, MutateFields
    <3>2. \A f \in edits : Captured(edits)[f] = disk[f]
      BY DEF Captured
    <3>3. QED BY <3>1, <3>2
  <2>5. ctx.inspection # "failed_blocking" /\ result.status # "apply_failed"
    BY <2>3, <1>b DEF DiskInv, Judged
  <2>6. /\ ctx.written = {}
        /\ \A f \in File : disk[f].pass <= ctx.attempts
        /\ \A f \in File : disk[f].pass > 0 => f \in ctx.changed
    BY <2>3 DEF DiskInv, Edited
  <2>7. /\ \A f \in edits : ctx'.saved[f].pass > 0 => f \in ctx.changed
        /\ \A f \in edits : ctx'.saved[f].pass <= ctx.attempts
    BY <2>4, <2>6
  <2>8. PassCanBeUndone'
    <3>1. \A f \in File : disk'[f].pass # ctx'.attempts + 1
      <4>1. ctx'.attempts = ctx.attempts
        BY <2>2, MutateFields
      <4>2. QED BY <2>3, <2>6, <4>1, <1>a
    <3>2. QED BY <3>1 DEF PassCanBeUndone
  <2>9. /\ ctx'.changed = ctx.changed /\ ctx'.written = {} /\ ctx'.attempts = ctx.attempts
        /\ ctx'.checkpoint = edits /\ ctx'.pending = edits
        /\ ctx'.inspection = ctx.inspection
    BY <2>2, <2>6, MutateFields
  <2>10. (\A f \in File : Edited(f) => f \in ctx.changed \cup ctx.written)'
    BY <2>3, <2>6, <2>9 DEF Edited
  <2>11. (\A f \in File \ ctx.checkpoint : disk[f].pass <= ctx.attempts)'
    BY <2>3, <2>6, <2>9
  <2>12. (\A f \in File : disk[f].pass <= ctx.attempts + 1)'
    BY <2>3, <2>6, <2>9, <1>a
  <2>13. QED
    BY <2>3, <2>5, <2>7, <2>8, <2>9, <2>10, <2>11, <2>12 DEF DiskInv
<1>5. ASSUME NEW f \in File, NEW d \in Defect, ApplyEdit(f, d) PROVE DiskInv'
  <2>1. /\ node = "apply" /\ node' = node /\ result' = result /\ f \in ctx.pending
        /\ disk' = [disk EXCEPT ![f] = [pass |-> ctx.attempts + 1, defect |-> d]]
    BY <1>5 DEF ApplyEdit
  <2>2. f \in ctx.checkpoint
    BY <2>1 DEF DiskInv
  <2>3. disk'[f].pass = ctx.attempts + 1 /\ \A g \in File \ {f} : disk'[g] = disk[g]
    BY <2>1 DEF TypeOK
  <2>4. ctx.inspection # "failed_blocking" /\ result.status # "apply_failed"
    BY <2>1, <1>b DEF DiskInv, Judged
  <2>5. ctx.written = {}
    BY <1>5 DEF ApplyEdit
  <2>6. ctx.saved[f].pass <= ctx.attempts
    BY <2>1, <2>2 DEF DiskInv
  <2>7. QED
    BY <1>5, <2>1, <2>2, <2>3, <2>4, <2>5, <2>6, <1>a, ApplyFields
       DEF DiskInv, PassCanBeUndone, Edited
<1>5a. CASE RecordEdit
  <2>1. /\ node = "apply" /\ node' = node /\ result' = result /\ disk' = disk
    BY <1>5a DEF RecordEdit
  <2>2. QED
    BY <1>5a, <2>1, <1>a, RecordFields DEF DiskInv, PassCanBeUndone, Edited
<1>6. CASE ApplyFailed
  <2>1. node = "apply" /\ node' = "done" /\ ctx' = ctx /\ disk' = Restored
    BY <1>6 DEF ApplyFailed
  <2>2. QED
    BY <2>1, <1>a, RestoredPass DEF DiskInv, PassCanBeUndone, Edited
<1>7. CASE Applied
  BY <1>7 DEF Applied, DiskInv, PassCanBeUndone, Edited
<1>8. CASE LocalInspection
  <2>1. PICK tests \in TestRuns : InspectWith(tests)
    BY <1>8, InspectionChooses
  <2>2. node = "local_inspection" /\ result' = result
    BY <1>8 DEF LocalInspection, Enter
  <2>3. result.status = "none"
    BY <2>2, <1>b DEF Judged
  <2>4. CASE Inspect(tests) = "failed_blocking" /\ ctx.checkpoint # {}
    <3>1. disk' = Restored /\ node' = "escalation"
      BY <2>1, <2>4 DEF InspectWith
    <3>2. QED
      BY <2>1, <2>2, <2>3, <3>1, <1>a, InspectFields, RestoredPass
         DEF DiskInv, PassCanBeUndone, Edited
  <2>5. CASE Inspect(tests) = "failed_blocking" /\ ctx.checkpoint = {}
    <3>1. disk' = disk /\ node' = "escalation"
      BY <2>1, <2>5 DEF InspectWith
    <3>2. \A f \in File : disk[f].pass <= ctx.attempts
      BY <2>2, <2>5 DEF DiskInv
    <3>3. QED
      BY <2>1, <2>2, <2>3, <3>1, <3>2, <1>a, InspectFields
         DEF DiskInv, PassCanBeUndone, Edited
  <2>6. CASE Inspect(tests) # "failed_blocking"
    <3>1. disk' = disk /\ node' \in {"consolidation", "diagnose", "escalation"}
      BY <2>1, <2>6 DEF InspectWith
    <3>2. QED
      BY <2>1, <2>2, <2>3, <2>6, <3>1, <1>a, InspectFields
         DEF DiskInv, PassCanBeUndone, Edited
  <2>7. QED BY <2>4, <2>5, <2>6
<1>9. CASE DiagnosePolicyBlocked \/ DiagnoseExhausted
  BY <1>9 DEF DiagnosePolicyBlocked, DiagnoseExhausted, Enter, DiskInv, PassCanBeUndone, Edited
<1>10. CASE DiagnoseFixReady
  <2>1. node = "diagnose" /\ node' = "mutate" /\ disk' = disk /\ result' = result
    BY <1>10 DEF DiagnoseFixReady, Enter
  <2>2. ctx.inspection # "failed_blocking" /\ result.status = "none"
    BY <2>1, <1>b DEF DiskInv, Judged
  <2>3. QED
    BY <1>10, <2>1, <2>2, <1>a, FixFields DEF DiskInv, PassCanBeUndone, Edited
<1>11. CASE Escalation \/ Consolidation
  BY <1>11 DEF Escalation, Consolidation, Enter, DiskInv, PassCanBeUndone, Edited
<1>12. CASE UNCHANGED vars
  BY <1>12 DEF vars, DiskInv, PassCanBeUndone, Edited
<1>13. QED
  BY <1>1, <1>2, <1>3, <1>4, <1>5, <1>5a, <1>6, <1>7, <1>8, <1>9, <1>10, <1>11, <1>12
     DEF Next, Walk, Over

LEMMA DiskCorrect == Spec => [](TypeOK /\ ControlInv /\ DiskInv)
BY TypeInit, TypeStep, ControlInit, ControlStep, DiskInit, DiskStep, PTL DEF Spec

\* A pass that was blocked or failed to apply leaves none of its bytes.
THEOREM RollbackUndoesPass == Spec => []BlockedPassUndone
<1>1. TypeOK /\ DiskInv => BlockedPassUndone
  BY DEF TypeOK, Context, Content, DiskInv, BlockedPassUndone
<1>2. QED BY <1>1, DiskCorrect, PTL

\* At every moment the bytes of the current pass are in captured files, with
\* what they held before the pass: whoever takes over can take them back.
THEOREM PassIsUndoable == Spec => []PassCanBeUndone
<1>1. DiskInv => PassCanBeUndone
  BY DEF DiskInv
<1>2. QED BY <1>1, DiskCorrect, PTL

-----------------------------------------------------------------------------
(* The final verdict.                                                      *)

\* A run is judged in one of five ways, and then only an interrupt changes
\* anything.
LEMMA Ending ==
    ASSUME TypeOK, [Next]_vars
    PROVE  /\ Judged => \/ Interrupt
                        \/ UNCHANGED <<task, status, violation, disk, ctx, result, inspected>>
           /\ ~Judged /\ Judged'
                 => ConfigInvalid \/ FinishRefused \/ Finish \/ ApplyFailed \/ Interrupt
<1> USE DEF Judged
<1>1. ASSUME NEW f \in File, NEW d \in Defect, ApplyEdit(f, d)
      PROVE  node = "apply" /\ node' = "apply"
  BY <1>1 DEF ApplyEdit
<1>2. CASE \/ CaptureRed \/ StepLimit \/ InitNode \/ GatherContext \/ GatherNothing
           \/ Plan \/ Mutate \/ RecordEdit \/ Applied
  BY <1>2 DEF CaptureRed, StepLimit, WalkNode, InitNode, GatherContext, GatherNothing,
              Plan, Mutate, RecordEdit, Applied, Enter
<1>3. CASE \/ DiagnosePolicyBlocked \/ DiagnoseExhausted \/ DiagnoseFixReady
           \/ Escalation \/ Consolidation
  BY <1>3 DEF DiagnosePolicyBlocked, DiagnoseExhausted, DiagnoseFixReady, Escalation,
              Consolidation, Enter
<1>4. CASE LocalInspection
  BY <1>4, InspectionChooses DEF LocalInspection, InspectWith, Enter
<1>5. CASE ConfigInvalid \/ FinishRefused \/ Finish \/ ApplyFailed \/ Interrupt
  BY <1>5 DEF ConfigInvalid, FinishRefused, Finish, ApplyFailed, Interrupt
<1>6. CASE Return \/ Over \/ UNCHANGED vars
  BY <1>6 DEF Return, Over, vars
<1>7. QED BY <1>1, <1>2, <1>3, <1>4, <1>5, <1>6 DEF Next, Walk

\* Exit code 0 belongs to a completed run, and a violation of any other run
\* exits with 6.
LEMMA ExitCodes ==
    ASSUME NEW s \in Status, NEW v, NEW w
    PROVE  /\ ExitCode(s, v, w) = 0 => s = "completed"
           /\ s # "completed" /\ v => ExitCode(s, v, w) = 6
BY DEF ExitCode, Canonical, BaseCode, Status

\* A run that is cut short says so, and exits with 1.
LEMMA CutShort ==
    ASSUME TypeOK, ApplyFailed \/ Interrupt
    PROVE  /\ result'.exit_code = 1
           /\ ApplyFailed => result'.status = "apply_failed"
           /\ Interrupt => result'.status = "cancelled"
<1>1. ASSUME ApplyFailed PROVE result'.exit_code = 1 /\ result'.status = "apply_failed"
  BY <1>1 DEF ApplyFailed, NoResult
<1>2. ASSUME Interrupt PROVE result'.exit_code = 1 /\ result'.status = "cancelled"
  BY <1>2 DEF Interrupt, TypeOK
<1>3. QED BY <1>1, <1>2

\* The list of changed files is taken from the context when the run is judged,
\* with no edit under way.
LEMMA ReportStep ==
    TypeOK /\ DiskInv /\ ChangesReported /\ [Next]_vars => ChangesReported'
<1> SUFFICES ASSUME TypeOK, DiskInv, ChangesReported, [Next]_vars, Judged',
                    result'.status \notin {"cancelled", "apply_failed"},
                    NEW f \in File, disk'[f].pass > 0
             PROVE  f \in result'.changed
  BY DEF ChangesReported, Edited
<1>1. ~Interrupt /\ ~ApplyFailed
  BY CutShort
<1>2. CASE Judged
  BY <1>1, <1>2, Ending DEF ChangesReported, Edited
<1>3. CASE ~Judged
  <2>1. ConfigInvalid \/ FinishRefused \/ Finish
    BY <1>1, <1>3, Ending
  <2>2. /\ disk' = disk /\ result'.changed = ctx.changed
        /\ node \in {"start", "completed", "broken_off"}
    <3>1. CASE ConfigInvalid
      BY <3>1, DoneFields DEF ConfigInvalid
    <3>2. CASE FinishRefused
      BY <3>2, DoneFields DEF FinishRefused
    <3>3. CASE Finish
      BY <3>3, DoneFields DEF Finish
    <3>4. QED BY <2>1, <3>1, <3>2, <3>3
  <2>3. QED BY <2>2 DEF DiskInv, Edited
<1>4. QED BY <1>2, <1>3

\* run.json of a run that was neither interrupted nor left by an exception
\* lists every file that holds the run's own bytes.
THEOREM ChangedFilesAreReported == Spec => []ChangesReported
<1>1. Init => ChangesReported
  BY DEF Init, ChangesReported, Judged
<1>2. QED BY <1>1, DiskCorrect, ReportStep, PTL DEF Spec

\* The exit codes of a run that never walked.
LEMMA RefusedCodes ==
    /\ ConfigInvalid => result'.exit_code = 3 /\ result'.status = "needs_configuration"
    /\ FinishRefused => result'.exit_code = 6 /\ result'.status = "tdd_violation"
<1>1. ASSUME ConfigInvalid
      PROVE  result'.exit_code = 3 /\ result'.status = "needs_configuration"
  <2>1. Done("needs_configuration", FALSE, "not_run")
    BY <1>1 DEF ConfigInvalid
  <2>2. /\ result'.status = "needs_configuration"
        /\ result'.exit_code = ExitCode("needs_configuration", FALSE, ctx.verification)
    BY <2>1, DoneFields
  <2>3. QED BY <2>2 DEF ExitCode, Canonical, BaseCode
<1>2. ASSUME FinishRefused
      PROVE  result'.exit_code = 6 /\ result'.status = "tdd_violation"
  <2>1. Done("tdd_violation", TRUE, "not_run")
    BY <1>2 DEF FinishRefused
  <2>2. /\ result'.status = "tdd_violation"
        /\ result'.exit_code = ExitCode("tdd_violation", TRUE, ctx.verification)
    BY <2>1, DoneFields
  <2>3. QED BY <2>2 DEF ExitCode, Canonical, BaseCode
<1>3. QED BY <1>1, <1>2

\* What it takes to end as completed.
LEMMA CompletedVerdict ==
    ASSUME TypeOK, ControlInv, NEW valid,
           node \in {"completed", "broken_off"}, violation = "none",
           EnforceGates(TerminalStatus, valid) = "completed"
    PROVE  /\ GatesPass(valid)
           /\ node = "completed"
           /\ status = "completed"
           /\ VerifyRequired => ctx.verification = "passed"
<1>1. TerminalStatus = "completed" /\ GatesPass(valid)
  BY DEF EnforceGates
<1>2. ResolveCompletion = "completed" /\ status \notin {"needs_context", "policy_blocked"}
  BY <1>1 DEF TerminalStatus
<1>3. /\ status = "completed"
      /\ task.mutates => (VerifyRequired => ctx.verification = "passed")
  BY <1>2 DEF ResolveCompletion, NothingProduced
<1>4. node = "completed"
  BY <1>3 DEF ControlInv
<1>5. VerifyRequired => ctx.verification = "passed"
  BY <1>1, <1>3 DEF GatesPass
<1>6. QED BY <1>1, <1>3, <1>4, <1>5

LEMMA VerdictInit == Init => VerdictInv
BY DEF Init, VerdictInv, CompletedIsHonest, Judged

\* The step that earns an exit code of 0.
LEMMA HonestStep ==
    ASSUME TypeOK, ControlInv, DiskInv, VerdictInv, [Next]_vars
    PROVE  CompletedIsHonest'
<1> SUFFICES ASSUME Judged', result'.exit_code = 0
             PROVE  /\ result'.status = "completed"
                    /\ inspected' = disk'
                    /\ \A f \in File : disk'[f].pass > 0 => disk'[f].defect = "none"
                    /\ task'.mutates => \E f \in File : disk'[f].pass > 0
                    /\ ctx'.verification # "failed"
                    /\ VerifyRequired' => ctx'.verification = "passed"
  BY DEF CompletedIsHonest, Edited
<1>0. ~ApplyFailed /\ ~Interrupt
  BY CutShort
<1>1. CASE Judged
  BY <1>0, <1>1, Ending DEF VerdictInv, CompletedIsHonest, Edited, VerifyRequired
<1>2. CASE ~Judged
  <2>2. ~ConfigInvalid /\ ~FinishRefused
    BY RefusedCodes
  <2>4. Finish
    BY <1>0, <1>2, <2>2, Ending
  <2>5. PICK valid \in BOOLEAN, regression \in Regressions :
           Done(EnforceGates(TerminalStatus, valid), TestOnlySuspicious, regression)
    BY <2>4 DEF Finish
  <2>6. EnforceGates(TerminalStatus, valid) = "completed" /\ result'.status = "completed"
    BY <2>5, DoneFields, ExitCodes, FinalStatusType
  <2>7. node \in {"completed", "broken_off"} /\ violation = "none"
        /\ task' = task /\ disk' = disk /\ ctx' = ctx /\ inspected' = inspected
    BY <2>4 DEF Finish
  <2>8. node = "completed" /\ status = "completed"
        /\ (VerifyRequired => ctx.verification = "passed")
    BY <2>6, <2>7, CompletedVerdict
  <2>9. Clean
    BY <2>8 DEF VerdictInv
  <2>10. result.status = "none"
    BY <1>2 DEF ControlInv, NoResult
  <2>11. \A f \in ctx.changed : disk[f].pass > 0
    BY <2>9, <2>10 DEF VerdictInv, Clean, Edited
  <2>12. \A f \in File : disk[f].pass > 0 => f \in ctx.changed
    BY <2>8 DEF DiskInv, Edited
  <2>13. ctx.changed \subseteq File
    BY DEF TypeOK, Context
  <2>14. VerifyRequired' = VerifyRequired
    BY <2>7 DEF VerifyRequired
  <2>15. QED
    BY <2>6, <2>7, <2>8, <2>9, <2>11, <2>12, <2>13, <2>14 DEF Clean
<1>3. QED BY <1>1, <1>2

LEMMA VerdictStep == TypeOK /\ ControlInv /\ DiskInv /\ VerdictInv /\ [Next]_vars => VerdictInv'
<1> SUFFICES ASSUME TypeOK, ControlInv, DiskInv, VerdictInv, [Next]_vars PROVE VerdictInv'
  OBVIOUS
<1> DEFINE Kept == ctx.inspection # "failed_blocking" /\ result.status # "apply_failed"
                      => \A f \in ctx.changed \cup ctx.written : Edited(f)
           Seen == node \in {"consolidation", "completed"} /\ status = "completed" => Clean
<1>0. CompletedIsHonest'
  BY HonestStep
<1>1. ctx.attempts \in Nat /\ ctx.changed \subseteq File
  BY DEF TypeOK, Context
<1>2. ~Judged => result.status = "none"
  BY DEF ControlInv, NoResult
<1>3. Kept /\ Seen
  BY DEF VerdictInv
<1>4. ASSUME disk' = disk, ctx' = ctx, inspected' = inspected, task' = task,
             ~Judged \/ result'.status \in {result.status, "cancelled"},
             result.status # "apply_failed" \/ result' = result,
             node' \in {"consolidation", "completed"} /\ status' = "completed"
                => node \in {"consolidation", "completed"} /\ status = "completed"
      PROVE  Kept' /\ Seen'
  <2>1. ctx.inspection # "failed_blocking" /\ result'.status # "apply_failed"
           => \A f \in ctx.changed \cup ctx.written : Edited(f)
    BY <1>2, <1>3, <1>4
  <2>2. QED BY <1>3, <1>4, <2>1 DEF Edited, Clean
<1>5. CASE ConfigInvalid \/ FinishRefused \/ Finish \/ CaptureRed
  <2>1. disk' = disk /\ ctx' = ctx /\ inspected' = inspected /\ task' = task
        /\ ~Judged /\ node' \notin {"consolidation", "completed"}
    BY <1>5 DEF ConfigInvalid, FinishRefused, Finish, Done, CaptureRed, Judged
  <2>2. QED BY <1>0, <1>2, <1>4, <2>1 DEF VerdictInv
<1>5a. CASE Return \/ Interrupt
  <2>1. disk' = disk /\ ctx' = ctx /\ inspected' = inspected /\ task' = task
        /\ node # "done" /\ node' \notin {"consolidation", "completed"}
        /\ result'.status \in {result.status, "cancelled"}
    BY <1>5a DEF Return, Interrupt, TypeOK
  <2>2. result.status # "apply_failed"
    BY <2>1 DEF DiskInv
  <2>3. QED BY <1>0, <1>4, <2>1, <2>2 DEF VerdictInv
<1>6. CASE StepLimit \/ InitNode \/ GatherContext \/ GatherNothing \/ Plan \/ Applied
  <2>1. disk' = disk /\ ctx' = ctx /\ inspected' = inspected /\ task' = task
        /\ result' = result /\ node' \notin {"consolidation", "completed"}
    BY <1>6 DEF StepLimit, WalkNode, InitNode, GatherContext, GatherNothing, Plan,
                Applied, Enter
  <2>2. QED BY <1>0, <1>4, <2>1 DEF VerdictInv
<1>7. CASE \/ DiagnosePolicyBlocked \/ DiagnoseExhausted \/ Escalation \/ Consolidation
           \/ UNCHANGED vars
  <2>1. disk' = disk /\ ctx' = ctx /\ inspected' = inspected /\ task' = task
        /\ result' = result
        /\ (node' \in {"consolidation", "completed"} /\ status' = "completed"
              => node \in {"consolidation", "completed"} /\ status = "completed")
    BY <1>7 DEF DiagnosePolicyBlocked, DiagnoseExhausted, Escalation, Consolidation,
                Enter, vars, ControlInv
  <2>2. QED BY <1>0, <1>4, <2>1 DEF VerdictInv
<1>8. CASE Mutate
  <2>1. PICK r \in Replies : \E edits \in SUBSET File : MutateWith(r, edits)
    BY <1>8, MutateChooses
  <2>2. PICK edits \in SUBSET File : MutateWith(r, edits)
    BY <2>1
  <2>3. node' = "apply" /\ disk' = disk /\ result' = result
    BY <1>8 DEF Mutate
  <2>4. QED BY <1>0, <1>3, <2>2, <2>3, MutateFields DEF VerdictInv, Edited
<1>9. ASSUME NEW f \in File, NEW d \in Defect, ApplyEdit(f, d) PROVE VerdictInv'
  <2>1. /\ node' = "apply" /\ result' = result
        /\ disk' = [disk EXCEPT ![f] = [pass |-> ctx.attempts + 1, defect |-> d]]
    BY <1>9 DEF ApplyEdit
  <2>2. disk'[f].pass = ctx.attempts + 1 /\ \A g \in File \ {f} : disk'[g] = disk[g]
    BY <2>1 DEF TypeOK
  <2>3. QED BY <1>0, <1>1, <1>3, <1>9, <2>1, <2>2, ApplyFields DEF VerdictInv, Edited
<1>9a. CASE RecordEdit
  <2>1. node' = "apply" /\ disk' = disk /\ result' = result
    BY <1>9a DEF RecordEdit
  <2>2. QED BY <1>0, <1>3, <1>9a, <2>1, RecordFields DEF VerdictInv, Edited
<1>10. CASE ApplyFailed
  BY <1>0, <1>10 DEF ApplyFailed, VerdictInv, NoResult
<1>11. CASE LocalInspection
  <2>1. PICK tests \in TestRuns : InspectWith(tests)
    BY <1>11, InspectionChooses
  <2>2. /\ node = "local_inspection" /\ result' = result /\ task' = task
        /\ inspected' = disk
    BY <1>11 DEF LocalInspection, Enter
  <2>3. CASE Inspect(tests) = "passed"
    <3>1. disk' = disk
      BY <2>1, <2>3 DEF InspectWith
    <3>2. /\ task.mutates => ctx.changed # {}
          /\ tests # "failed"
          /\ \A f \in ctx.changed : disk[f].defect \notin {"secret", "syntax"}
      BY <2>3 DEF Inspect
    <3>3. \A f \in ctx.changed : disk[f].defect = "none"
      BY <1>1, <3>2 DEF TypeOK, Content, Defect
    <3>4. Clean'
      BY <2>1, <2>2, <2>3, <3>1, <3>2, <3>3, InspectFields DEF Clean
    <3>5. ctx.inspection # "failed_blocking" /\ result.status # "apply_failed"
      BY <2>2, <1>2 DEF DiskInv, Judged
    <3>6. QED BY <1>0, <1>3, <2>1, <3>1, <3>4, <3>5, InspectFields DEF VerdictInv, Edited
  <2>4. CASE Inspect(tests) = "failed_recoverable"
    <3>1. disk' = disk /\ node' = "diagnose"
      BY <2>1, <2>4 DEF InspectWith
    <3>2. ctx.inspection # "failed_blocking" /\ result.status # "apply_failed"
      BY <2>2, <1>2 DEF DiskInv, Judged
    <3>3. QED BY <1>0, <1>3, <2>1, <3>1, <3>2, InspectFields DEF VerdictInv, Edited
  <2>5. CASE Inspect(tests) = "failed_blocking"
    <3>1. node' = "escalation" /\ ctx'.inspection = "failed_blocking"
      BY <2>1, <2>5, InspectFields DEF InspectWith
    <3>2. QED BY <1>0, <3>1 DEF VerdictInv
  <2>6. QED BY <2>3, <2>4, <2>5 DEF Inspect
<1>12. CASE DiagnoseFixReady
  <2>1. node' = "mutate" /\ disk' = disk /\ result' = result
    BY <1>12 DEF DiagnoseFixReady
  <2>2. QED BY <1>0, <1>3, <1>12, <2>1, FixFields DEF VerdictInv, Edited
<1>13. QED
  BY <1>5, <1>5a, <1>6, <1>7, <1>8, <1>9, <1>9a, <1>10, <1>11, <1>12 DEF Next, Walk, Over

LEMMA VerdictCorrect == Spec => []VerdictInv
BY TypeInit, TypeStep, ControlInit, ControlStep, DiskInit, DiskStep,
   VerdictInit, VerdictStep, PTL DEF Spec

\* An exit code of 0 is earned by the workspace the run leaves behind.
THEOREM ZeroExitIsHonest == Spec => []CompletedIsHonest
<1>1. VerdictInv => CompletedIsHonest
  BY DEF VerdictInv
<1>2. QED BY <1>1, VerdictCorrect, PTL

-----------------------------------------------------------------------------
(* Exit code 6, and the verdicts that ask to be run again.                 *)

\* A suspicious test-only edit fails its gate, whatever else passed.
LEMMA SuspiciousBlocks ==
    ASSUME TestOnlySuspicious, NEW valid
    PROVE  EnforceGates(TerminalStatus, valid) # "completed"
BY DEF EnforceGates, GatesPass

\* A violation is only ever found by CaptureRed and by Finish.
LEMMA ViolationKept ==
    ASSUME [Next]_vars, ~CaptureRed, ~Finish
    PROVE  violation' = violation
BY DEF Next, Walk, Over, vars, ConfigInvalid, FinishRefused, Interrupt, StepLimit,
       InitNode, GatherContext, GatherNothing, Plan, Mutate, ApplyEdit, RecordEdit,
       ApplyFailed, Applied, Return, LocalInspection, DiagnosePolicyBlocked,
       DiagnoseExhausted, DiagnoseFixReady, Escalation, Consolidation

LEMMA ViolationStep ==
    TypeOK /\ ControlInv /\ ViolationExits6 /\ [Next]_vars => ViolationExits6'
<1> SUFFICES ASSUME TypeOK, ControlInv, ViolationExits6, [Next]_vars,
                    Judged', violation' # "none"
             PROVE  result'.exit_code = 6 \/ result'.status = "cancelled"
  BY DEF ViolationExits6
<1>1. CASE Judged
  BY <1>1, Ending, CutShort DEF ViolationExits6
<1>2. CASE ~Judged
  <2>1. CASE Finish
    <3>1. violation = "none" /\ TestOnlySuspicious
      BY <2>1 DEF Finish
    <3>2. PICK valid \in BOOLEAN, regression \in Regressions :
             Done(EnforceGates(TerminalStatus, valid), TestOnlySuspicious, regression)
      BY <2>1 DEF Finish
    <3> DEFINE s == EnforceGates(TerminalStatus, valid)
    <3>3. s \in Status /\ s # "completed"
      BY <3>1, FinalStatusType, SuspiciousBlocks
    <3>4. result'.exit_code = ExitCode(s, TestOnlySuspicious, ctx.verification)
      BY <3>2, DoneFields
    <3>5. ExitCode(s, TestOnlySuspicious, ctx.verification) = 6
      <4> HIDE DEF s
      <4>1. QED BY <3>1, <3>3, ExitCodes
    <3>6. QED BY <3>4, <3>5
  <2>2. CASE FinishRefused
    BY <2>2, RefusedCodes
  <2>3. CASE Interrupt
    BY <2>3, CutShort
  <2>4. CASE ConfigInvalid \/ ApplyFailed
    <3>1. node \in {"start", "apply"} /\ violation' = violation
      BY <2>4 DEF ConfigInvalid, ApplyFailed
    <3>2. QED BY <3>1 DEF ControlInv, Walking, WalkNode
  <2>5. QED BY <1>2, <2>1, <2>2, <2>3, <2>4, Ending
<1>3. QED BY <1>1, <1>2

\* A strict-TDD violation exits with 6 unless the run was interrupted.
THEOREM StrictViolationExits6 == Spec => []ViolationExits6
<1>1. Init => ViolationExits6
  BY DEF Init, ViolationExits6, Judged
<1>2. QED
  BY <1>1, TypeInit, TypeStep, ControlInit, ControlStep, ViolationStep, PTL DEF Spec

\* The verdicts of Finish that ask for something else come from a run without
\* edits.
LEMMA NeedsVerdict ==
    ASSUME TypeOK, TouchInv, NEW valid,
           NEW s, s = EnforceGates(TerminalStatus, valid)
    PROVE  /\ s \in {"needs_executor", "needs_provider", "needs_context"}
                 => ctx.changed = {}
           /\ s \notin {"needs_configuration", "tdd_violation"}
<1>1. s = "blocked" \/ s = TerminalStatus
  BY DEF EnforceGates
<1>2. s = "blocked" \/ s = "policy_blocked" \/ s = ResolveCompletion
         \/ (s = "needs_context" /\ status = "needs_context")
  BY <1>1 DEF TerminalStatus
<1>3. CASE s = "needs_context" /\ status = "needs_context"
  BY <1>3 DEF TouchInv
<1>4. CASE s = ResolveCompletion
  <2>1. \/ s \in {"blocked", "needs_verification", "completed", "escalated"}
        \/ s = status
        \/ ctx.changed = {} /\ s \in {"needs_executor", "needs_provider"}
    BY <1>4 DEF ResolveCompletion, NothingProduced
  <2>2. QED BY <2>1 DEF TypeOK, GraphStatus, TouchInv
<1>5. QED BY <1>2, <1>3, <1>4

LEMMA NeedsStep ==
    TypeOK /\ ControlInv /\ DiskInv /\ TouchInv /\ NeedsLeaveNoTrace /\ [Next]_vars
       => NeedsLeaveNoTrace'
<1> SUFFICES ASSUME TypeOK, ControlInv, DiskInv, TouchInv, NeedsLeaveNoTrace, [Next]_vars,
                    Judged',
                    \/ result'.status \in {"needs_executor", "needs_provider",
                           "needs_context", "needs_configuration", "tdd_violation"}
                    \/ result'.status = "policy_blocked" /\ ctx'.policy_approval_required
             PROVE  \A f \in File : ~(disk'[f].pass > 0)
  BY DEF NeedsLeaveNoTrace, Edited
<1>0. ~ApplyFailed /\ ~Interrupt
  BY CutShort
<1>1. CASE Judged
  BY <1>0, <1>1, Ending DEF NeedsLeaveNoTrace, Edited
<1>2. CASE ~Judged
  <2>2. CASE ConfigInvalid
    BY <2>2 DEF ConfigInvalid, TouchInv, DiskInv, Edited
  <2>3. CASE FinishRefused
    <3>1. /\ violation # "none" /\ violation # "test_only_edit" /\ disk' = disk
          /\ node = "broken_off"
      BY <1>2, <2>3 DEF FinishRefused, ControlInv
    <3>2. ctx.changed = {}
      BY <3>1 DEF TypeOK, TouchInv
    <3>3. QED BY <3>1, <3>2 DEF DiskInv, Edited
  <2>4. CASE Finish
    <3>1. PICK valid \in BOOLEAN, regression \in Regressions :
             Done(EnforceGates(TerminalStatus, valid), TestOnlySuspicious, regression)
      BY <2>4 DEF Finish
    <3>2. result'.status = EnforceGates(TerminalStatus, valid)
      BY <3>1, DoneFields
    <3>3. disk' = disk /\ ctx' = ctx /\ node \in {"completed", "broken_off"}
      BY <2>4 DEF Finish
    <3>4. ctx.changed = {}
      BY <3>2, <3>3, NeedsVerdict DEF TouchInv
    <3>5. QED BY <3>3, <3>4 DEF DiskInv, Edited
  <2>5. QED BY <1>0, <1>2, <2>2, <2>3, <2>4, Ending
<1>3. QED BY <1>1, <1>2

\* "Supply an executor, a provider, context, configuration, an approval or a
\* failing test and run again" is said of an untouched workspace only.
THEOREM AskingLeavesNoTrace == Spec => []NeedsLeaveNoTrace
<1>1. Init => NeedsLeaveNoTrace
  BY DEF Init, NeedsLeaveNoTrace, Judged
<1>2. QED
  BY <1>1, TypeInit, TypeStep, ControlInit, ControlStep, DiskInit, DiskStep,
     TouchInit, TouchStep, NeedsStep, PTL DEF Spec
=============================================================================
