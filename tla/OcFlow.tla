------------------------------- MODULE OcFlow -------------------------------
(***************************************************************************)
(* One governed run of OC Flow (oc_flow/runner.py, nodes.py,               *)
(* completion.py, inspection.py, run_bundle.py, tdd/red_green.py): the     *)
(* walk over the nodes of workflows/builtins/oc_flow.yaml, the edits it    *)
(* makes to the workspace behind checkpoints, the bounded repair loop, and *)
(* the honest final status with its exit code.                             *)
(*                                                                         *)
(* A file is its content: the mutate pass that wrote it (0: as it was      *)
(* before the run) and what local inspection would find in it.  Tests are  *)
(* external commands and may answer differently each time they run.        *)
(***************************************************************************)
EXTENDS Naturals, FiniteSets

CONSTANTS File,        \* paths of the workspace that an edit may name
          TestFile,    \* those is_test_path recognises
          MaxAttempts, \* resolve_max_attempts(profile, lane)
          Strategies,  \* fix strategies the executors know
          MaxSteps     \* _MAX_STEPS

ASSUME FlowAssumption ==
    /\ TestFile \subseteq File
    /\ MaxAttempts \in Nat \ {0}
    /\ Strategies \in Nat
    /\ MaxSteps \in Nat

VARIABLES task,      \* the inputs of the run, fixed
          node,      \* where the run is
          steps,     \* nodes entered so far
          status,    \* the graph's verdict so far
          red,       \* the test run captured before any mutation
          violation, \* TddEvidence.violation
          disk,      \* the workspace
          ctx,       \* OCFlowContext
          result,    \* what the run has reported, in run.json if it got there:
                     \* status, exit code, regression run, changed files
          inspected  \* history: the workspace when inspection last looked

vars == <<task, node, steps, status, red, violation, disk, ctx, result, inspected>>

-----------------------------------------------------------------------------

\* What the run is asked for and what it finds: the wording of the task
\* (mutation_required, verification_required, functional_change_expected),
\* tdd_mode = strict, a provider-backed executor, writes approved beforehand
\* by the configuration, and the test command.
Task == {t \in [mutates: BOOLEAN, verifies: BOOLEAN, functional: BOOLEAN,
                strict: BOOLEAN, provider: BOOLEAN, approved: BOOLEAN,
                runner: {"none", "broken", "works"}] :
            /\ t.functional => t.mutates
            /\ t.approved => t.provider}

Node == {"start", "init", "gather_context", "plan", "mutate", "apply",
         "local_inspection", "diagnose", "escalation", "consolidation",
         "completed", "broken_off", "persisted", "done"}

Defect == {"none", "syntax", "secret"}
Content == [pass: Nat, defect: Defect]
Absent == [pass |-> 0, defect |-> "none"]

GraphStatus == {"completed", "escalated", "failed", "needs_context", "policy_blocked"}

Status == {"completed", "blocked", "needs_executor", "needs_provider", "needs_verification",
           "escalated", "needs_context", "policy_blocked", "tdd_violation",
           "needs_configuration", "cancelled"}

Outcome == {"not_run", "passed", "failed_recoverable", "failed_blocking"}

Verification == {"not_run", "passed", "failed"}

Context == [changed: SUBSET File,          \* changed_files
            pending: SUBSET File,          \* edits of this pass still to apply
            written: SUBSET File,          \* the edit applied and not yet recorded
            checkpoint: SUBSET File,       \* files the current checkpoint captured
            saved: [File -> Content],      \* their bytes
            emitted: BOOLEAN,              \* the requested edits were handed out
            inspection: Outcome,
            verification: Verification,
            attempts: Nat,                 \* diagnosis attempts recorded
            policy_blocked: BOOLEAN,
            policy_approval_required: BOOLEAN,
            provider_available: BOOLEAN,
            restored_files: SUBSET File]   \* as rollback-report.json lists them

NoResult == [status |-> "none", exit_code |-> 0, regression |-> "not_run", changed |-> {}]

TypeOK ==
    /\ task \in Task
    /\ node \in Node
    /\ steps \in Nat
    /\ status \in GraphStatus
    /\ red \in {"none", "failing", "passing", "environment"}
    /\ violation \in {"none", "no_test_runner", "red_not_proven", "test_only_edit"}
    /\ disk \in [File -> Content]
    /\ ctx \in Context
    /\ result \in [status: Status \cup {"none", "apply_failed"},
                   exit_code: {0, 1, 3, 4, 5, 6, 8}, regression: Verification,
                   changed: SUBSET File]
    /\ inspected \in [File -> Content]

Init ==
    /\ task \in Task
    /\ node = "start"
    /\ steps = 0
    /\ status = "completed"
    /\ red = "none"
    /\ violation = "none"
    /\ \E dirty \in SUBSET File :
          disk = [f \in File |-> [pass |-> 0,
                                  defect |-> IF f \in dirty THEN "secret" ELSE "none"]]
    /\ ctx = [changed |-> {}, pending |-> {}, written |-> {}, checkpoint |-> {},
              saved |-> [f \in File |-> Absent], emitted |-> FALSE,
              inspection |-> "not_run", verification |-> "not_run", attempts |-> 0,
              policy_blocked |-> FALSE, policy_approval_required |-> FALSE,
              provider_available |-> task.provider, restored_files |-> {}]
    /\ result = NoResult
    /\ inspected = disk

VerifyRequired == task.verifies \/ (task.strict /\ task.mutates)

-----------------------------------------------------------------------------
(* The final status and the exit code.                                     *)

\* to_canonical
Canonical(s) ==
    IF s = "completed" THEN "passed"
    ELSE IF s \in {"escalated", "needs_verification"} THEN "failed"
    ELSE IF s = "tdd_violation" THEN "blocked"
    ELSE IF s = "needs_provider" THEN "needs_executor"
    ELSE IF s = "policy_blocked" THEN "needs_approval"
    ELSE s

BaseCode(c) == IF c = "needs_configuration" THEN 3
               ELSE IF c = "needs_approval" THEN 4
               ELSE IF c = "needs_executor" THEN 5
               ELSE 1

\* exit_code_for_run: a violation, then a failed verification, are more
\* specific than the code of a canonical state.
ExitCode(s, violated, verification) ==
    IF Canonical(s) = "passed" THEN 0
    ELSE IF violated THEN 6
    ELSE IF Canonical(s) = "failed" /\ verification = "failed" THEN 8
    ELSE BaseCode(Canonical(s))

\* _persist writes run.json with the final status.
Done(s, violated, regression) ==
    /\ node' = "persisted"
    /\ result' = [status |-> s, regression |-> regression, changed |-> ctx.changed,
                  exit_code |-> ExitCode(s, violated, ctx.verification)]

\* A mutation task for which no edit was produced.
NothingProduced ==
    IF ~task.provider THEN "needs_executor"
    ELSE IF ~ctx.provider_available THEN "needs_provider" ELSE "blocked"

\* Mutant: only the last pass is asked whether it edited anything.
ResolveLastPass ==
    IF ~task.mutates THEN IF status = "failed" THEN "blocked" ELSE status
    ELSE IF ctx.checkpoint = {} THEN NothingProduced
    ELSE IF status = "completed" /\ ctx.inspection = "passed"
    THEN IF VerifyRequired /\ ctx.verification # "passed"
         THEN "needs_verification" ELSE "completed"
    ELSE IF status = "escalated" THEN "escalated" ELSE "blocked"

\* resolve_completion: the graph's verdict against what the run produced.
ResolveCompletion ==
    IF ~task.mutates THEN IF status = "failed" THEN "blocked" ELSE status
    ELSE IF ctx.changed = {} THEN NothingProduced
    ELSE IF status = "completed" /\ ctx.inspection = "passed"
    THEN IF VerifyRequired /\ ctx.verification # "passed"
         THEN "needs_verification" ELSE "completed"
    ELSE IF status = "escalated" THEN "escalated" ELSE "blocked"

\* The terminal states of the walk itself pass through; a write that waits
\* for approval is reported as such unless the run completed all the same.
TerminalStatus ==
    IF status \in {"needs_context", "policy_blocked"} THEN status
    ELSE IF ctx.policy_approval_required /\ ResolveCompletion # "completed"
         THEN "policy_blocked" ELSE ResolveCompletion

TestOnlySuspicious ==
    /\ task.strict
    /\ task.functional
    /\ ctx.changed # {}
    /\ ctx.changed \subseteq TestFile

\* Mutant: the functional-change gate is missing from the catalog.
GatesPassTestOnly(valid) ==
    /\ valid
    /\ task.strict /\ task.mutates => red = "failing"
    /\ task.mutates => ctx.changed # {}
    /\ VerifyRequired => ctx.verification # "not_run"
    /\ ctx.verification # "not_run" => ctx.verification = "passed"

\* evaluate_oc_flow_gates and enforce_gates, for a status that claims success;
\* valid stands for workspace_valid and config_valid, read at the end.
GatesPass(valid) ==
    /\ valid
    /\ task.strict /\ task.mutates => red = "failing"
    /\ ~TestOnlySuspicious
    /\ task.mutates => ctx.changed # {}
    /\ VerifyRequired => ctx.verification # "not_run"
    /\ ctx.verification # "not_run" => ctx.verification = "passed"

EnforceGates(s, valid) == IF s = "completed" /\ ~GatesPass(valid) THEN "blocked" ELSE s

-----------------------------------------------------------------------------
(* Before the walk.                                                        *)

\* An existing configuration that does not load ends the run at once.
ConfigInvalid ==
    /\ node = "start"
    /\ Done("needs_configuration", FALSE, "not_run")
    /\ UNCHANGED <<task, steps, status, red, violation, disk, ctx, inspected>>

\* Mutant: an environment error counts as RED.
StrictViolationSpurious(r) ==
    IF ~(task.strict /\ task.mutates) THEN "none"
    ELSE IF task.runner # "works" THEN "no_test_runner"
    ELSE IF r = "passing" THEN "red_not_proven"
    ELSE "none"

\* evaluate_strict
StrictViolation(r) ==
    IF ~(task.strict /\ task.mutates) THEN "none"
    ELSE IF task.runner # "works" \/ r = "environment" THEN "no_test_runner"
    ELSE IF r = "passing" THEN "red_not_proven"
    ELSE "none"

\* The tests run before any mutation; a strict violation keeps the graph
\* from walking at all.
CaptureRed ==
    /\ node = "start"
    /\ red' \in IF task.mutates /\ task.runner = "works"
               THEN {"failing", "passing", "environment"} ELSE {"none"}
    /\ violation' = StrictViolation(red')
    /\ node' = IF violation' = "none" THEN "init" ELSE "broken_off"
    /\ UNCHANGED <<task, steps, status, disk, ctx, result, inspected>>

-----------------------------------------------------------------------------
(* The walk.  Each node costs one step of the step limit.                  *)

Enter(n) ==
    /\ node = n
    /\ steps < MaxSteps
    /\ steps' = steps + 1

WalkNode == {"init", "gather_context", "plan", "mutate", "local_inspection",
             "diagnose", "escalation", "consolidation"}

\* Mutant: running out of steps just ends the walk.
StepLimitAsEnd ==
    /\ node \in WalkNode
    /\ steps = MaxSteps
    /\ node' = "broken_off"
    /\ UNCHANGED <<task, steps, status, red, violation, disk, ctx, result, inspected>>

StepLimit ==
    /\ node \in WalkNode
    /\ steps = MaxSteps
    /\ status' = "failed"
    /\ node' = "broken_off"
    /\ UNCHANGED <<task, steps, red, violation, disk, ctx, result, inspected>>

InitNode ==
    /\ Enter("init")
    /\ node' = "gather_context"
    /\ UNCHANGED <<task, status, red, violation, disk, ctx, result, inspected>>

GatherContext ==
    /\ Enter("gather_context")
    /\ node' = "plan"
    /\ UNCHANGED <<task, status, red, violation, disk, ctx, result, inspected>>

\* An envelope without items: gathering again cannot help.
GatherNothing ==
    /\ Enter("gather_context")
    /\ status' = "needs_context"
    /\ node' = "broken_off"
    /\ UNCHANGED <<task, red, violation, disk, ctx, result, inspected>>

Plan ==
    /\ Enter("plan")
    /\ node' = "mutate"
    /\ UNCHANGED <<task, status, red, violation, disk, ctx, result, inspected>>

\* What executor.mutate may answer.  The deterministic executor hands out the
\* caller's edits once, unchecked.  A provider answers with edits, or with
\* none because it proposed none or failed, or because the policy refused one
\* of them: a path outside the allowlist, or any write while unapproved.
Reply(edits, why) == [edits |-> edits, why |-> why]
Replies ==
    IF task.provider
    THEN {Reply(e, "proposed") : e \in IF task.approved THEN SUBSET File ELSE {{}}}
         \cup {Reply({}, w) : w \in {"failed", "denied"}
                                   \cup (IF task.approved THEN {} ELSE {"needs_approval"})}
    ELSE {Reply(e, "proposed") : e \in IF ctx.emitted THEN {{}} ELSE SUBSET File}

\* RED-first in a strict run: the edits are dropped when the test is green.
\* Only a task that needs no mutation has no RED run to reuse.
MayDrop(edits) ==
    edits # {} /\ task.strict /\ task.runner = "works" /\ ~task.mutates

\* CheckpointStore.create
Captured(edits) == [f \in File |-> IF f \in edits THEN disk[f] ELSE Absent]

\* Mutant: a repair pass goes on with the checkpoint of the first pass.
MutateCapturingOnce ==
    /\ Enter("mutate")
    /\ \E r \in Replies : \E edits \in {r.edits} \cup (IF MayDrop(r.edits) THEN {{}} ELSE {}) :
          ctx' = [ctx EXCEPT
              !.pending = edits,
              !.checkpoint = IF ctx.emitted THEN @ ELSE edits,
              !.saved = IF ctx.emitted THEN @ ELSE Captured(edits),
              !.emitted = TRUE,
              !.policy_blocked = IF r.why \in {"denied", "needs_approval"} THEN TRUE ELSE @,
              !.policy_approval_required = IF r.why = "needs_approval" THEN TRUE ELSE @,
              !.provider_available = IF r.why = "failed" THEN FALSE ELSE task.provider]
    /\ node' = "apply"
    /\ UNCHANGED <<task, status, red, violation, disk, result, inspected>>

\* The edits are proposed and checked, and the files they name are captured.
Mutate ==
    /\ Enter("mutate")
    /\ \E r \in Replies : \E edits \in {r.edits} \cup (IF MayDrop(r.edits) THEN {{}} ELSE {}) :
          ctx' = [ctx EXCEPT
              !.pending = edits,
              !.checkpoint = edits,
              !.saved = Captured(edits),
              !.emitted = TRUE,
              !.policy_blocked = IF r.why \in {"denied", "needs_approval"} THEN TRUE ELSE @,
              !.policy_approval_required = IF r.why = "needs_approval" THEN TRUE ELSE @,
              !.provider_available = IF r.why = "failed" THEN FALSE ELSE task.provider]
    /\ node' = "apply"
    /\ UNCHANGED <<task, status, red, violation, disk, result, inspected>>

\* One edit is written; the file is complete or, if the run is interrupted
\* now, perhaps not.
ApplyEdit(f, d) ==
    /\ node = "apply"
    /\ f \in ctx.pending /\ ctx.written = {}
    /\ disk' = [disk EXCEPT ![f] = [pass |-> ctx.attempts + 1, defect |-> d]]
    /\ ctx' = [ctx EXCEPT !.pending = @ \ {f}, !.written = {f}]
    /\ UNCHANGED <<task, node, steps, status, red, violation, result, inspected>>

\* Its checksum is taken and the file recorded as changed.
RecordEdit ==
    /\ node = "apply"
    /\ ctx.written # {}
    /\ ctx' = [ctx EXCEPT !.written = {}, !.changed = @ \cup ctx.written]
    /\ UNCHANGED <<task, node, steps, status, red, violation, disk, result, inspected>>

\* checkpoint.restore()
Restored == [f \in File |-> IF f \in ctx.checkpoint THEN ctx.saved[f] ELSE disk[f]]

\* Mutant: the exception leaves without restoring the checkpoint.
ApplyFailedKeeping ==
    /\ node = "apply"
    /\ ctx.pending \cup ctx.written # {}
    /\ node' = "done"
    /\ result' = [NoResult EXCEPT !.status = "apply_failed", !.exit_code = 1]
    /\ UNCHANGED <<task, steps, status, red, violation, disk, ctx, inspected>>

\* An edit or its checksum raises: the checkpoint is restored and the
\* exception leaves run, which writes no run.json.
ApplyFailed ==
    /\ node = "apply"
    /\ ctx.pending \cup ctx.written # {}
    /\ disk' = Restored
    /\ node' = "done"
    /\ result' = [NoResult EXCEPT !.status = "apply_failed", !.exit_code = 1]
    /\ UNCHANGED <<task, steps, status, red, violation, ctx, inspected>>

Applied ==
    /\ node = "apply"
    /\ ctx.pending = {} /\ ctx.written = {}
    /\ node' = "local_inspection"
    /\ UNCHANGED <<task, steps, status, red, violation, disk, ctx, result, inspected>>

\* The targeted tests, when there is a command for them.
TestRuns == IF task.runner = "none" THEN {"not_run"}
            ELSE IF task.runner = "broken" THEN {"failed"}
            ELSE {"passed", "failed"}

\* Mutant: only the files of the last pass are looked at.
InspectLastPass(tests) ==
    IF \/ ctx.changed = {} /\ task.mutates
       \/ \E f \in ctx.checkpoint : disk[f].defect = "secret"
    THEN "failed_blocking"
    ELSE IF tests = "failed" \/ \E f \in ctx.checkpoint : disk[f].defect = "syntax"
    THEN "failed_recoverable"
    ELSE "passed"

\* _worst over the gates: scope and secrets block, syntax and tests recover.
Inspect(tests) ==
    IF \/ ctx.changed = {} /\ task.mutates
       \/ \E f \in ctx.changed : disk[f].defect = "secret"
    THEN "failed_blocking"
    ELSE IF tests = "failed" \/ \E f \in ctx.changed : disk[f].defect = "syntax"
    THEN "failed_recoverable"
    ELSE "passed"

\* Inspection reads the workspace; a blocking outcome restores the checkpoint
\* of this pass and reports every changed file as restored.
LocalInspection ==
    /\ Enter("local_inspection")
    /\ \E tests \in TestRuns :
          LET outcome  == Inspect(tests)
              rollback == outcome = "failed_blocking" /\ ctx.checkpoint # {} IN
          /\ ctx' = [ctx EXCEPT !.inspection = outcome, !.verification = tests,
                                !.restored_files = IF rollback THEN ctx.changed ELSE @]
          /\ disk' = IF rollback THEN Restored ELSE disk
          /\ node' = IF outcome = "passed" THEN "consolidation"
                     ELSE IF outcome = "failed_recoverable" THEN "diagnose"
                     ELSE "escalation"
          /\ status' = IF outcome = "failed_blocking" THEN "escalated" ELSE status
    /\ inspected' = disk
    /\ UNCHANGED <<task, red, violation, result>>

\* _repair_forbidden, apart from the policy.
RepairForbidden ==
    \/ task.strict /\ task.mutates /\ red \notin {"failing", "environment"}
    \/ task.mutates /\ ctx.changed = {} /\ ~ctx.provider_available

\* Repairing around a policy refusal is never allowed.
DiagnosePolicyBlocked ==
    /\ Enter("diagnose")
    /\ ctx.policy_blocked
    /\ status' = "policy_blocked"
    /\ node' = "broken_off"
    /\ UNCHANGED <<task, red, violation, disk, ctx, result, inspected>>

DiagnoseExhausted ==
    /\ Enter("diagnose")
    /\ ~ctx.policy_blocked
    /\ RepairForbidden \/ ctx.attempts >= MaxAttempts \/ ctx.attempts >= Strategies
    /\ status' = "escalated"
    /\ node' = "escalation"
    /\ UNCHANGED <<task, red, violation, disk, ctx, result, inspected>>

\* Mutants: repairing around a policy refusal; the repair starts with an
\* empty list of changed files; the attempt is not recorded.
DiagnoseAroundPolicy ==
    /\ Enter("diagnose")
    /\ ~RepairForbidden
    /\ ctx.attempts < MaxAttempts
    /\ ctx' = [ctx EXCEPT !.attempts = @ + 1]
    /\ node' = "mutate"
    /\ UNCHANGED <<task, status, red, violation, disk, result, inspected>>

DiagnoseForgetful ==
    /\ Enter("diagnose")
    /\ ~ctx.policy_blocked
    /\ ~RepairForbidden
    /\ ctx.attempts < MaxAttempts
    /\ ctx' = [ctx EXCEPT !.attempts = @ + 1, !.changed = {}]
    /\ node' = "mutate"
    /\ UNCHANGED <<task, status, red, violation, disk, result, inspected>>

DiagnoseUncounted ==
    /\ Enter("diagnose")
    /\ ~ctx.policy_blocked
    /\ ~RepairForbidden
    /\ ctx.attempts < MaxAttempts
    /\ ctx.attempts < Strategies
    /\ node' = "mutate"
    /\ UNCHANGED <<task, status, red, violation, disk, ctx, result, inspected>>

DiagnoseFixReady ==
    /\ Enter("diagnose")
    /\ ~ctx.policy_blocked
    /\ ~RepairForbidden
    /\ ctx.attempts < MaxAttempts
    /\ ctx.attempts < Strategies
    /\ ctx' = [ctx EXCEPT !.attempts = @ + 1]
    /\ node' = "mutate"
    /\ UNCHANGED <<task, status, red, violation, disk, result, inspected>>

Escalation ==
    /\ Enter("escalation")
    /\ node' = "consolidation"
    /\ UNCHANGED <<task, status, red, violation, disk, ctx, result, inspected>>

Consolidation ==
    /\ Enter("consolidation")
    /\ node' = "completed"
    /\ UNCHANGED <<task, status, red, violation, disk, ctx, result, inspected>>

-----------------------------------------------------------------------------
(* After the walk.                                                         *)

\* The run refused to start walking: no gate is needed to keep it honest.
FinishRefused ==
    /\ node = "broken_off"
    /\ violation # "none"
    /\ Done("tdd_violation", TRUE, "not_run")
    /\ UNCHANGED <<task, steps, status, red, violation, disk, ctx, inspected>>

\* The broader suite runs once after a proven GREEN of a clean strict run.
Regressions ==
    IF /\ task.strict /\ task.mutates /\ ~TestOnlySuspicious
       /\ ctx.verification = "passed" /\ ctx.changed # {}
    THEN {"passed", "failed"} ELSE {"not_run"}

Finish ==
    /\ node \in {"completed", "broken_off"}
    /\ violation = "none"
    /\ violation' = IF TestOnlySuspicious THEN "test_only_edit" ELSE violation
    /\ \E valid \in BOOLEAN, regression \in Regressions :
          Done(EnforceGates(TerminalStatus, valid), TestOnlySuspicious, regression)
    /\ UNCHANGED <<task, steps, status, red, disk, ctx, inspected>>

Return ==
    /\ node = "persisted"
    /\ node' = "done"
    /\ UNCHANGED <<task, steps, status, red, violation, disk, ctx, result, inspected>>

\* Mutant: the shell's exit code for SIGINT, which the contract does not list.
InterruptAs130 ==
    /\ node # "done"
    /\ node' = "done"
    /\ result' = [result EXCEPT !.status = "cancelled", !.exit_code = 130]
    /\ UNCHANGED <<task, steps, status, red, violation, disk, ctx, inspected>>

\* KeyboardInterrupt, anywhere: run.json says cancelled, beside what has been
\* persisted before (nothing, as a rule), and the workspace is left as it is.
\* (A killed process leaves the same workspace and no verdict.)
Interrupt ==
    /\ node # "done"
    /\ node' = "done"
    /\ result' = [result EXCEPT !.status = "cancelled", !.exit_code = 1]
    /\ UNCHANGED <<task, steps, status, red, violation, disk, ctx, inspected>>

-----------------------------------------------------------------------------

Walk ==
    \/ ConfigInvalid \/ CaptureRed
    \/ StepLimit
    \/ InitNode \/ GatherContext \/ GatherNothing \/ Plan
    \/ Mutate
    \/ \E f \in File, d \in Defect : ApplyEdit(f, d)
    \/ RecordEdit \/ ApplyFailed \/ Applied
    \/ LocalInspection
    \/ DiagnosePolicyBlocked \/ DiagnoseExhausted \/ DiagnoseFixReady
    \/ Escalation \/ Consolidation
    \/ FinishRefused \/ Finish \/ Return

\* The run is over: its process has returned.
Over == node = "done" /\ UNCHANGED vars

Next == Walk \/ Interrupt \/ Over

Spec == Init /\ [][Next]_vars

-----------------------------------------------------------------------------
(* Properties.                                                             *)

\* The run has a verdict, which only an interrupt can still replace.
Judged == node \in {"persisted", "done"}

Ended(s) == node = "done" /\ result.status = s

Edited(f) == disk[f].pass > 0

\* An exit code of 0 is earned by the workspace itself: what inspection last
\* looked at is what is on disk, no file the run wrote is left broken or with
\* a secret (also the files an earlier pass of the repair loop wrote), a task
\* that demands a change left one, and no required test run was skipped or
\* failed.
CompletedIsHonest ==
    Judged /\ result.exit_code = 0
        => /\ result.status = "completed"
           /\ inspected = disk
           /\ \A f \in File : Edited(f) => disk[f].defect = "none"
           /\ task.mutates => \E f \in File : Edited(f)
           /\ ctx.verification # "failed"
           /\ VerifyRequired => ctx.verification = "passed"

\* TDD_STRICT_CONTRACT: a strict run changes the workspace only after a test
\* really failed, whatever else happens to it later.
StrictNeedsRed ==
    task.strict /\ task.mutates /\ (\E f \in File : Edited(f)) => red = "failing"

\* A strict-TDD violation, found before the walk or only at its end, always
\* leaves with exit code 6, unless the run was cut short.
ViolationExits6 ==
    Judged /\ violation # "none"
        => result.exit_code = 6 \/ result.status = "cancelled"

\* A verdict that tells the user to supply something and run again (an
\* executor, a provider, context, configuration, an approval, a failing test)
\* is only given for a workspace the run has not touched.
NeedsLeaveNoTrace ==
    /\ Judged
    /\ \/ result.status \in {"needs_executor", "needs_provider", "needs_context",
                             "needs_configuration", "tdd_violation"}
       \/ result.status = "policy_blocked" /\ ctx.policy_approval_required
    => \A f \in File : ~Edited(f)

\* A pass that inspection blocks, or whose apply raises, leaves none of its
\* bytes behind ("the workspace is byte-identical to before", checkpoint.py).
BlockedPassUndone ==
    ctx.inspection = "failed_blocking" \/ result.status = "apply_failed"
        => \A f \in File : disk[f].pass # ctx.attempts + 1

\* changed_files of run.json misses nothing: when a run that was neither
\* interrupted nor left by an exception is over, every file whose content is
\* the run's own is in that list, across repairs and rollbacks.
ChangesReported ==
    Judged /\ result.status \notin {"cancelled", "apply_failed"}
        => \A f \in File : Edited(f) => f \in result.changed

\* Wherever the run is, also where an interrupt leaves it for good: what the
\* current pass has put on disk can be taken back, since the checkpoint has
\* captured the file, and captured it as it was before the pass.
PassCanBeUndone ==
    \A f \in File :
        disk[f].pass = ctx.attempts + 1
            => f \in ctx.checkpoint /\ ctx.saved[f].pass <= ctx.attempts

\* Every pass through the repair loop is paid for with an attempt of the
\* budget, and costs at most three nodes.
RepairBounded ==
    /\ ctx.attempts <= MaxAttempts
    /\ steps <= 3 * ctx.attempts + 8

\* Hence the step limit is a safety net that real attempt budgets never reach.
LimitNotReached == 3 * MaxAttempts + 8 <= MaxSteps => status # "failed"

\* Once the policy has refused an edit the run changes nothing any more: it
\* neither repairs around the refusal nor rolls back what was allowed before.
PolicyBlockFreezes == [][ctx.policy_blocked => disk' = disk]_vars

\* Restoring a checkpoint puts "the captured files back to their pre-apply
\* state" (checkpoint.py): what rollback-report.json lists as restored from a
\* checkpoint is what that checkpoint captured.  It does not hold: the report
\* lists every file changed since the run began.
RestoredFilesWereCaptured == ctx.restored_files \subseteq ctx.checkpoint

\* TDD_STRICT_CONTRACT, step 7: a strict run whose minimal regression suite
\* fails is not passed.  It does not hold: nothing reads that result.
RegressionGates == Ended("completed") => result.regression # "failed"
=============================================================================
