---------------------------- MODULE HarnessRunner ----------------------------
(***************************************************************************)
(* HarnessRunner (harness/runner.py): a run executes the phases of its     *)
(* workflow in order, softens or keeps failures, may send findings back to *)
(* the model in a fix loop, and writes its record file by file.  A later   *)
(* run may resume it: the phases its events call completed are skipped.    *)
(*                                                                         *)
(* The workspace is what the tests say of it: the files whose tests fail.  *)
(* Tests are deterministic; which of them an edit breaks or repairs is     *)
(* free.  Memory, receipts, handoffs and the risk-gated judgment change no *)
(* status and are left out.  A record file is written in a directory of    *)
(* its own run, so a torn one reads like an absent one.                    *)
(***************************************************************************)
EXTENDS Naturals, Sequences, Functions

CONSTANTS
    Phases,     \* the scheduled phases, in order; one stands for its like
    File,       \* the files a model may edit
    Tested,     \* those that map to a test file
    MaxLoops,   \* max_fix_loops of the quality rules
    MaxRuns     \* bound on the number of runs

Phase == Range(Phases)

ASSUME HarnessAssumption ==
    /\ Phases \in Seq(STRING) /\ IsInjective(Phases)
    /\ \A i, j \in DOMAIN Phases : Phases[i] = "apply" /\ Phases[j] = "verify" => i < j
    /\ Tested \subseteq File
    /\ MaxLoops \in Nat /\ MaxRuns \in Nat

VARIABLES
    config,     \* budget mode, gate policy, TDD mode, executor, privacy rules
    broken,     \* the files whose tests fail now
    writer,     \* the run that wrote the workspace last
    n,          \* the number of runs so far
    pc,         \* what the current run does
    at,         \* the phase it is in
    status,     \* final_status
    hard,       \* hard_failed
    terminal,   \* terminal_gate_failed
    blocked,    \* apply_blocked_pre_gate
    planned,    \* apply ran and had no edits
    failing,    \* a gate of phase verify has failed
    edits,      \* the paths of state.apply_edits
    loops,      \* fix attempts so far
    done,       \* phases with a passing event in this run
    completed,  \* phases completed in the resumed run
    carried,    \* those whose artifacts have been copied
    saved,      \* the record of this run on disk
    seen,       \* history: the files whose tests this run has seen fail
    verified,   \* history: a verification has been made
    unseen      \* history: a test run raised and nobody noticed

world == <<broken, writer>>
gates == <<status, hard, terminal, failing>>
prior == <<config, n, completed, carried>>
history == <<seen, verified, unseen>>
vars == <<config, broken, writer, n, pc, at, status, hard, terminal, blocked, planned, failing,
          edits, loops, done, completed, carried, saved, seen, verified, unseen>>

Status == {"passed", "warning", "failed", "not_applied", "cancelled"}
Config == [strict : BOOLEAN, block : BOOLEAN, tdd : BOOLEAN, delegate : BOOLEAN,
           private : BOOLEAN]
NoRecord == [status |-> "absent", artifacts |-> {}, events |-> {}]

(* The type invariant.                                                     *)
TypeOK ==
    /\ config \in Config
    /\ broken \subseteq Tested
    /\ writer \in 0..MaxRuns /\ n \in 0..MaxRuns
    /\ pc \in {"idle", "phase", "close", "fix", "reverify", "run.json", "artifacts.json",
               "events.json"}
    /\ at \in 1..(Len(Phases) + 1)
    /\ status \in Status
    /\ hard \in BOOLEAN /\ terminal \in BOOLEAN /\ failing \in BOOLEAN
    /\ blocked \in BOOLEAN /\ planned \in BOOLEAN
    /\ verified \in BOOLEAN /\ unseen \in BOOLEAN
    /\ edits \subseteq File /\ seen \subseteq Tested
    /\ loops \in 0..MaxLoops
    /\ done \subseteq Phase /\ completed \subseteq Phase /\ carried \subseteq completed
    /\ saved \in [status : Status \cup {"absent"}, artifacts : SUBSET Phase,
                  events : SUBSET Phase]

Init ==
    /\ config \in Config
    /\ broken \in SUBSET Tested
    /\ writer = 0 /\ n = 0
    /\ pc = "idle" /\ at = 1
    /\ status = "passed"
    /\ hard = FALSE /\ terminal = FALSE /\ blocked = FALSE /\ planned = FALSE /\ failing = FALSE
    /\ edits = {} /\ loops = 0
    /\ done = {} /\ completed = {} /\ carried = {}
    /\ saved = NoRecord
    /\ seen = {} /\ verified = FALSE /\ unseen = FALSE

-----------------------------------------------------------------------------
(* completed_phases: the passing events of the run, if events.json is      *)
(* there.                                                                  *)
CompletedPhases == saved.events

(* Mutant: every artifact of the resumed run is carried over.              *)
AllPhaseArtifacts(C) == saved.artifacts

(* passed_phase_artifacts: what artifacts.json lists for these phases.     *)
PassedPhaseArtifacts(C) == saved.artifacts \cap C

(* create_run, and with resume_from the carry-over of artifacts, but not   *)
(* of the edits.  The caller may hand in edits.                            *)
Start(resume, given) ==
    /\ pc = "idle" /\ n < MaxRuns
    /\ n' = n + 1
    /\ completed' = IF resume THEN CompletedPhases ELSE {}
    /\ carried' = PassedPhaseArtifacts(completed')
    /\ edits' = given
    /\ pc' = "phase" /\ at' = 1
    /\ status' = "passed"
    /\ hard' = FALSE /\ terminal' = FALSE /\ blocked' = FALSE /\ planned' = FALSE
    /\ failing' = FALSE /\ loops' = 0 /\ done' = {}
    /\ saved' = NoRecord
    /\ seen' = {} /\ verified' = FALSE /\ unseen' = FALSE
    /\ config' \in Config
    /\ UNCHANGED world

Here(p) == pc = "phase" /\ at <= Len(Phases) /\ Phases[at] = p

(* The next phase of the loop, or what comes after it.                     *)
Continue == at' = at + 1 /\ pc' = IF at = Len(Phases) THEN "close" ELSE "phase"
Break == at' = at /\ pc' = "close"

Skip ==
    /\ \E p \in completed : Here(p)
    /\ Continue
    /\ UNCHANGED <<world, prior, gates, blocked, planned, edits, loops, done, saved, history>>

Due(p) == Here(p) /\ p \notin completed

(* The confidence gate: a score below the threshold ends a strict run and  *)
(* skips the phase in any other.                                           *)
LowConfidence(p) ==
    /\ Due(p)
    /\ failing' = (failing \/ p = "verify")
    /\ status' = IF config.strict THEN "failed" ELSE status
    /\ IF config.strict THEN Break ELSE Continue
    /\ UNCHANGED <<world, prior, hard, terminal, blocked, planned, edits, loops, done, saved,
                   history>>

(* A privacy rule is violated; with rules, a run that has failed before    *)
(* ends here as well.                                                      *)
PrivacyStop(p) ==
    /\ Due(p) /\ config.private
    /\ status' = "failed"
    /\ Break
    /\ UNCHANGED <<world, prior, hard, terminal, failing, blocked, planned, edits, loops, done,
                   saved, history>>

Admitted(p) == Due(p) /\ ~(config.private /\ status = "failed")

(* A pre-gate of apply (approval, failing test) blocks the write.          *)
BlockApply ==
    /\ Admitted("apply")
    /\ status' = "failed" /\ hard' = TRUE /\ blocked' = TRUE
    /\ Continue
    /\ UNCHANGED <<world, prior, terminal, failing, planned, edits, loops, done, saved, history>>

-----------------------------------------------------------------------------
Enforced == config.strict \/ config.block

(* Mutant: a later phase may soften a failure of verify.                   *)
AbsorbSoftening(p, gate, result, stop) ==
    LET kills == gate /\ Enforced
        sticky == hard
        final == result = "failed" /\ (config.strict \/ stop)
    IN  /\ terminal' = (terminal \/ (kills /\ p \in {"apply", "verify"}))
        /\ failing' = (failing \/ (gate /\ p = "verify"))
        /\ hard' = (hard \/ final)
        /\ status' = IF final THEN "failed"
                     ELSE IF result # "passed" /\ ~sticky THEN "warning"
                     ELSE IF kills THEN "failed"
                     ELSE IF gate /\ ~hard THEN "warning" ELSE status
        /\ done' = IF result = "failed" THEN done ELSE done \cup {p}
        /\ IF final THEN Break ELSE Continue

(* What the loop makes of the result of a phase: gate says that one of its *)
(* gates has failed, stop that sdd_strict refuses its scaffold.  A failure *)
(* of apply or verify is sticky, any other may be softened to a warning.   *)
Absorb(p, gate, result, stop) ==
    LET kills == gate /\ Enforced
        sticky == hard \/ terminal \/ (kills /\ p \in {"apply", "verify"})
        final == result = "failed" /\ (config.strict \/ stop)
    IN  /\ terminal' = (terminal \/ (kills /\ p \in {"apply", "verify"}))
        /\ failing' = (failing \/ (gate /\ p = "verify"))
        /\ hard' = (hard \/ final)
        /\ status' = IF final THEN "failed"
                     ELSE IF result # "passed" /\ ~sticky THEN "warning"
                     ELSE IF kills THEN "failed"
                     ELSE IF gate /\ ~hard THEN "warning" ELSE status
        /\ done' = IF result = "failed" THEN done ELSE done \cup {p}
        /\ IF final THEN Break ELSE Continue

(* A phase other than apply and verify; one that raises has a failed gate. *)
RunPhase(p) ==
    /\ Admitted(p) /\ p \notin {"apply", "verify"}
    /\ \E gate, stop \in BOOLEAN, result \in {"passed", "warning", "failed"} :
           Absorb(p, gate, result, stop)
    /\ UNCHANGED <<world, prior, blocked, planned, edits, loops, saved, history>>

(* CodeEditExecutor.apply writes all edits, or rolls them back.            *)
Written == broken' \in SUBSET Tested /\ writer' = n

NothingWritten == UNCHANGED world

(* The edits that the caller has given, or that a model writes now.        *)
ApplyEdits ==
    IF edits # {} THEN {edits} ELSE IF config.delegate THEN SUBSET File ELSE {{}}

(* ApplyPhase.  Those edits that cannot be turned into a file's content    *)
(* are dropped without a word, and without any left it plans.  Edits that  *)
(* fail are rolled back and fail the phase; a path outside the project     *)
(* raises, which is a failed gate, and so does the manifest when it cannot *)
(* be written, after the edits.  A declared gate may fail in any case.     *)
Apply ==
    /\ Admitted("apply")
    /\ edits' \in ApplyEdits
    /\ \E written \in SUBSET edits', gate \in BOOLEAN :
           /\ planned' = (written = {})
           /\ \/ written = {} /\ NothingWritten /\ Absorb("apply", gate, "passed", FALSE)
              \/ written # {} /\ Written /\ Absorb("apply", gate, "passed", FALSE)
              \/ written # {} /\ NothingWritten /\ Absorb("apply", gate, "failed", FALSE)
              \/ written # {} /\ Written /\ Absorb("apply", TRUE, "failed", FALSE)
    /\ UNCHANGED <<prior, blocked, loops, saved, history>>

(* The tests that a run of pytest executes: those the edited files map to. *)
TestsFail == edits \cap broken # {}

(* tests_pass runs the whole suite, in strict TDD mode only.               *)
SuiteFails == config.tdd /\ broken # {}

(* VerifyPhase and the declared gates: its own gates also fail by a        *)
(* timeout or too few killed mutants, the others by the code's quality.    *)
Verify ==
    /\ Admitted("verify")
    /\ \E own, declared \in BOOLEAN, result \in {"passed", "warning", "failed"} :
           /\ TestsFail => own
           /\ SuiteFails => declared
           /\ own <=> result = "failed"
           /\ Absorb("verify", own \/ declared, result, FALSE)
    /\ verified' = TRUE
    /\ seen' = seen \cup (edits \cap broken)
    /\ UNCHANGED <<world, prior, blocked, planned, edits, loops, saved, unseen>>

-----------------------------------------------------------------------------
(* Mutant: apply's refusal does not keep the fix loop from writing.        *)
FixAnyway == status = "failed" /\ config.block /\ config.delegate /\ failing

(* _run_fix_loops goes to work only on a blocking failure of verify, with  *)
(* a model, and never when apply was refused.                              *)
MayFix == status = "failed" /\ config.block /\ ~blocked /\ config.delegate /\ failing

(* After the loop: a planned apply without a model is no success, if the   *)
(* task's wording asks for a change.                                       *)
Close ==
    /\ pc = "close"
    /\ status' \in IF planned /\ ~config.delegate /\ status \in {"passed", "warning"}
                   THEN {status, "not_applied"} ELSE {status}
    /\ pc' = IF MayFix /\ MaxLoops > 0 THEN "fix" ELSE "run.json"
    /\ UNCHANGED <<world, prior, at, hard, terminal, failing, blocked, planned, edits, loops,
                   done, saved, history>>

(* _reapply_with_findings: new edits replace the old ones, if there are    *)
(* any; their failure is only a warning.                                   *)
Reapply ==
    /\ pc = "fix"
    /\ \E E \in SUBSET File :
           /\ edits' = IF E = {} THEN edits ELSE E
           /\ (E # {} /\ Written) \/ NothingWritten
    /\ pc' = "reverify"
    /\ UNCHANGED <<prior, at, gates, blocked, planned, loops, done, saved, history>>

(* _reverify: the declared gates and the tests of the edits made last; a   *)
(* test run that raises is taken for no failure.  The attempt succeeds     *)
(* when nothing fails, whatever else had failed before.                    *)
Reverify ==
    /\ pc = "reverify"
    /\ \E tests, declared, raised \in BOOLEAN :
           /\ raised => ~tests
           /\ (TestsFail /\ ~raised) => tests
           /\ SuiteFails => declared
           /\ failing' = (tests \/ declared)
           /\ unseen' = (unseen \/ raised)
           /\ seen' = IF raised THEN seen ELSE seen \cup (edits \cap broken)
    /\ loops' = loops + 1
    /\ IF failing'
       THEN status' = status /\ pc' = IF loops' < MaxLoops THEN "fix" ELSE "run.json"
       ELSE status' \in {"passed", "warning"} /\ pc' = "run.json"
    /\ verified' = TRUE
    /\ UNCHANGED <<world, prior, at, hard, terminal, blocked, planned, edits, done, saved>>

-----------------------------------------------------------------------------
(* Mutant: the events are written before the artifacts they speak of.      *)
NextFileEventsFirst(f) ==
    IF f = "run.json" THEN "events.json"
    ELSE IF f = "events.json" THEN "artifacts.json" ELSE "idle"

(* The order in which persist_run writes the files that decide something.  *)
NextFile(f) ==
    IF f = "run.json" THEN "artifacts.json"
    ELSE IF f = "artifacts.json" THEN "events.json" ELSE "idle"

(* persist_run writes one file after the other.                            *)
Persist ==
    /\ pc \in {"run.json", "artifacts.json", "events.json"}
    /\ saved' = IF pc = "run.json" THEN [saved EXCEPT !.status = status]
                ELSE IF pc = "artifacts.json" THEN [saved EXCEPT !.artifacts = done]
                ELSE [saved EXCEPT !.events = done]
    /\ pc' = NextFile(pc)
    /\ UNCHANGED <<world, prior, at, gates, blocked, planned, edits, loops, done, history>>

(* The process dies, perhaps while it writes edits, which nobody rolls     *)
(* back: neither KeyboardInterrupt nor a kill is an Exception.             *)
Stop ==
    /\ pc # "idle"
    /\ \/ (pc = "fix" \/ (Admitted("apply") /\ ApplyEdits # {{}})) /\ Written
       \/ NothingWritten
    /\ pc' = "idle"

Stopped == UNCHANGED <<prior, at, hard, terminal, failing, blocked, planned, edits, loops, done,
                       history>>

Crash == Stop /\ Stopped /\ UNCHANGED <<status, saved>>

(* _finalize_cancelled_run rewrites run.json if the run has a directory.   *)
Interrupt ==
    /\ Stop /\ Stopped
    /\ status' = "cancelled"
    /\ saved' \in {saved, [saved EXCEPT !.status = "cancelled"]}

Next ==
    \/ \E resume \in BOOLEAN, given \in SUBSET File : Start(resume, given)
    \/ Skip
    \/ \E p \in Phase : LowConfidence(p) \/ PrivacyStop(p) \/ RunPhase(p)
    \/ BlockApply \/ Apply \/ Verify
    \/ Close \/ Reapply \/ Reverify
    \/ Persist
    \/ Crash \/ Interrupt

Spec == Init /\ [][Next]_vars

-----------------------------------------------------------------------------
Succeeded == saved.status \in {"passed", "warning"}

(* A record that says passed (exit code 0) after a verification, under a   *)
(* policy that enforces gates, is true of the workspace, whatever later    *)
(* phases and fix attempts did: in strict TDD mode the whole suite passes, *)
(* and in a run that has not taken its apply over from a resumed run the   *)
(* tests of the files edited last do.  Not so only when the test run of a  *)
(* fix attempt raised.                                                     *)
PassedIsGreen ==
    Succeeded /\ Enforced /\ verified /\ ~unseen =>
        /\ "apply" \notin completed => ~TestsFail
        /\ ~SuiteFails

(* A run whose apply was refused before the write leaves the workspace     *)
(* alone to its end, also in its fix loop, and never succeeds.             *)
BlockedApplyWritesNothing == blocked => writer # n /\ ~Succeeded

(* A phase that a resumed run skips has left it its artifacts, also when   *)
(* the resumed run died while it wrote its record.                         *)
SkippedHasArtifact == completed \subseteq carried

(* "so that _run_fix_loop cannot declare recovered while tests still fail" *)
(* (runner.py): no test that the run has seen fail fails after a recovery. *)
RecoveredIsTested ==
    Succeeded /\ loops > 0 /\ ~unseen => seen \cap broken = {}
=============================================================================
