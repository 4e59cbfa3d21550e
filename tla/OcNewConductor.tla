--------------------------- MODULE OcNewConductor ---------------------------
(***************************************************************************)
(* OcNewConductor (oc_new/conductor.py, store.py, flow.py, archive_gate.py,*)
(* agentic/modes.py, budget_controller.py): the file-backed state of one   *)
(* SDD run.  Its phases are worked on by agents outside this program; the  *)
(* conductor is called by short-lived processes (`oc-new start | done |    *)
(* resume`) that load state.json, decide the next action and save it.      *)
(*                                                                         *)
(* A call is split where another process can get in between: after the     *)
(* load, around the budget ledger, the lease and the write of state.json,  *)
(* which truncates the file first.  Flow and its artifacts are data: the   *)
(* instances give all ten phases of flow.py, or a few.                     *)
(***************************************************************************)
EXTENDS Naturals, Sequences

CONSTANTS Process,      \* processes that call the conductor
          Flow,         \* OC_NEW_FLOW: the phases in order
          Required,     \* required_artifacts of each phase
          Evidence,     \* OcNewArchiveGate.REQUIRED
          SpecArtifact, \* artifacts that may also live in openspec/changes
          Config,       \* the configurations a run may be started with
          TotalBudget,  \* config.total_budget
          Tokens,       \* the token counts a caller may report
          MaxTokens,    \* bound: no more tokens are charged than this
          Fault         \* what may go wrong in this run

Phase == {Flow[i] : i \in DOMAIN Flow}

\* What the gates of apply look at, beside its required artifacts.
Gating == IF "apply" \in Phase THEN {"approval.json", "failing_test.json"} ELSE {}

Artifact == UNION {Required[q] : q \in Phase} \cup Evidence \cup Gating

FlowAssumption ==
    /\ Flow \in Seq(STRING)
    /\ \A i, j \in DOMAIN Flow : Flow[i] = Flow[j] => i = j
    /\ DOMAIN Required = Phase
    /\ SpecArtifact \subseteq Artifact
    /\ Config \subseteq [mode: {"automatic", "stepwise", "hybrid", "observe"},
                         budget: {"lenient", "ask", "strict"}, strict: BOOLEAN]
    /\ TotalBudget \in Nat
    /\ Tokens \subseteq Nat
    /\ MaxTokens \in Nat
    /\ Fault \subseteq {"crash", "lease"}

ASSUME FlowAssumption

VARIABLES config,    \* AgenticFlowConfig, saved with the run
          saved,     \* state.json
          artifacts, \* files of the run directory
          published, \* files of openspec/changes/<change>
          verdicts,  \* what approval.json and the reports say
          leased,    \* phases of this run with an active lease
          ledger,    \* budget_ledger.json and its used_total
          calls,     \* the call each process is in
          recorded,  \* history: the phases that state.json, when it could last
                     \* be read, showed as complete
          spent,     \* history: tokens charged so far
          mishaps    \* history: what went wrong so far

vars == <<config, saved, artifacts, published, verdicts, leased, ledger, calls,
          recorded, spent, mishaps>>

files == <<artifacts, published, verdicts>>

-----------------------------------------------------------------------------

Status == {"pending", "passed", "warning", "failed", "blocked"}

Kind == {"none", "spawn_subagent", "request_approval", "blocked", "observe_only", "done"}

NextAction == [kind: Kind, phase: Phase \cup {"none"}]

Action(k, q) == [kind |-> k, phase |-> q]

File == {"absent", "torn", "whole"}

Step == {"idle", "read_ledger", "truncate_ledger", "write_ledger", "release", "advance",
         "truncate_first", "write_first", "truncate", "write"}

Call == [step: Step, phases: [Phase -> Status], loaded: NextAction, next: NextAction,
         phase: Phase \cup {"none"}, tokens: Nat, used: Nat]

TypeOK ==
    /\ config \in Config
    /\ saved \in [file: File, phases: [Phase -> Status],
                  next: NextAction]
    /\ artifacts \subseteq Artifact
    /\ published \subseteq SpecArtifact
    /\ verdicts \in [approved: BOOLEAN, reports: BOOLEAN]
    /\ leased \subseteq Phase
    /\ ledger \in [file: File, used: Nat]
    /\ calls \in [Process -> Call]
    /\ recorded \subseteq Phase
    /\ spent \in Nat
    /\ mishaps \subseteq Fault \cup {"overlap", "charge"}

NoAction == Action("none", "none")

NoPhases == [q \in Phase |-> "pending"]

Idle == [step |-> "idle", phases |-> NoPhases, loaded |-> NoAction,
         next |-> NoAction, phase |-> "none", tokens |-> 0, used |-> 0]

Init ==
    /\ config \in Config
    /\ saved = [file |-> "absent", phases |-> NoPhases, next |-> NoAction]
    /\ artifacts = {}
    /\ published = {}
    /\ verdicts = [approved |-> FALSE, reports |-> FALSE]
    /\ leased = {}
    /\ ledger = [file |-> "absent", used |-> 0]
    /\ calls = [p \in Process |-> Idle]
    /\ recorded = {}
    /\ spent = 0
    /\ mishaps = {}

Complete(s) == s \in {"passed", "warning"}

Completed(phases) == {q \in Phase : Complete(phases[q])}

\* The first phase that is not complete, when there is one.
Due(phases) == {Flow[i] : i \in {i \in DOMAIN Flow :
                    /\ ~Complete(phases[Flow[i]])
                    /\ \A j \in 1..(i - 1) : Complete(phases[Flow[j]])}}

-----------------------------------------------------------------------------
(* Loading state.json; a torn file does not parse and the call raises.     *)

Overlaps(p) == IF \E r \in Process \ {p} : calls[r].step # "idle" THEN {"overlap"} ELSE {}

Load(p, step) ==
    /\ calls[p].step = "idle"
    /\ saved.file = "whole"
    /\ mishaps' = mishaps \cup Overlaps(p)

Start(p) ==
    /\ saved.file = "absent"
    /\ \A r \in Process : calls[r].step = "idle"
    /\ calls' = [calls EXCEPT ![p].step = "advance"]
    /\ UNCHANGED <<config, saved, files, leased, ledger, recorded, spent, mishaps>>

Resume(p) ==
    /\ Load(p, "advance")
    /\ calls' = [calls EXCEPT ![p] = [Idle EXCEPT !.step = "advance",
                                      !.phases = saved.phases, !.loaded = saved.next]]
    /\ UNCHANGED <<config, saved, files, leased, ledger, recorded, spent>>

\* OcNewArchiveGate.assert_can_archive
CanArchive == Evidence \subseteq artifacts /\ verdicts.reports

\* Mutant: the envelope's status is recorded when the caller says "passed".
JudgedByEnvelope(q, s, envelope) == IF s = "passed" THEN envelope ELSE s

\* What mark_done makes of the caller's status s.  The envelope may overrule
\* it (and so may an artifact the envelope declares and the disk lacks); the
\* other gates look only at a phase that is still on track to pass.
Judged(q, s, envelope) ==
    IF envelope # "advances" THEN envelope
    ELSE IF /\ s = "passed"
            /\ \/ ~(Required[q] \subseteq artifacts)
               \/ q = "archive" /\ ~CanArchive
    THEN "blocked"
    ELSE s

\* Mutant: completing a phase reopens the ones behind it.
MarkDoneReopening(p, q, s, envelope, tokens) ==
    /\ Load(p, "read_ledger")
    /\ calls' = [calls EXCEPT ![p] =
          [step |-> "read_ledger", loaded |-> saved.next, next |-> NoAction,
           phases |-> [r \in Phase |-> IF r = q THEN Judged(q, s, envelope) ELSE "pending"],
           phase |-> q, tokens |-> tokens, used |-> 0]]
    /\ UNCHANGED <<config, saved, files, leased, ledger, recorded, spent>>

MarkDone(p, q, s, envelope, tokens) ==
    /\ Load(p, "read_ledger")
    /\ calls' = [calls EXCEPT ![p] =
          [step |-> "read_ledger", loaded |-> saved.next, next |-> NoAction,
           phases |-> [saved.phases EXCEPT ![q] = Judged(q, s, envelope)],
           phase |-> q, tokens |-> tokens, used |-> 0]]
    /\ UNCHANGED <<config, saved, files, leased, ledger, recorded, spent>>

-----------------------------------------------------------------------------
(* Files are written with write_text, which truncates and then writes.     *)

\* Two processes that truncated before either wrote: the second text lies over
\* the first, and when it is the shorter one the rest of the first follows it.
MayMix(file) == file = "whole"

EmptyLedger == [file |-> "torn", used |-> 0]

\* Between the reading of the ledger and the end of its writing.
Charging(r) == calls[r].step \in {"truncate_ledger", "write_ledger"}

\* _record_phase_budget, with a ledger that is empty as long as it is absent.
ReadLedger(p) ==
    /\ calls[p].step = "read_ledger"
    /\ ledger.file # "torn"
    /\ calls' = [calls EXCEPT ![p].step = "truncate_ledger", ![p].used = ledger.used]
    /\ mishaps' = IF \E r \in Process : Charging(r) THEN mishaps \cup {"charge"} ELSE mishaps
    /\ UNCHANGED <<config, saved, files, leased, ledger, recorded, spent>>

TruncateLedger(p) ==
    /\ calls[p].step = "truncate_ledger"
    /\ ledger' = EmptyLedger
    /\ calls' = [calls EXCEPT ![p].step = "write_ledger"]
    /\ UNCHANGED <<config, saved, files, leased, recorded, spent, mishaps>>

\* Mutant: the ledger is replaced by the last charge.
WriteLedgerFresh(p) ==
    /\ calls[p].step = "write_ledger"
    /\ ledger' = [file |-> "whole", used |-> calls[p].tokens]
    /\ spent' = spent + calls[p].tokens
    /\ calls' = [calls EXCEPT ![p].step = "release", ![p].tokens = 0, ![p].used = 0]
    /\ UNCHANGED <<config, saved, files, leased, recorded, mishaps>>

WriteLedger(p) ==
    /\ calls[p].step = "write_ledger"
    /\ \/ ledger' = [file |-> "whole", used |-> calls[p].used + calls[p].tokens]
       \/ MayMix(ledger.file) /\ ledger' = EmptyLedger
    /\ spent' = spent + calls[p].tokens
    /\ calls' = [calls EXCEPT ![p].step = "release", ![p].tokens = 0, ![p].used = 0]
    /\ UNCHANGED <<config, saved, files, leased, recorded, mishaps>>

\* Mutant: a blocked phase is saved beside the action that was there before.
ReleaseKeepingAction(p) ==
    /\ calls[p].step = "release"
    /\ leased' = leased \ {calls[p].phase}
    /\ LET q == calls[p].phase IN
       calls' = IF calls[p].phases[q] = "blocked"
                THEN [calls EXCEPT ![p].step = "truncate", ![p].next = calls[p].loaded]
                ELSE [calls EXCEPT ![p].step = "advance"]
    /\ UNCHANGED <<config, saved, files, ledger, recorded, spent, mishaps>>

\* release_by_run_phase.  A blocked phase is saved as it is.
ReleaseLease(p) ==
    /\ calls[p].step = "release"
    /\ leased' = leased \ {calls[p].phase}
    /\ LET q == calls[p].phase IN
       calls' = IF calls[p].phases[q] = "blocked"
                THEN [calls EXCEPT ![p].step = "truncate",
                                   ![p].next = Action("blocked", q)]
                ELSE [calls EXCEPT ![p].step = "advance"]
    /\ UNCHANGED <<config, saved, files, ledger, recorded, spent, mishaps>>

-----------------------------------------------------------------------------
(* _advance.                                                               *)

Available(q) == Required[q] \subseteq artifacts \cup published

OverBudget == config.budget = "strict" /\ ledger.used >= TotalBudget

ShouldPause(q) ==
    \/ config.mode \in {"stepwise", "observe"}
    \/ /\ config.mode = "hybrid"
       /\ q \in {"spec", "design", "tasks", "approval", "verify", "review"}

ApplyBlocked ==
    \/ "approval.json" \notin artifacts
    \/ ~verdicts.approved
    \/ config.strict /\ "failing_test.json" \notin artifacts

\* Mutant: the content of approval.json and the failing test are not looked at.
DecidedForUngated(q) ==
    IF ~Available(q) \/ OverBudget THEN Action("blocked", q)
    ELSE IF config.budget = "ask" \/ q = "approval" \/ ShouldPause(q)
    THEN Action("request_approval", q)
    ELSE Action("spawn_subagent", q)

DecidedFor(q) ==
    IF ~Available(q) \/ OverBudget THEN Action("blocked", q)
    ELSE IF config.budget = "ask" \/ q = "approval" \/ ShouldPause(q)
    THEN Action("request_approval", q)
    ELSE IF q = "apply" /\ ApplyBlocked THEN Action("blocked", q)
    ELSE IF q = "apply" /\ config.mode = "observe" THEN Action("observe_only", q)
    ELSE Action("spawn_subagent", q)

\* Mutant: a phase that was already handed out keeps the lease it had.
LeasedForOnce(p, next) ==
    IF next.kind = "spawn_subagent" /\ next # calls[p].loaded
    THEN leased \cup {next.phase} ELSE leased

\* Taken anew for every spawn: mark_done has released the lease of a phase
\* that failed and is due again.
LeasedFor(p, next) ==
    IF next.kind = "spawn_subagent" THEN leased \cup {next.phase} ELSE leased

Advance(p) ==
    LET phases == calls[p].phases IN
    /\ calls[p].step = "advance"
    /\ \/ /\ Due(phases) = {}
          /\ calls' = [calls EXCEPT ![p].step = "truncate", ![p].next = Action("done", "none")]
          /\ UNCHANGED <<leased, mishaps>>
       \/ \E q \in Due(phases) :
          LET next == DecidedFor(q) IN
          /\ Available(q) => ledger.file # "torn"
          \* An exhausted budget is saved once before the action is known.
          /\ calls' = [calls EXCEPT ![p].next = next,
                 ![p].step = IF Available(q) /\ OverBudget THEN "truncate_first" ELSE "truncate"]
          \* The lease is taken fail-soft.
          /\ \/ /\ leased' = LeasedFor(p, next)
                /\ UNCHANGED mishaps
             \/ /\ next.kind = "spawn_subagent"
                /\ "lease" \in Fault
                /\ leased' = leased
                /\ mishaps' = mishaps \cup {"lease"}
    /\ UNCHANGED <<config, saved, files, ledger, recorded, spent>>

\* A ledger that does not parse raises, in mark_done and in _check_budget, and
\* the call ends unsaved.
RaiseOnLedger(p) ==
    /\ ledger.file = "torn"
    /\ \/ calls[p].step = "read_ledger"
       \/ /\ calls[p].step = "advance"
          /\ \E q \in Due(calls[p].phases) : Available(q)
    /\ calls' = [calls EXCEPT ![p] = Idle]
    /\ UNCHANGED <<config, saved, files, leased, ledger, recorded, spent, mishaps>>

-----------------------------------------------------------------------------
(* OcNewStore.save.                                                        *)

\* write_text opens the file for writing, which empties it.
EmptyState == [file |-> "torn", phases |-> NoPhases, next |-> NoAction]

Truncate(p) ==
    /\ calls[p].step \in {"truncate", "truncate_first"}
    /\ saved' = EmptyState
    /\ calls' = [calls EXCEPT ![p].step =
                    IF @ = "truncate" THEN "write" ELSE "write_first"]
    /\ UNCHANGED <<config, files, leased, ledger, recorded, spent, mishaps>>

SaveText(phases, next) ==
    \/ /\ saved' = [file |-> "whole", phases |-> phases, next |-> next]
       /\ recorded' = Completed(phases)
    \/ /\ MayMix(saved.file)
       /\ saved' = EmptyState
       /\ UNCHANGED recorded

WriteFirst(p) ==
    /\ calls[p].step = "write_first"
    /\ SaveText(calls[p].phases, calls[p].loaded)
    /\ calls' = [calls EXCEPT ![p].step = "truncate"]
    /\ UNCHANGED <<config, files, leased, ledger, spent, mishaps>>

Write(p) ==
    /\ calls[p].step = "write"
    /\ SaveText(calls[p].phases, calls[p].next)
    /\ calls' = [calls EXCEPT ![p] = Idle]
    /\ UNCHANGED <<config, files, leased, ledger, spent, mishaps>>

Crash(p) ==
    /\ "crash" \in Fault
    /\ calls[p].step # "idle"
    /\ calls' = [calls EXCEPT ![p] = Idle]
    /\ mishaps' = mishaps \cup {"crash"}
    /\ UNCHANGED <<config, saved, files, leased, ledger, recorded, spent>>

-----------------------------------------------------------------------------
(* The agents and the user, who work on the files between the calls, and   *)
(* the lease store, where a lease runs out after an hour.                  *)

WriteArtifact(a) ==
    /\ artifacts' = artifacts \cup {a}
    /\ UNCHANGED <<config, saved, published, verdicts, leased, ledger, calls, recorded,
                   spent, mishaps>>

PublishArtifact(a) ==
    /\ a \in SpecArtifact
    /\ published' = published \cup {a}
    /\ UNCHANGED <<config, saved, artifacts, verdicts, leased, ledger, calls, recorded,
                   spent, mishaps>>

Confirm(what) ==
    /\ what = "approved" => "approval.json" \in artifacts
    /\ what = "reports" => Evidence \subseteq artifacts /\ Evidence # {}
    /\ verdicts' = [verdicts EXCEPT ![what] = TRUE]
    /\ UNCHANGED <<config, saved, artifacts, published, leased, ledger, calls, recorded,
                   spent, mishaps>>

ExpireLease(q) ==
    /\ "lease" \in Fault
    /\ q \in leased
    /\ leased' = leased \ {q}
    /\ mishaps' = mishaps \cup {"lease"}
    /\ UNCHANGED <<config, saved, files, ledger, calls, recorded, spent>>

Continue(p) ==
    \/ ReadLedger(p) \/ TruncateLedger(p) \/ WriteLedger(p)
    \/ ReleaseLease(p) \/ Advance(p) \/ RaiseOnLedger(p)
    \/ Truncate(p) \/ WriteFirst(p) \/ Write(p)

Next ==
    \/ \E p \in Process :
          \/ Start(p)
          \/ Resume(p)
          \/ \E q \in Phase, s \in {"passed", "warning", "failed"},
                envelope \in {"advances", "failed", "blocked"}, tokens \in Tokens :
                   spent + tokens <= MaxTokens /\ MarkDone(p, q, s, envelope, tokens)
          \/ Continue(p)
          \/ Crash(p)
    \/ \E a \in Artifact : WriteArtifact(a) \/ PublishArtifact(a)
    \/ \E what \in {"approved", "reports"} : Confirm(what)
    \/ \E q \in Phase : ExpireLease(q)

Spec == Init /\ [][Next]_vars

-----------------------------------------------------------------------------
(* Properties.                                                             *)

Spawned(q) == saved.file = "whole" /\ saved.next = Action("spawn_subagent", q)

\* Whatever calls, crashes and lost updates came before, the action a reader
\* of state.json finds fits the phases it finds there: an agent is sent to
\* the first phase that is not complete, and "done" is said of a run whose
\* phases are all complete.  Only an exhausted budget, which saves the new
\* phases once beside the old action, may break the tie.
NextFitsPhases ==
    saved.file = "whole" /\ config.budget # "strict"
        => /\ \A q \in Phase : Spawned(q) => q \in Due(saved.phases)
           /\ saved.next.kind = "done" => Due(saved.phases) = {}

\* No agent is told to write code before the user's approval and, in strict
\* TDD, the failing test are there, however stale what the call had loaded.
ApplyUnlocked ==
    Spawned("apply") => ~ApplyBlocked /\ Available("apply")

\* As long as no two calls have overlapped, a phase that a reader of state.json
\* has seen complete is complete for the next reader too, unless a call about
\* that very phase said otherwise; and the next reader finds a file that parses,
\* unless a call died in the middle of writing it.
NoLostCompletion ==
    [][/\ \A q \in recorded \ recorded' :
             "overlap" \in mishaps \/ \E p \in Process : calls[p].phase = q
       /\ saved'.file = "torn"
             => \/ mishaps' \cap {"overlap", "crash"} # {}
                \/ \E p \in Process : calls'[p].step \in {"write", "write_first"}]_vars

\* A ledger that parses never shows more tokens than were charged, and it shows
\* them all, whatever calls overlapped, raised or died half way, unless one of
\* them read it while another was between reading and writing it.  Nothing else
\* but a death in the middle of the writing leaves one that does not parse.
LedgerKeepsAll ==
    IF ledger.file = "torn"
    THEN \/ mishaps \cap {"charge", "crash"} # {}
         \/ \E p \in Process : calls[p].step = "write_ledger"
    ELSE /\ ledger.used <= spent
         /\ "charge" \notin mishaps => ledger.used = spent

\* "Append-only audit trail for agentic phase token spend", which "records what
\* was spent per phase" (agentic/budget.py).  It does not hold when two calls
\* overlap: the ledger is read and rewritten without a lock.
LedgerRecordsSpend == ledger.file = "whole" => ledger.used = spent

\* An agent at work holds the lease of its phase, also when the phase failed
\* and is handed out again, until that lease expires or could not be taken.
SpawnedIsLeased ==
    \A q \in Phase : Spawned(q) /\ mishaps \cap {"overlap", "crash", "lease"} = {}
                        /\ (\A p \in Process : calls[p].step = "idle")
                     => q \in leased

\* "Archive gate - enforces that all phase evidence is present before
\* archiving" (archive_gate.py).  It does not hold for a caller that reports
\* the archive phase with a warning.
ArchivedWithEvidence ==
    Complete(saved.phases["archive"]) => CanArchive
=============================================================================
