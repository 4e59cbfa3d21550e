--------------------------- MODULE RuntimeSession ---------------------------
(***************************************************************************)
(* RuntimeApi (runtime/api.py) over SessionStore (session_store.py): one   *)
(* session, driven by processes that each load session.json, work on a     *)
(* copy of it in memory and write that back.                               *)
(*                                                                         *)
(* A call is split at every write of a file that another call reads.       *)
(* session.json is written through one temporary file that the processes   *)
(* share and whose inode moves to the path: opening, filling and replacing *)
(* are three steps.  run.json of a run that is finished is written the     *)
(* same way, since two calls may finish one run; that of a run just minted *)
(* is written in one step, since only its call knows the run, and so is a  *)
(* checkpoint.  events.jsonl and live-state.json decide nothing and are    *)
(* left out, and so is the legacy flip of resume, since nothing ever       *)
(* pauses a session.                                                       *)
(***************************************************************************)
EXTENDS Naturals

CONSTANTS
    Process,
    Run,        \* ids of runs, each minted once
    File,       \* the files that an apply edits
    Calls,      \* bound on the number of calls
    Durability, \* the settings that runtime.durable_artifacts may have
    None

ASSUME SessionAssumption ==
    None \notin Process \cup Run /\ Calls \in Nat /\ Durability \subseteq BOOLEAN

VARIABLES
    durable,    \* runtime.durable_artifacts
    session,    \* session.json
    tmp,        \* session.json.tmp
    runs,       \* the status in each run.json
    runtmp,     \* and in each run.json.tmp
    manifests,  \* the runs with a manifest.json
    flow,       \* the status in state.json of the linked OC Flow run
    report,     \* the outcome in its inspection-report.json
    workspace,  \* who edited each file last
    pc,
    mine,       \* the session as a call has it in memory
    fd,         \* its write_text of the session: where the open inode is
    runfd,      \* its write_text of the run that it finishes
    run,        \* the run that it executes or finishes
    outcome,    \* how its harness or its inspection has ended
    captured,   \* its checkpoint
    edited,     \* the files it has edited
    linked,     \* whether it names the OC Flow run
    left,       \* calls still to come
    overlaps,   \* history: what two calls have done at the same time
    mishap      \* history: a call died, or its replace found no file

files == <<session, tmp, runs, runtmp, manifests, flow, report, workspace>>
locals == <<mine, runfd, run, outcome, captured, edited, linked>>
vars == <<durable, files, pc, fd, locals, left, overlaps, mishap>>

Status == {"created", "running", "completed", "failed", "archived"}
Saved == [status : Status, active : Run \cup {None}]
Unreadable(s) == [status |-> s, active |-> None]
Content == Saved \cup {Unreadable(s) : s \in {"absent", "empty", "torn"}}
Loadable == {"running", "completed", "failed", "other"}
RunStatus == Loadable \cup {"absent", "empty", "torn"}
Place == {"none", "tmp", "path", "lost", "filled"}
FlowStatus == {"needs_executor", "needs_verification", "blocked", "completed", "empty", "torn"}
Outcome == {"none", "passed", "unverified", "failed", "other"}
Saving == {"save running", "save final", "save archived", "save minted", "save ensured"}
Applying == {"checkpoint", "edit", "register"}
Recording == {"report", "truncate flow", "write flow"}
Location == {"idle", "create run", "work", "finish", "inspect", "ensure", "mint"}
                \cup Saving \cup Applying \cup Recording

(* The type invariant.                                                     *)
TypeOK ==
    /\ durable \in BOOLEAN
    /\ session \in Content /\ tmp \in Content
    /\ runs \in [Run -> RunStatus] /\ runtmp \in [Run -> RunStatus]
    /\ manifests \subseteq Run
    /\ flow \in FlowStatus
    /\ report \in Outcome
    /\ workspace \in [File -> Process \cup {None}]
    /\ pc \in [Process -> Location]
    /\ mine \in [Process -> Saved]
    /\ fd \in [Process -> Place] /\ runfd \in [Process -> Place]
    /\ run \in [Process -> Run \cup {None}]
    /\ outcome \in [Process -> Outcome]
    /\ captured \in [Process -> [File -> Process \cup {None}]]
    /\ edited \in [Process -> SUBSET File]
    /\ linked \in [Process -> BOOLEAN]
    /\ left \in 0..Calls
    /\ overlaps \subseteq {"save", "finish", "record", "apply"}
    /\ mishap \in BOOLEAN

Fresh == [status |-> "created", active |-> None]

(* start_session has created the session; an OC Flow run waits for edits.  *)
Init ==
    /\ durable \in Durability
    /\ session = Fresh /\ tmp = Unreadable("absent")
    /\ runs = [r \in Run |-> "absent"] /\ runtmp = runs
    /\ manifests = {}
    /\ flow = "needs_executor" /\ report = "none"
    /\ workspace = [f \in File |-> None]
    /\ pc = [p \in Process |-> "idle"]
    /\ mine = [p \in Process |-> Fresh]
    /\ fd = [p \in Process |-> "none"] /\ runfd = fd
    /\ run = [p \in Process |-> None]
    /\ outcome = [p \in Process |-> "none"]
    /\ captured = [p \in Process |-> workspace]
    /\ edited = [p \in Process |-> {}]
    /\ linked = [p \in Process |-> FALSE]
    /\ left = Calls
    /\ overlaps = {} /\ mishap = FALSE

-----------------------------------------------------------------------------
Goto(p, where) == pc' = [pc EXCEPT ![p] = where]

(* Forget everything a finished call knew.                                 *)
Forget(p) ==
    /\ mine' = [mine EXCEPT ![p] = Fresh]
    /\ runfd' = [runfd EXCEPT ![p] = "none"]
    /\ run' = [run EXCEPT ![p] = None]
    /\ outcome' = [outcome EXCEPT ![p] = "none"]
    /\ captured' = [captured EXCEPT ![p] = [f \in File |-> None]]
    /\ edited' = [edited EXCEPT ![p] = {}]
    /\ linked' = [linked EXCEPT ![p] = FALSE]

Return(p) == Goto(p, "idle") /\ Forget(p) /\ fd' = [fd EXCEPT ![p] = "none"]

(* Another process is between the same steps.                              *)
Meets(p, S) == \E q \in Process \ {p} : pc[q] \in S

(* Mutant: a session that cannot be parsed is taken as it is.              *)
LoadUnparsed(p, where, s) ==
    /\ pc[p] = "idle" /\ left > 0
    /\ mine' = [mine EXCEPT ![p] = s]
    /\ left' = left - 1
    /\ Goto(p, where)

(* Every call first loads the session; one that cannot be parsed raises.   *)
Load(p, where, s) ==
    /\ pc[p] = "idle" /\ left > 0
    /\ session \in Saved
    /\ mine' = [mine EXCEPT ![p] = s]
    /\ left' = left - 1
    /\ Goto(p, where)

-----------------------------------------------------------------------------
(* Mutant: the text goes to session.json itself.                           *)
OpenPath(p) ==
    /\ pc[p] \in Saving /\ fd[p] = "none"
    /\ session' = Unreadable("empty")
    /\ fd' = [fd EXCEPT ![p] = "path"]
    /\ overlaps' = IF Meets(p, Saving) THEN overlaps \cup {"save"} ELSE overlaps
    /\ UNCHANGED <<durable, tmp, runs, runtmp, manifests, flow, report, workspace, pc, locals,
                   left, mishap>>

(* _atomic_write: write_text opens the temporary file and truncates it,    *)
OpenTmp(p) ==
    /\ pc[p] \in Saving /\ fd[p] = "none"
    /\ tmp' = Unreadable("empty")
    /\ fd' = [fd EXCEPT ![p] = "tmp"]
    /\ overlaps' = IF Meets(p, Saving) THEN overlaps \cup {"save"} ELSE overlaps
    /\ UNCHANGED <<durable, session, runs, runtmp, manifests, flow, report, workspace, pc,
                   locals, left, mishap>>

(* what a text leaves in a file: itself, or a mixture with a longer one    *)
Mixed(old, new) ==
    IF old \in {new, Unreadable("empty")} THEN {new} ELSE {new, Unreadable("torn")}

(* writes its text to the inode it has opened, wherever that is now,       *)
FillTmp(p) ==
    /\ pc[p] \in Saving /\ fd[p] \in {"tmp", "path", "lost"}
    /\ IF fd[p] = "tmp" THEN tmp' \in Mixed(tmp, mine[p]) ELSE UNCHANGED tmp
    /\ IF fd[p] = "path" THEN session' \in Mixed(session, mine[p]) ELSE UNCHANGED session
    /\ fd' = [fd EXCEPT ![p] = "filled"]
    /\ UNCHANGED <<durable, runs, runtmp, manifests, flow, report, workspace, pc, locals, left,
                   overlaps, mishap>>

MixedStatus(old, new) == IF old \in {new, "empty"} THEN {new} ELSE {new, "torn"}

Moved(place) ==
    IF place = "tmp" THEN "path" ELSE IF place = "path" THEN "lost" ELSE place

AfterSave(where) ==
    IF where = "save running" THEN "work"
    ELSE IF where = "save minted" THEN "checkpoint"
    ELSE IF where = "save ensured" THEN "finish" ELSE "idle"

(* and replaces session.json by whatever is at the temporary path now.     *)
Replace(p) ==
    /\ pc[p] \in Saving /\ fd[p] = "filled"
    /\ tmp.status # "absent"
    /\ session' = tmp
    /\ tmp' = Unreadable("absent")
    /\ fd' = [q \in Process |-> IF q = p THEN "none" ELSE Moved(fd[q])]
    /\ Goto(p, AfterSave(pc[p]))
    /\ IF AfterSave(pc[p]) = "idle" THEN Forget(p) ELSE UNCHANGED locals
    /\ UNCHANGED <<durable, runs, runtmp, manifests, flow, report, workspace, left, overlaps,
                   mishap>>

(* Another process has moved it away: FileNotFoundError ends the call.     *)
ReplaceFails(p) ==
    /\ pc[p] \in Saving /\ fd[p] = "filled"
    /\ tmp.status = "absent"
    /\ Return(p)
    /\ mishap' = TRUE
    /\ UNCHANGED <<durable, files, left, overlaps>>

-----------------------------------------------------------------------------
(* run: a call that will execute a workflow.                               *)
StartRun(p) ==
    /\ Load(p, "create run", session)
    /\ UNCHANGED <<durable, files, fd, runfd, run, outcome, captured, edited, linked, overlaps,
                   mishap>>

(* resume with durable artifacts: the manifest of the active run is        *)
(* validated, then the workflow is executed again in a new run.            *)
Resume(p) ==
    /\ durable /\ session.active \in manifests
    /\ Load(p, "create run", session)
    /\ UNCHANGED <<durable, files, fd, runfd, run, outcome, captured, edited, linked, overlaps,
                   mishap>>

(* Mutant: the session names the run before its run.json exists.           *)
CreateRunLate(p) ==
    /\ pc[p] = "create run"
    /\ \E r \in Run :
           /\ runs[r] = "absent"
           /\ mine' = [mine EXCEPT ![p] = [status |-> "running", active |-> r]]
           /\ run' = [run EXCEPT ![p] = r]
    /\ Goto(p, "save running")
    /\ UNCHANGED <<durable, session, tmp, runs, runtmp, manifests, flow, report, workspace, fd,
                   runfd, outcome, captured, edited, linked, left, overlaps, mishap>>

(* _execute_workflow_run: mint a run, then name it in the session.         *)
CreateRun(p) ==
    /\ pc[p] = "create run"
    /\ \E r \in Run :
           /\ runs[r] = "absent"
           /\ runs' = [runs EXCEPT ![r] = "running"]
           /\ mine' = [mine EXCEPT ![p] = [status |-> "running", active |-> r]]
           /\ run' = [run EXCEPT ![p] = r]
    /\ Goto(p, "save running")
    /\ UNCHANGED <<durable, session, tmp, runtmp, manifests, flow, report, workspace, fd, runfd,
                   outcome, captured, edited, linked, left, overlaps, mishap>>

(* Mutant: an exception of the harness is not caught.                      *)
WorkUncaught(p) ==
    /\ pc[p] = "work"
    /\ \E o \in {"passed", "failed", "other"} :
           IF o = "failed" THEN Return(p)
           ELSE /\ outcome' = [outcome EXCEPT ![p] = o]
                /\ Goto(p, "finish")
                /\ UNCHANGED <<mine, fd, runfd, run, captured, edited, linked>>
    /\ UNCHANGED <<durable, files, left, overlaps, mishap>>

(* The harness runs and passes, fails or raises, or ends in another status *)
(* such as blocked or needs_executor.                                      *)
Work(p) ==
    /\ pc[p] = "work"
    /\ \E o \in {"passed", "failed", "other"} : outcome' = [outcome EXCEPT ![p] = o]
    /\ Goto(p, "finish")
    /\ UNCHANGED <<durable, files, mine, fd, runfd, run, captured, edited, linked, left,
                   overlaps, mishap>>

(* _finalize writes the run to its temporary file, which whoever else      *)
(* finishes the run shares,                                                *)
OpenRun(p) ==
    /\ pc[p] = "finish" /\ runfd[p] = "none"
    /\ runtmp' = [runtmp EXCEPT ![run[p]] = "empty"]
    /\ runfd' = [runfd EXCEPT ![p] = "tmp"]
    /\ overlaps' = IF \E q \in Process \ {p} : pc[q] = "finish" /\ run[q] = run[p]
                   THEN overlaps \cup {"finish"} ELSE overlaps
    /\ UNCHANGED <<durable, session, tmp, runs, manifests, flow, report, workspace, pc, fd,
                   mine, run, outcome, captured, edited, linked, left, mishap>>

Ended(o) == IF o = "passed" THEN "completed" ELSE o

FillRun(p) ==
    /\ pc[p] = "finish" /\ runfd[p] \in {"tmp", "path", "lost"}
    /\ IF runfd[p] = "tmp"
       THEN \E t \in MixedStatus(runtmp[run[p]], Ended(outcome[p])) :
                runtmp' = [runtmp EXCEPT ![run[p]] = t]
       ELSE UNCHANGED runtmp
    /\ IF runfd[p] = "path"
       THEN \E t \in MixedStatus(runs[run[p]], Ended(outcome[p])) :
                runs' = [runs EXCEPT ![run[p]] = t]
       ELSE UNCHANGED runs
    /\ runfd' = [runfd EXCEPT ![p] = "filled"]
    /\ UNCHANGED <<durable, session, tmp, manifests, flow, report, workspace, pc, fd, mine, run,
                   outcome, captured, edited, linked, left, overlaps, mishap>>

(* and then the session; whatever is not failed counts as completed.       *)
ReplaceRun(p) ==
    /\ pc[p] = "finish" /\ runfd[p] = "filled"
    /\ runtmp[run[p]] # "absent"
    /\ runs' = [runs EXCEPT ![run[p]] = runtmp[run[p]]]
    /\ runtmp' = [runtmp EXCEPT ![run[p]] = "absent"]
    /\ runfd' = [q \in Process |->
                    IF q = p THEN "none"
                    ELSE IF run[q] = run[p] THEN Moved(runfd[q]) ELSE runfd[q]]
    /\ mine' = [mine EXCEPT ![p].status =
                   IF outcome[p] = "failed" THEN "failed" ELSE "completed"]
    /\ Goto(p, "save final")
    /\ UNCHANGED <<durable, session, tmp, manifests, flow, report, workspace, fd, run, outcome,
                   captured, edited, linked, left, overlaps, mishap>>

(* Whoever else finishes the run has moved its temporary file away.        *)
ReplaceRunFails(p) ==
    /\ pc[p] = "finish" /\ runfd[p] = "filled"
    /\ runtmp[run[p]] = "absent"
    /\ Return(p)
    /\ mishap' = TRUE
    /\ UNCHANGED <<durable, files, left, overlaps>>

(* archive: of any session, also of a running one.                         *)
Archive(p) ==
    /\ Load(p, "save archived", [session EXCEPT !.status = "archived"])
    /\ UNCHANGED <<durable, files, fd, runfd, run, outcome, captured, edited, linked, overlaps,
                   mishap>>

-----------------------------------------------------------------------------
(* The statuses that edits may complete; the fourth, needs_provider, is    *)
(* treated like needs_executor.                                            *)
Completable == {"needs_executor", "needs_verification", "blocked"}

(* apply with kind agent_edits, perhaps for an OC Flow run that waits for  *)
(* them.  A state.json that cannot be parsed raises; another status is     *)
(* rejected.                                                               *)
AgentEdits(p, link) ==
    /\ link => flow \in Completable
    /\ Load(p, "inspect", session)
    /\ linked' = [linked EXCEPT ![p] = link]
    /\ overlaps' = IF link /\ \E q \in Process : linked[q] /\ pc[q] \in {"inspect"} \cup Recording
                   THEN overlaps \cup {"record"} ELSE overlaps
    /\ UNCHANGED <<durable, files, fd, runfd, run, outcome, captured, edited, mishap>>

(* run_local_inspection of the claimed files and their tests.              *)
Inspect(p) ==
    /\ pc[p] = "inspect"
    /\ \E o \in {"passed", "unverified", "failed"} :
           IF linked[p] \/ o = "passed"
           THEN /\ outcome' = [outcome EXCEPT ![p] = o]
                /\ Goto(p, IF linked[p] THEN "report" ELSE "ensure")
                /\ UNCHANGED <<mine, fd, runfd, run, captured, edited, linked>>
           ELSE Return(p)
    /\ UNCHANGED <<durable, files, left, overlaps, mishap>>

(* Mutant: the report is written after state.json, if at all.              *)
ReportLate(p) ==
    /\ pc[p] = "report"
    /\ Goto(p, "truncate flow")
    /\ UNCHANGED <<durable, files, fd, locals, left, overlaps, mishap>>

(* _write_oc_flow_completion: the artifacts first,                         *)
Report(p) ==
    /\ pc[p] = "report"
    /\ report' = outcome[p]
    /\ Goto(p, "truncate flow")
    /\ UNCHANGED <<durable, session, tmp, runs, runtmp, manifests, flow, workspace, fd, locals,
                   left, overlaps, mishap>>

(* then state.json, which is truncated                                     *)
TruncateFlow(p) ==
    /\ pc[p] = "truncate flow"
    /\ flow' = "empty"
    /\ Goto(p, "write flow")
    /\ UNCHANGED <<durable, session, tmp, runs, runtmp, manifests, report, workspace, fd,
                   locals, left, overlaps, mishap>>

Verdict(o) ==
    IF o = "passed" THEN "completed"
    ELSE IF o = "unverified" THEN "needs_verification" ELSE "blocked"

(* and written; only a completed one goes on to finish the session.        *)
WriteFlow(p) ==
    /\ pc[p] = "write flow"
    /\ flow' \in MixedStatus(flow, Verdict(outcome[p]))
    /\ IF outcome[p] = "passed"
       THEN Goto(p, "ensure") /\ UNCHANGED <<fd, locals>>
       ELSE Return(p)
    /\ UNCHANGED <<durable, session, tmp, runs, runtmp, manifests, report, workspace, left,
                   overlaps, mishap>>

(* _ensure_active_run: the edits complete the active run, whoever executes *)
(* it, or a run of their own; a run.json that cannot be parsed raises.     *)
EnsureRun(p) ==
    /\ pc[p] = "ensure"
    /\ LET found == mine[p].active # None /\ runs[mine[p].active] # "absent"
       IN \/ /\ found /\ runs[mine[p].active] \in Loadable
             /\ run' = [run EXCEPT ![p] = mine[p].active]
             /\ Goto(p, "finish")
             /\ UNCHANGED <<runs, fd, mine, runfd, outcome, captured, edited, linked>>
          \/ /\ found /\ runs[mine[p].active] \notin Loadable
             /\ Return(p)
             /\ UNCHANGED runs
          \/ /\ ~found
             /\ \E r \in Run :
                    /\ runs[r] = "absent"
                    /\ runs' = [runs EXCEPT ![r] = "running"]
                    /\ mine' = [mine EXCEPT ![p].active = r]
                    /\ run' = [run EXCEPT ![p] = r]
             /\ Goto(p, "save ensured")
             /\ UNCHANGED <<fd, runfd, outcome, captured, edited, linked>>
    /\ UNCHANGED <<durable, session, tmp, runtmp, manifests, flow, report, workspace, left,
                   overlaps, mishap>>

-----------------------------------------------------------------------------
(* apply with durable artifacts: in the active run or in one of its own.   *)
DurableApply(p) ==
    /\ durable
    /\ Load(p, IF session.active = None THEN "mint" ELSE "checkpoint", session)
    /\ run' = [run EXCEPT ![p] = session.active]
    /\ UNCHANGED <<durable, files, fd, runfd, outcome, captured, edited, linked, overlaps,
                   mishap>>

Mint(p) ==
    /\ pc[p] = "mint"
    /\ \E r \in Run :
           /\ runs[r] = "absent"
           /\ runs' = [runs EXCEPT ![r] = "running"]
           /\ mine' = [mine EXCEPT ![p].active = r]
           /\ run' = [run EXCEPT ![p] = r]
    /\ Goto(p, "save minted")
    /\ UNCHANGED <<durable, session, tmp, runtmp, manifests, flow, report, workspace, fd, runfd,
                   outcome, captured, edited, linked, left, overlaps, mishap>>

(* The files about to change are captured before they are touched.         *)
Checkpoint(p) ==
    /\ pc[p] = "checkpoint"
    /\ captured' = [captured EXCEPT ![p] = workspace]
    /\ overlaps' = IF Meets(p, Applying) THEN overlaps \cup {"apply"} ELSE overlaps
    /\ Goto(p, "edit")
    /\ UNCHANGED <<durable, files, fd, mine, runfd, run, outcome, edited, linked, left, mishap>>

EditFile(p, f) ==
    /\ pc[p] = "edit" /\ f \notin edited[p]
    /\ workspace' = [workspace EXCEPT ![f] = p]
    /\ edited' = [edited EXCEPT ![p] = @ \cup {f}]
    /\ Goto(p, IF edited'[p] = File THEN "register" ELSE "edit")
    /\ UNCHANGED <<durable, session, tmp, runs, runtmp, manifests, flow, report, fd, mine,
                   runfd, run, outcome, captured, linked, left, overlaps, mishap>>

(* Mutant: an exception of the artifact store leaves the edits in place.   *)
ApplyFailsKeeping(p) ==
    /\ pc[p] \in {"edit", "register"}
    /\ workspace' = IF pc[p] = "edit" THEN workspace ELSE captured[p]
    /\ Return(p)
    /\ UNCHANGED <<durable, session, tmp, runs, runtmp, manifests, flow, report, left, overlaps,
                   mishap>>

(* An edit raises, or the artifact store rejects the patch: the checkpoint *)
(* is restored and the call raises.                                        *)
ApplyFails(p) ==
    /\ pc[p] \in {"edit", "register"}
    /\ workspace' = captured[p]
    /\ Return(p)
    /\ UNCHANGED <<durable, session, tmp, runs, runtmp, manifests, flow, report, left, overlaps,
                   mishap>>

(* The patch is registered and the manifest written.                       *)
Register(p) ==
    /\ pc[p] = "register"
    /\ manifests' = manifests \cup {run[p]}
    /\ Return(p)
    /\ UNCHANGED <<durable, session, tmp, runs, runtmp, flow, report, workspace, left, overlaps,
                   mishap>>

(* A process dies in a call; its temporary file stays.                     *)
Crash(p) ==
    /\ pc[p] # "idle"
    /\ Return(p)
    /\ mishap' = TRUE
    /\ UNCHANGED <<durable, files, left, overlaps>>

Save(p) == OpenTmp(p) \/ FillTmp(p) \/ Replace(p) \/ ReplaceFails(p)
Finish(p) == OpenRun(p) \/ FillRun(p) \/ ReplaceRun(p) \/ ReplaceRunFails(p)
Execute(p) == StartRun(p) \/ Resume(p) \/ CreateRun(p) \/ Work(p) \/ Finish(p)
CompleteEdits(p) ==
    \/ \E link \in BOOLEAN : AgentEdits(p, link)
    \/ Inspect(p) \/ Report(p) \/ TruncateFlow(p) \/ WriteFlow(p) \/ EnsureRun(p)
Apply(p) ==
    \/ DurableApply(p) \/ Mint(p) \/ Checkpoint(p) \/ (\E f \in File : EditFile(p, f))
    \/ ApplyFails(p) \/ Register(p)

Next ==
    \E p \in Process :
        Save(p) \/ Execute(p) \/ Archive(p) \/ CompleteEdits(p) \/ Apply(p) \/ Crash(p)

Spec == Init /\ [][Next]_vars

-----------------------------------------------------------------------------
Quiet == \A p \in Process : pc[p] = "idle"

(* A reader never finds half a session, unless two saves of it overlapped. *)
TornOnlyByOverlap == session \notin Saved => "save" \in overlaps

Store == INSTANCE AtomicFile WITH
    Writer <- Process,
    Text <- Content,
    Readable <- Saved,
    Nothing <- Unreadable("absent"),
    text <- session,
    draft <- [p \in Process |-> IF pc[p] \in Saving THEN mine[p] ELSE Unreadable("absent")],
    broken <- "save" \in overlaps

(* SessionStore implements the atomic file: until two saves overlap, every *)
(* text that session.json ever has is one that a call has saved, published *)
(* as the call's save ends; a dead call's temporary file never comes back. *)
ImplementsFile == Store!Spec

(* "All writes are atomic (tmp + replace)" (session_store.py): whatever    *)
(* happens, session.json can be parsed, and so can every run.json.  It     *)
(* does not hold: all writers of a file share its temporary name.          *)
WritesAreAtomic ==
    session \in Saved /\ \A r \in Run : runs[r] \in Loadable \cup {"absent"}

(* The run that a session names as its active one exists and can be        *)
(* loaded, by next, inspect and agent edits, wherever calls have died and  *)
(* whatever other calls have overlapped, unless two calls have finished    *)
(* one run at the same time.                                               *)
ActiveRunLoads ==
    session \in Saved /\ session.active # None =>
        \/ runs[session.active] \in Loadable
        \/ runs[session.active] # "absent" /\ "finish" \in overlaps

(* When all calls have returned, the session says running only if one of   *)
(* them died on the way: no overlap of calls leaves a finished session     *)
(* running.                                                                *)
RunningIsDriven == (Quiet /\ session.status = "running") => mishap

(* A completed OC Flow run has a report of a passed inspection, also after *)
(* a crash, unless two calls worked on it at the same time.                *)
CompletedHasEvidence ==
    flow = "completed" => (report = "passed" \/ "record" \in overlaps)

(* A durable apply edits all its files or none, unless it died or another  *)
(* apply came in between.                                                  *)
AllOrNothing ==
    (\A p \in Process : pc[p] \notin Applying) =>
        \/ \A f, g \in File : workspace[f] = workspace[g]
        \/ mishap \/ "apply" \in overlaps
=============================================================================
