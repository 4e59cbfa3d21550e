------------------------ MODULE HarnessRunnerProofs ------------------------
(***************************************************************************)
(* What a harness run's record is worth, for any order of phases in which  *)
(* apply precedes verify, any files, fix budget and number of runs.        *)
(***************************************************************************)
EXTENDS HarnessRunner, TLAPS

Passed(p) == \E i \in DOMAIN Phases : i < at /\ Phases[i] = p

(* The loop is past a phase that has left a trace, so it will not come to  *)
(* it again; only this run writes while it runs.                           *)
OrderInv ==
    /\ writer <= n
    /\ pc = "phase" =>
           /\ writer = n \/ blocked => Passed("apply")
           /\ verified => Passed("verify")

(* A red verification under an enforcing policy sets terminal, which stays *)
(* set and keeps the status failed until the fix loop makes the tests pass.*)
GateInv ==
    /\ pc \in {"phase", "close"} =>
           /\ (Enforced /\ verified /\ (TestsFail \/ SuiteFails)) => terminal
           /\ terminal => Enforced /\ status = "failed"
    /\ pc \in {"fix", "reverify"} => status = "failed"
    /\ (/\ pc \in {"run.json", "artifacts.json", "events.json"}
        /\ status \in {"passed", "warning"}
        /\ Enforced /\ verified /\ ~unseen) =>
           ("apply" \notin completed => ~TestsFail) /\ ~SuiteFails

(* A refused apply is a hard failure, which nothing softens.               *)
BlockInv ==
    blocked => /\ hard /\ writer # n
               /\ status \in {"failed", "cancelled"}
               /\ pc \notin {"fix", "reverify"}
               /\ ~Succeeded

(* Until the run is over its record is empty; then the artifacts are on    *)
(* disk before the events that speak of them.                              *)
RecordInv ==
    /\ pc \in {"phase", "close", "fix", "reverify", "run.json"} => saved = NoRecord
    /\ pc = "artifacts.json" => saved.events = {}
    /\ pc = "events.json" => saved.artifacts = done
    /\ saved.events \subseteq saved.artifacts

LoopInv ==
    /\ pc \in {"phase", "close"} => loops = 0
    /\ pc \in {"fix", "reverify"} => loops < MaxLoops

Inv ==
    /\ TypeOK /\ OrderInv /\ GateInv /\ BlockInv /\ RecordInv /\ LoopInv
    /\ PassedIsGreen /\ SkippedHasArtifact

-----------------------------------------------------------------------------
(* A phase is scheduled once, apply before verify.                         *)
LEMMA PhasesFacts ==
    /\ Len(Phases) \in Nat /\ DOMAIN Phases = 1..Len(Phases)
    /\ \A i \in DOMAIN Phases : Phases[i] \in Phase
    /\ \A i, j \in DOMAIN Phases : Phases[i] = Phases[j] => i = j
    /\ \A i, j \in DOMAIN Phases : Phases[i] = "apply" /\ Phases[j] = "verify" => i < j
    /\ Tested \subseteq File
    /\ MaxLoops \in Nat /\ MaxRuns \in Nat
BY HarnessAssumption DEF HarnessAssumption, Phase, Range, IsInjective

(* At a phase the loop has not passed it, nor verify if it is apply.       *)
LEMMA NotYet ==
    ASSUME TypeOK, NEW p \in {"apply", "verify"}, Here(p)
    PROVE  /\ ~Passed(p) /\ p \in Phase /\ at \in DOMAIN Phases
           /\ p = "apply" => ~Passed("verify")
BY PhasesFacts DEF TypeOK, Here, Passed

(* What has been passed stays passed when the loop goes on.                *)
LEMMA PassedGrows ==
    ASSUME TypeOK, NEW h, Here(h), Continue \/ Break
    PROVE  /\ at' \in 1..(Len(Phases) + 1) /\ pc' \in {"phase", "close"}
           /\ \A p : Passed(p) => Passed(p)'
           /\ pc' = "phase" => Passed(h)'
<1>1. pc = "phase" /\ at \in 1..Len(Phases) /\ Phases[at] = h /\ at \in DOMAIN Phases
  BY PhasesFacts DEF TypeOK, Here
<1>2. /\ at' \in 1..(Len(Phases) + 1) /\ pc' \in {"phase", "close"}
      /\ at <= at' /\ (pc' = "phase" => at' = at + 1)
  BY <1>1, PhasesFacts DEF Continue, Break
<1>3. ASSUME NEW p, Passed(p)
      PROVE  Passed(p)'
  <2>1. PICK i \in DOMAIN Phases : i < at /\ Phases[i] = p
    BY <1>3 DEF Passed
  <2>2. i \in Nat /\ i < at'
    BY <1>1, <1>2, <2>1, PhasesFacts
  <2> QED
    BY <2>1, <2>2 DEF Passed
<1>4. ASSUME pc' = "phase"
      PROVE  Passed(h)'
  <2>1. at < at'
    BY <1>1, <1>2, <1>4, PhasesFacts
  <2> QED
    BY <1>1, <2>1 DEF Passed
<1> QED
  BY <1>2, <1>3, <1>4

(* A phase's result cannot soften a terminal gate or a hard failure.       *)
LEMMA AbsorbFacts ==
    ASSUME TypeOK, GateInv, NEW p \in Phase, Here(p),
           NEW gate \in BOOLEAN, NEW result \in {"passed", "warning", "failed"},
           NEW stop \in BOOLEAN, Absorb(p, gate, result, stop)
    PROVE  /\ status' \in Status /\ hard' \in BOOLEAN /\ terminal' \in BOOLEAN
           /\ failing' \in BOOLEAN /\ done' \subseteq Phase
           /\ Continue \/ Break
           /\ terminal => terminal'
           /\ (gate /\ Enforced /\ p \in {"apply", "verify"}) => terminal'
           /\ terminal' => Enforced /\ status' = "failed"
           /\ hard => hard'
           /\ (hard /\ status \in {"failed", "cancelled"}) => status' \in {"failed", "cancelled"}
<1> DEFINE kills == gate /\ Enforced
           sticky == hard \/ terminal \/ (kills /\ p \in {"apply", "verify"})
           final == result = "failed" /\ (config.strict \/ stop)
<1>1. /\ terminal' = (terminal \/ (kills /\ p \in {"apply", "verify"}))
      /\ failing' = (failing \/ (gate /\ p = "verify"))
      /\ hard' = (hard \/ final)
      /\ status' = IF final THEN "failed"
                   ELSE IF result # "passed" /\ ~sticky THEN "warning"
                   ELSE IF kills THEN "failed"
                   ELSE IF gate /\ ~hard THEN "warning" ELSE status
      /\ done' = IF result = "failed" THEN done ELSE done \cup {p}
      /\ IF final THEN Break ELSE Continue
  BY DEF Absorb
<1>2. /\ terminal => Enforced /\ status = "failed"
      /\ status \in Status /\ done \subseteq Phase
  BY DEF GateInv, Here, TypeOK
<1>3. status' \in Status /\ hard' \in BOOLEAN /\ terminal' \in BOOLEAN /\ failing' \in BOOLEAN
  BY <1>1, <1>2 DEF Status
<1>4. done' \subseteq Phase
  BY <1>1, <1>2
<1>5. terminal' => Enforced /\ status' = "failed"
  BY <1>1, <1>2
<1> QED
  BY <1>1, <1>3, <1>4, <1>5

-----------------------------------------------------------------------------
(* Init and the start of a run.                                            *)
LEMMA NoRecordType ==
    NoRecord \in [status : Status \cup {"absent"}, artifacts : SUBSET Phase,
                  events : SUBSET Phase]
BY DEF NoRecord

LEMMA InitInv == ASSUME Init PROVE Inv
<1>1. TypeOK
  <2>1. at \in 1..(Len(Phases) + 1) /\ writer \in 0..MaxRuns /\ n \in 0..MaxRuns
        /\ loops \in 0..MaxLoops
    BY PhasesFacts DEF Init
  <2> QED
    BY <2>1, NoRecordType DEF Init, TypeOK, Status
<1>2. OrderInv /\ GateInv /\ BlockInv /\ RecordInv /\ LoopInv
  BY DEF Init, OrderInv, GateInv, BlockInv, RecordInv, LoopInv, NoRecord
<1>3. PassedIsGreen /\ SkippedHasArtifact
  BY DEF Init, PassedIsGreen, SkippedHasArtifact, Succeeded, NoRecord
<1> QED
  BY <1>1, <1>2, <1>3 DEF Inv

LEMMA StartStep ==
    ASSUME Inv, NEW resume \in BOOLEAN, NEW given \in SUBSET File, Start(resume, given)
    PROVE  Inv'
<1> USE DEF Inv
<1>1. TypeOK'
  <2>1. at' \in 1..(Len(Phases) + 1) /\ n' \in 0..MaxRuns /\ loops' \in 0..MaxLoops
    BY PhasesFacts DEF Start, TypeOK
  <2>2. saved' = NoRecord /\ UNCHANGED <<broken, writer>>
    BY DEF Start, world
  <2>3. completed' \subseteq Phase /\ carried' \subseteq completed'
    BY DEF Start, TypeOK, CompletedPhases, PassedPhaseArtifacts
  <2>4. config' \in Config /\ edits' \subseteq File /\ seen' \subseteq Tested
        /\ done' \subseteq Phase /\ status' \in Status
    BY DEF Start, Status
  <2> QED
    BY <2>1, <2>2, <2>3, <2>4, NoRecordType DEF Start, TypeOK
<1>2. OrderInv' /\ GateInv' /\ LoopInv'
  BY PhasesFacts DEF Start, TypeOK, OrderInv, GateInv, LoopInv, world
<1>3. BlockInv' /\ RecordInv'
  BY DEF Start, BlockInv, RecordInv, NoRecord
<1>4. PassedIsGreen'
  BY DEF Start, PassedIsGreen, Succeeded, NoRecord
<1>5. SkippedHasArtifact'
  BY DEF Start, SkippedHasArtifact, RecordInv, CompletedPhases, PassedPhaseArtifacts, TypeOK
<1> QED
  BY <1>1, <1>2, <1>3, <1>4, <1>5

-----------------------------------------------------------------------------
(* The phases that neither write nor verify.                               *)
LEMMA QuietStep ==
    ASSUME Inv, pc = "phase", saved' = saved, UNCHANGED <<world, prior, edits, loops, history>>,
           NEW h, Here(h), Continue \/ Break,
           blocked' \in BOOLEAN, planned' \in BOOLEAN, status' \in Status,
           hard' \in BOOLEAN, terminal' \in BOOLEAN, failing' \in BOOLEAN, done' \subseteq Phase,
           terminal => terminal', terminal' => Enforced /\ status' = "failed",
           blocked' => /\ hard' /\ status' \in {"failed", "cancelled"}
                       /\ (blocked \/ h = "apply")
    PROVE  Inv'
<1> USE DEF Inv
<1>1. /\ at' \in 1..(Len(Phases) + 1) /\ pc' \in {"phase", "close"}
      /\ \A p : Passed(p) => Passed(p)'
      /\ pc' = "phase" => Passed(h)'
  BY PassedGrows
<1>2. TypeOK'
  BY <1>1 DEF TypeOK, world, prior, history
<1>3. OrderInv'
  BY <1>1 DEF OrderInv, world, prior, history
<1>4. GateInv'
  BY <1>1 DEF GateInv, TestsFail, SuiteFails, Enforced, world, prior, history
<1>5. writer # n \/ ~blocked'
  BY NotYet DEF OrderInv, BlockInv
<1>6. BlockInv'
  BY <1>1, <1>5 DEF BlockInv, RecordInv, Succeeded, NoRecord, world, prior
<1>7. RecordInv' /\ LoopInv'
  BY <1>1 DEF RecordInv, LoopInv, NoRecord
<1>8. PassedIsGreen' /\ SkippedHasArtifact'
  BY DEF PassedIsGreen, SkippedHasArtifact, RecordInv, Succeeded, NoRecord, prior
<1> QED
  BY <1>2, <1>3, <1>4, <1>6, <1>7, <1>8

LEMMA SkipStep == ASSUME Inv, Skip PROVE Inv'
<1>1. PICK p \in completed : Here(p)
  BY DEF Skip
<1> QED
  BY <1>1, QuietStep DEF Skip, Inv, TypeOK, GateInv, BlockInv, Here, gates, world, prior, history

LEMMA LowConfidenceStep ==
    ASSUME Inv, NEW p \in Phase, LowConfidence(p) PROVE Inv'
BY QuietStep DEF LowConfidence, Due, Inv, TypeOK, Status, GateInv, BlockInv, Here, world, prior, history

LEMMA PrivacyStopStep ==
    ASSUME Inv, NEW p \in Phase, PrivacyStop(p) PROVE Inv'
BY QuietStep DEF PrivacyStop, Due, Inv, TypeOK, Status, GateInv, BlockInv, Here, world, prior, history

LEMMA BlockApplyStep == ASSUME Inv, BlockApply PROVE Inv'
BY QuietStep
   DEF BlockApply, Admitted, Due, Inv, TypeOK, Status, GateInv, Here, world, prior, history

LEMMA RunPhaseStep == ASSUME Inv, NEW p \in Phase, RunPhase(p) PROVE Inv'
<1>1. PICK gate \in BOOLEAN, stop \in BOOLEAN, result \in {"passed", "warning", "failed"} :
          Absorb(p, gate, result, stop)
  BY DEF RunPhase
<1>2. Here(p) /\ pc = "phase"
  BY DEF RunPhase, Admitted, Due, Here
<1>3. /\ status' \in Status /\ hard' \in BOOLEAN /\ terminal' \in BOOLEAN
      /\ failing' \in BOOLEAN /\ done' \subseteq Phase
      /\ Continue \/ Break
      /\ terminal => terminal'
      /\ terminal' => Enforced /\ status' = "failed"
      /\ hard => hard'
      /\ (hard /\ status \in {"failed", "cancelled"}) => status' \in {"failed", "cancelled"}
  BY <1>1, <1>2, AbsorbFacts DEF Inv
<1> QED
  BY <1>2, <1>3, QuietStep
     DEF RunPhase, Inv, TypeOK, BlockInv, world, prior, history

-----------------------------------------------------------------------------
(* apply writes before this run has verified, and never once refused.      *)
LEMMA ApplyStep == ASSUME Inv, Apply PROVE Inv'
<1> USE DEF Inv
<1>1. /\ Here("apply") /\ pc = "phase" /\ "apply" \in Phase
      /\ saved' = saved /\ edits' \subseteq File /\ planned' \in BOOLEAN
      /\ UNCHANGED <<prior, blocked, loops, history>>
      /\ broken' \subseteq Tested /\ writer' \in {n, writer}
  <2>1. Here("apply")
    BY DEF Apply, Admitted, Due
  <2>2. edits' \subseteq File
    BY DEF Apply, ApplyEdits, TypeOK
  <2>3. planned' \in BOOLEAN
    BY DEF Apply
  <2>4. broken' \subseteq Tested /\ writer' \in {n, writer}
    BY DEF Apply, Written, NothingWritten, world, TypeOK
  <2> QED
    BY <2>1, <2>2, <2>3, <2>4, NotYet DEF Here, Apply
<1>2. PICK gate \in BOOLEAN, result \in {"passed", "failed"} :
          Absorb("apply", gate, result, FALSE)
  BY DEF Apply
<1>3. /\ status' \in Status /\ hard' \in BOOLEAN /\ terminal' \in BOOLEAN
      /\ failing' \in BOOLEAN /\ done' \subseteq Phase
      /\ Continue \/ Break
      /\ terminal' => Enforced /\ status' = "failed"
      /\ hard => hard'
      /\ (hard /\ status \in {"failed", "cancelled"}) => status' \in {"failed", "cancelled"}
  BY <1>1, <1>2, AbsorbFacts
<1>4. /\ at' \in 1..(Len(Phases) + 1) /\ pc' \in {"phase", "close"}
      /\ pc' = "phase" => Passed("apply")'
  BY <1>1, <1>3, PassedGrows
<1>5. ~blocked /\ ~verified /\ writer <= n
  BY <1>1, NotYet DEF OrderInv
<1>6. TypeOK'
  BY <1>1, <1>3, <1>4 DEF TypeOK, prior, history
<1>7. OrderInv' /\ BlockInv'
  BY <1>1, <1>4, <1>5 DEF OrderInv, BlockInv, prior, history, TypeOK
<1>8. GateInv'
  BY <1>1, <1>3, <1>4, <1>5 DEF GateInv, Enforced, prior, history
<1>9. RecordInv' /\ LoopInv'
  BY <1>1, <1>4 DEF RecordInv, LoopInv, NoRecord
<1>10. PassedIsGreen' /\ SkippedHasArtifact'
  BY <1>1 DEF PassedIsGreen, SkippedHasArtifact, RecordInv, Succeeded, NoRecord, prior
<1> QED
  BY <1>6, <1>7, <1>8, <1>9, <1>10

(* A failure of verify becomes terminal under an enforcing policy.         *)
LEMMA VerifyStep == ASSUME Inv, Verify PROVE Inv'
<1> USE DEF Inv
<1>1. /\ Here("verify") /\ pc = "phase" /\ "verify" \in Phase
      /\ saved' = saved /\ verified' = TRUE
      /\ UNCHANGED <<world, prior, blocked, planned, edits, loops, unseen>>
      /\ seen' \subseteq Tested
  <2>1. Here("verify")
    BY DEF Verify, Admitted, Due
  <2>2. seen' \subseteq Tested
    BY DEF Verify, TypeOK
  <2> QED
    BY <2>1, <2>2, NotYet DEF Here, Verify
<1>2. PICK own \in BOOLEAN, declared \in BOOLEAN, result \in {"passed", "warning", "failed"} :
          /\ TestsFail => own
          /\ SuiteFails => declared
          /\ Absorb("verify", own \/ declared, result, FALSE)
  BY DEF Verify
<1>3. PICK gate \in BOOLEAN : /\ TestsFail \/ SuiteFails => gate
                              /\ Absorb("verify", gate, result, FALSE)
  BY <1>2
<1>4. /\ status' \in Status /\ hard' \in BOOLEAN /\ terminal' \in BOOLEAN
      /\ failing' \in BOOLEAN /\ done' \subseteq Phase
      /\ Continue \/ Break
      /\ (gate /\ Enforced) => terminal'
      /\ terminal' => Enforced /\ status' = "failed"
      /\ hard => hard'
      /\ (hard /\ status \in {"failed", "cancelled"}) => status' \in {"failed", "cancelled"}
  BY <1>1, <1>3, AbsorbFacts
<1>5. /\ at' \in 1..(Len(Phases) + 1) /\ pc' \in {"phase", "close"}
      /\ \A p : Passed(p) => Passed(p)'
      /\ pc' = "phase" => Passed("verify")'
  BY <1>1, <1>4, PassedGrows
<1>6. TypeOK'
  BY <1>1, <1>4, <1>5 DEF TypeOK, world, prior
<1>7. OrderInv'
  BY <1>1, <1>5 DEF OrderInv, world, prior
<1>8. BlockInv'
  BY <1>1, <1>4, <1>5 DEF BlockInv, Succeeded, world, prior
<1>9. GateInv'
  BY <1>1, <1>3, <1>4, <1>5 DEF GateInv, TestsFail, SuiteFails, Enforced, world, prior
<1>10. RecordInv' /\ LoopInv'
  BY <1>1, <1>5 DEF RecordInv, LoopInv, NoRecord
<1>11. PassedIsGreen' /\ SkippedHasArtifact'
  BY <1>1 DEF PassedIsGreen, SkippedHasArtifact, RecordInv, Succeeded, NoRecord, prior
<1> QED
  BY <1>6, <1>7, <1>8, <1>9, <1>10, <1>11

-----------------------------------------------------------------------------
(* The fix loop.                                                           *)
LEMMA CloseStep == ASSUME Inv, Close PROVE Inv'
<1> USE DEF Inv
<1>1. /\ pc = "close" /\ pc' \in {"fix", "run.json"}
      /\ status' \in Status
      /\ status' # status => status \in {"passed", "warning"} /\ status' = "not_applied"
      /\ pc' = "fix" => status = "failed" /\ ~blocked /\ 0 < MaxLoops
      /\ UNCHANGED <<world, prior, at, hard, terminal, failing, blocked, planned, edits, loops,
                     done, saved, history>>
  BY PhasesFacts DEF Close, MayFix, TypeOK, Status
<1>2. TypeOK' /\ OrderInv'
  BY <1>1 DEF TypeOK, OrderInv, world, prior, history
<1>3. GateInv'
  BY <1>1 DEF GateInv, TestsFail, SuiteFails, Enforced, world, prior, history
<1>4. BlockInv'
  BY <1>1 DEF BlockInv, Succeeded, world, prior
<1>5. RecordInv' /\ LoopInv'
  BY <1>1 DEF RecordInv, LoopInv, NoRecord
<1>6. PassedIsGreen' /\ SkippedHasArtifact'
  BY <1>1 DEF PassedIsGreen, SkippedHasArtifact, RecordInv, Succeeded, NoRecord, prior
<1> QED
  BY <1>2, <1>3, <1>4, <1>5, <1>6

LEMMA ReapplyStep == ASSUME Inv, Reapply PROVE Inv'
<1> USE DEF Inv
<1>1. /\ pc = "fix" /\ pc' = "reverify"
      /\ UNCHANGED <<prior, at, gates, blocked, planned, loops, done, saved, history>>
      /\ edits' \subseteq File /\ broken' \subseteq Tested /\ writer' \in {n, writer}
  BY DEF Reapply, Written, NothingWritten, world, TypeOK
<1>2. TypeOK' /\ OrderInv'
  BY <1>1 DEF TypeOK, OrderInv, prior, gates, history
<1>3. GateInv' /\ BlockInv'
  BY <1>1 DEF GateInv, BlockInv, gates
<1>4. RecordInv' /\ LoopInv'
  BY <1>1 DEF RecordInv, LoopInv, NoRecord
<1>5. PassedIsGreen' /\ SkippedHasArtifact'
  BY <1>1 DEF PassedIsGreen, SkippedHasArtifact, RecordInv, Succeeded, NoRecord, prior
<1> QED
  BY <1>2, <1>3, <1>4, <1>5

LEMMA ReverifyStep == ASSUME Inv, Reverify PROVE Inv'
<1> USE DEF Inv
<1>1. /\ pc = "reverify" /\ pc' \in {"fix", "run.json"}
      /\ loops' = loops + 1 /\ (pc' = "fix" => loops' < MaxLoops)
      /\ UNCHANGED <<world, prior, at, hard, terminal, blocked, planned, edits, done, saved>>
      /\ verified' = TRUE
  BY DEF Reverify
<1>2. PICK tests \in BOOLEAN, declared \in BOOLEAN, raised \in BOOLEAN :
          /\ (TestsFail /\ ~raised) => tests
          /\ SuiteFails => declared
          /\ failing' = (tests \/ declared)
          /\ unseen' = (unseen \/ raised)
          /\ seen' = IF raised THEN seen ELSE seen \cup (edits \cap broken)
  BY DEF Reverify
<1>3. failing' \in BOOLEAN /\ unseen' \in BOOLEAN /\ seen' \subseteq Tested
  BY <1>2 DEF TypeOK
<1>4. /\ failing' => status' = status
      /\ ~failing' => status' \in {"passed", "warning"} /\ pc' = "run.json"
  BY DEF Reverify
<1>5. status' \in Status /\ status = "failed" /\ ~blocked
  BY <1>3, <1>4, <1>1 DEF TypeOK, Status, GateInv, BlockInv
<1>6. TypeOK'
  BY <1>1, <1>3, <1>5, PhasesFacts DEF TypeOK, LoopInv, world, prior
<1>7. OrderInv' /\ BlockInv'
  BY <1>1, <1>5 DEF OrderInv, BlockInv, world, prior
<1>8. GateInv'
  <2>1. ASSUME ~failing', ~unseen'
        PROVE  ~TestsFail /\ ~SuiteFails
    BY <1>2, <2>1
  <2> QED
    BY <1>1, <1>4, <1>5, <2>1 DEF GateInv, TestsFail, SuiteFails, world, prior
<1>9. RecordInv' /\ LoopInv'
  BY <1>1 DEF RecordInv, LoopInv, NoRecord
<1>10. PassedIsGreen' /\ SkippedHasArtifact'
  BY <1>1 DEF PassedIsGreen, SkippedHasArtifact, RecordInv, Succeeded, NoRecord, prior
<1> QED
  BY <1>6, <1>7, <1>8, <1>9, <1>10

-----------------------------------------------------------------------------
(* The record, and the end of the process.                                 *)
LEMMA PersistStep == ASSUME Inv, Persist PROVE Inv'
<1> USE DEF Inv
<1>1. /\ pc \in {"run.json", "artifacts.json", "events.json"}
      /\ UNCHANGED <<world, prior, at, gates, blocked, planned, edits, loops, done, history>>
      /\ pc' = NextFile(pc)
  BY DEF Persist
<1>2. /\ pc = "run.json" => saved' = [saved EXCEPT !.status = status] /\ pc' = "artifacts.json"
      /\ pc = "artifacts.json" => saved' = [saved EXCEPT !.artifacts = done] /\ pc' = "events.json"
      /\ pc = "events.json" => saved' = [saved EXCEPT !.events = done] /\ pc' = "idle"
  BY <1>1 DEF Persist, NextFile
<1>3. TypeOK'
  <2>1. saved' \in [status : Status \cup {"absent"}, artifacts : SUBSET Phase,
                    events : SUBSET Phase]
    BY <1>1, <1>2 DEF TypeOK
  <2> QED
    BY <1>1, <1>2, <2>1 DEF TypeOK, world, prior, gates, history
<1>4. OrderInv' /\ LoopInv'
  BY <1>1, <1>2 DEF OrderInv, LoopInv, world, prior
<1>5. GateInv'
  BY <1>1, <1>2 DEF GateInv, TestsFail, SuiteFails, Enforced, world, prior, gates, history
<1>6. BlockInv'
  BY <1>1, <1>2 DEF BlockInv, Succeeded, TypeOK, world, prior, gates
<1>7. RecordInv'
  BY <1>1, <1>2 DEF RecordInv, NoRecord, TypeOK
<1>8. PassedIsGreen'
  BY <1>1, <1>2
     DEF PassedIsGreen, Succeeded, GateInv, TestsFail, SuiteFails, Enforced, TypeOK, world, prior,
         gates, history
<1>9. SkippedHasArtifact'
  BY <1>1 DEF SkippedHasArtifact, prior
<1> QED
  BY <1>3, <1>4, <1>5, <1>6, <1>7, <1>8, <1>9

(* A run that dies while it writes had no record, and was not refused.     *)
LEMMA StopStep ==
    ASSUME Inv, Stop, Stopped, status' \in {status, "cancelled"},
           saved' \in {saved, [saved EXCEPT !.status = "cancelled"]}
    PROVE  Inv'
<1> USE DEF Inv
<1>1. /\ pc # "idle" /\ pc' = "idle"
      /\ UNCHANGED <<prior, at, hard, terminal, failing, blocked, planned, edits, loops, done,
                     history>>
      /\ broken' \subseteq Tested /\ writer' \in {n, writer}
  BY DEF Stop, Stopped, Written, NothingWritten, world, TypeOK
<1>2. \/ UNCHANGED <<broken, writer>>
      \/ ~blocked /\ saved = NoRecord
  <2>1. CASE NothingWritten
    BY <2>1 DEF NothingWritten, world
  <2>2. CASE pc = "fix"
    BY <2>2 DEF BlockInv, RecordInv
  <2>3. CASE Admitted("apply")
    <3>1. Here("apply")
      BY <2>3 DEF Admitted, Due
    <3> QED
      BY <3>1, NotYet DEF Here, OrderInv, RecordInv
  <2> QED
    BY <2>1, <2>2, <2>3 DEF Stop
<1>3. /\ saved' \in [status : Status \cup {"absent"}, artifacts : SUBSET Phase,
                     events : SUBSET Phase]
      /\ saved'.status \in {saved.status, "cancelled"}
      /\ saved'.artifacts = saved.artifacts /\ saved'.events = saved.events
  BY DEF TypeOK, Status
<1>4. TypeOK'
  BY <1>1, <1>3 DEF TypeOK, Status, prior, history
<1>5. OrderInv' /\ GateInv' /\ LoopInv'
  BY <1>1 DEF OrderInv, GateInv, LoopInv, prior, TypeOK
<1>6. BlockInv'
  BY <1>1, <1>2, <1>3 DEF BlockInv, Succeeded, prior
<1>7. RecordInv'
  BY <1>1, <1>3 DEF RecordInv
<1>8. PassedIsGreen'
  BY <1>1, <1>2, <1>3
     DEF PassedIsGreen, Succeeded, TestsFail, SuiteFails, Enforced, NoRecord, prior, history
<1>9. SkippedHasArtifact'
  BY <1>1 DEF SkippedHasArtifact, prior
<1> QED
  BY <1>4, <1>5, <1>6, <1>7, <1>8, <1>9

LEMMA StutterStep == ASSUME Inv, UNCHANGED vars PROVE Inv'
BY DEF vars, Inv, TypeOK, OrderInv, Passed, GateInv, BlockInv, RecordInv, LoopInv, PassedIsGreen,
       SkippedHasArtifact, Succeeded, TestsFail, SuiteFails, Enforced

LEMMA NextStep == ASSUME Inv, [Next]_vars PROVE Inv'
<1>1. CASE \E resume \in BOOLEAN, given \in SUBSET File : Start(resume, given)
  BY <1>1, StartStep
<1>2. CASE Skip
  BY <1>2, SkipStep
<1>3. CASE \E p \in Phase : LowConfidence(p) \/ PrivacyStop(p) \/ RunPhase(p)
  BY <1>3, LowConfidenceStep, PrivacyStopStep, RunPhaseStep
<1>4. CASE BlockApply \/ Apply \/ Verify
  BY <1>4, BlockApplyStep, ApplyStep, VerifyStep
<1>5. CASE Close \/ Reapply \/ Reverify
  BY <1>5, CloseStep, ReapplyStep, ReverifyStep
<1>6. CASE Persist
  BY <1>6, PersistStep
<1>7. CASE Crash
  BY <1>7, StopStep DEF Crash
<1>8. CASE Interrupt
  BY <1>8, StopStep DEF Interrupt
<1>9. CASE UNCHANGED vars
  BY <1>9, StutterStep
<1> QED
  BY <1>1, <1>2, <1>3, <1>4, <1>5, <1>6, <1>7, <1>8, <1>9 DEF Next

THEOREM Invariance == Spec => []Inv
<1>1. Init => Inv
  BY InitInv
<1>2. Inv /\ [Next]_vars => Inv'
  BY NextStep
<1> QED
  BY <1>1, <1>2, PTL DEF Spec

(* The variables keep their types in every reachable state.                *)
THEOREM TypeCorrect == Spec => []TypeOK
<1>1. Inv => TypeOK
  BY DEF Inv
<1> QED
  BY <1>1, Invariance, PTL

(* A record of success after an enforced verification is true of the       *)
(* workspace, unless a test run of the fix loop raised: no test at all     *)
(* fails in strict TDD mode, and no test of the last edits in a run that   *)
(* has not taken its apply over.                                           *)
THEOREM SuccessIsGreen == Spec => []PassedIsGreen
<1>1. Inv => PassedIsGreen
  BY DEF Inv
<1> QED
  BY <1>1, Invariance, PTL

(* Once apply has been refused the run writes nothing more, in no phase    *)
(* and in no round of the fix loop, and its record never says success.     *)
THEOREM RefusalIsFinal == Spec => []BlockedApplyWritesNothing
<1>1. Inv => BlockedApplyWritesNothing
  BY DEF Inv, BlockInv, BlockedApplyWritesNothing
<1> QED
  BY <1>1, Invariance, PTL

(* What a resumed run skips has left its artifacts, wherever the process   *)
(* died before.                                                            *)
THEOREM ResumeFindsArtifacts == Spec => []SkippedHasArtifact
<1>1. Inv => SkippedHasArtifact
  BY DEF Inv
<1> QED
  BY <1>1, Invariance, PTL
=============================================================================
