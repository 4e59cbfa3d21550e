----------------------- MODULE RuntimeSessionProofs -----------------------
(***************************************************************************)
(* What session.json, the runs, the linked OC Flow run and the workspace   *)
(* of a session are worth, for any number of processes, runs, files and    *)
(* calls.                                                                  *)
(***************************************************************************)
EXTENDS RuntimeSession, TLAPS

Running == {"save minted", "save running", "work", "save ensured", "finish"}

(* The outcome of a call is known where it is recorded, and so is the run  *)
(* that it executes, finishes or applies to.                               *)
OutcomeInv ==
    \A p \in Process :
        /\ pc[p] = "finish" => outcome[p] \in {"passed", "failed", "other"}
        /\ pc[p] \in {"ensure", "save ensured"} => outcome[p] = "passed"
        /\ pc[p] \in Applying \cup Running => run[p] \in Run

(* Without overlap, one call at a time has the temporary file open, and    *)
(* what is in it is the text of that call.                                 *)
SaveInv ==
    /\ \A p \in Process : fd[p] # "none" => pc[p] \in Saving
    /\ "save" \notin overlaps =>
           /\ session \in Saved
           /\ \A p, q \in Process : fd[p] # "none" /\ fd[q] # "none" => p = q
           /\ \A p \in Process :
                  /\ fd[p] \in {"none", "tmp", "filled"}
                  /\ fd[p] = "tmp" => tmp = Unreadable("empty")
                  /\ fd[p] = "filled" => tmp = mine[p]

(* A run is minted before any copy of the session names it.                *)
Exists(s) == s.active # None => runs[s.active] # "absent"

ExistInv == Exists(session) /\ Exists(tmp) /\ \A p \in Process : Exists(mine[p])

(* Unless two calls finish one run at the same time, one call at a time    *)
(* has its temporary file open, what is in it is the end that this call    *)
(* records, and every run.json can be loaded.                              *)
FinishInv ==
    /\ \A p \in Process : runfd[p] # "none" => pc[p] = "finish"
    /\ "finish" \notin overlaps =>
           /\ \A r \in Run : runs[r] \in Loadable \cup {"absent"}
           /\ \A p, q \in Process :
                  runfd[p] # "none" /\ runfd[q] # "none" /\ run[p] = run[q] => p = q
           /\ \A p \in Process :
                  /\ runfd[p] \in {"none", "tmp", "filled"}
                  /\ runfd[p] = "tmp" => runtmp[run[p]] = "empty"
                  /\ runfd[p] = "filled" => runtmp[run[p]] = Ended(outcome[p])

(* A copy that says running names a run; it is on its way to the disk only *)
(* while its call is there to take it back.                                *)
Named(s) == s.status = "running" => s.active # None

Driving == {"save running", "work", "finish", "save final"}

DrivenInv ==
    /\ Named(session) /\ Named(tmp)
    /\ \A p \in Process :
           /\ Named(mine[p])
           /\ pc[p] \in Saving \ {"save running"} => mine[p].status # "running"
           /\ pc[p] = "mint" => mine[p].active = None
    /\ ~mishap =>
           /\ tmp.status = "running" =>
                  \E p \in Process : pc[p] = "save running" /\ fd[p] = "filled"
           /\ session.status = "running" => \E p \in Process : pc[p] \in Driving

(* A call that works on the OC Flow run, from the look at its status on.   *)
Records(p) == linked[p] /\ pc[p] \in {"inspect"} \cup Recording

EvidenceInv ==
    /\ \A p \in Process : pc[p] \in Recording => linked[p]
    /\ "record" \notin overlaps =>
           /\ \A p, q \in Process : Records(p) /\ Records(q) => p = q
           /\ \A p \in Process : Records(p) =>
                  /\ pc[p] = "write flow" => flow = "empty"
                  /\ pc[p] # "write flow" => flow \in Completable
                  /\ pc[p] \in {"truncate flow", "write flow"} => report = outcome[p]
           /\ flow = "completed" => report = "passed"

(* An apply that has its checkpoint; the workspace is that checkpoint but  *)
(* for the files it has edited.                                            *)
Edits(p) == pc[p] \in {"edit", "register"}

Uniform(w) == \A f, g \in File : w[f] = w[g]

WorkspaceInv ==
    /\ \A p \in Process : ~Edits(p) => edited[p] = {}
    /\ ~mishap /\ "apply" \notin overlaps =>
           /\ \A p, q \in Process : Edits(p) /\ Edits(q) => p = q
           /\ (\A p \in Process : ~Edits(p)) => Uniform(workspace)
           /\ \A p \in Process : Edits(p) =>
                  /\ Uniform(captured[p])
                  /\ \A f \in File :
                         workspace[f] = IF f \in edited[p] THEN p ELSE captured[p][f]
                  /\ pc[p] = "register" => edited[p] = File

-----------------------------------------------------------------------------
(* What the steps of p make of its own variables; those of the other       *)
(* processes stay, but for the open inodes that Replace moves.             *)
Rest(p) ==
    \A q \in Process : q # p =>
        /\ pc'[q] = pc[q] /\ mine'[q] = mine[q] /\ run'[q] = run[q] /\ outcome'[q] = outcome[q]
        /\ captured'[q] = captured[q] /\ edited'[q] = edited[q] /\ linked'[q] = linked[q]

LEMMA FreshSaved == Fresh \in Saved /\ Fresh.status = "created" /\ Fresh.active = None
BY DEF Fresh, Saved, Status

LEMMA SavedFields ==
    /\ \A s \in Saved : s.status \in Status /\ s.active \in Run \cup {None}
    /\ \A s \in Content : s.active \in Run \cup {None}
    /\ \A s \in Content : s.status \in Status \cup {"absent", "empty", "torn"}
    /\ \A s \in {"absent", "empty", "torn"} :
           /\ Unreadable(s) \in Content /\ Unreadable(s) \notin Saved
           /\ Unreadable(s).status = s /\ Unreadable(s).active = None
    /\ Saved \subseteq Content
<1>1. \A s \in {"absent", "empty", "torn"} :
          /\ Unreadable(s) \in Content
          /\ Unreadable(s).status = s /\ Unreadable(s).active = None
  BY DEF Unreadable, Content
<1>2. \A s \in Saved : s.status \in Status /\ s.active \in Run \cup {None}
  BY DEF Saved
<1>3. \A s \in {"absent", "empty", "torn"} : Unreadable(s) \notin Saved
  BY <1>1, <1>2 DEF Status
<1> QED
  BY <1>1, <1>2, <1>3 DEF Content

LEMMA Locations ==
    /\ \A where \in Saving \cup Applying \cup Recording : where \in Location
    /\ \A where \in {"idle", "create run", "work", "finish", "inspect", "ensure", "mint"} :
           where \in Location
    /\ \A where : AfterSave(where) \in {"work", "checkpoint", "finish", "idle"}
BY DEF Location, AfterSave

LEMMA GotoEffect ==
    ASSUME TypeOK, NEW p \in Process, NEW where \in Location, Goto(p, where)
    PROVE  /\ pc' \in [Process -> Location] /\ pc'[p] = where
           /\ \A q \in Process : q # p => pc'[q] = pc[q]
BY DEF TypeOK, Goto

LEMMA ForgetEffect ==
    ASSUME TypeOK, NEW p \in Process, Forget(p)
    PROVE  /\ mine' \in [Process -> Saved] /\ mine'[p] = Fresh
           /\ runfd' \in [Process -> Place]
           /\ run' \in [Process -> Run \cup {None}] /\ run'[p] = None
           /\ outcome' \in [Process -> Outcome] /\ outcome'[p] = "none"
           /\ captured' \in [Process -> [File -> Process \cup {None}]]
           /\ edited' \in [Process -> SUBSET File] /\ edited'[p] = {}
           /\ linked' \in [Process -> BOOLEAN] /\ linked'[p] = FALSE
           /\ \A q \in Process : q # p =>
                 /\ mine'[q] = mine[q] /\ run'[q] = run[q] /\ outcome'[q] = outcome[q]
                 /\ captured'[q] = captured[q] /\ edited'[q] = edited[q] /\ linked'[q] = linked[q]
<1>1. mine' \in [Process -> Saved] /\ mine'[p] = Fresh
      /\ \A q \in Process : q # p => mine'[q] = mine[q]
  BY FreshSaved DEF TypeOK, Forget
<1>2. run' \in [Process -> Run \cup {None}] /\ run'[p] = None
      /\ \A q \in Process : q # p => run'[q] = run[q]
  BY DEF TypeOK, Forget
<1>3. outcome' \in [Process -> Outcome] /\ outcome'[p] = "none"
      /\ \A q \in Process : q # p => outcome'[q] = outcome[q]
  BY DEF TypeOK, Forget, Outcome
<1>4. captured' \in [Process -> [File -> Process \cup {None}]]
      /\ \A q \in Process : q # p => captured'[q] = captured[q]
  <2> DEFINE nothing == [f \in File |-> None]
  <2>1. nothing \in [File -> Process \cup {None}]
    OBVIOUS
  <2>2. captured' = [captured EXCEPT ![p] = nothing]
    BY DEF Forget
  <2> HIDE DEF nothing
  <2> QED
    BY <2>1, <2>2 DEF TypeOK
<1>5. edited' \in [Process -> SUBSET File] /\ edited'[p] = {}
      /\ \A q \in Process : q # p => edited'[q] = edited[q]
  BY DEF TypeOK, Forget
<1>6. linked' \in [Process -> BOOLEAN] /\ linked'[p] = FALSE
      /\ \A q \in Process : q # p => linked'[q] = linked[q]
  BY DEF TypeOK, Forget
<1>7. runfd' \in [Process -> Place]
  BY DEF TypeOK, Forget, Place
<1> QED
  BY <1>1, <1>2, <1>3, <1>4, <1>5, <1>6, <1>7

(* A call that is over, however it ended.                                  *)
Over(p) ==
    /\ pc'[p] = "idle" /\ mine'[p] = Fresh /\ run'[p] = None /\ outcome'[p] = "none"
    /\ edited'[p] = {} /\ linked'[p] = FALSE

LocalsOK ==
    /\ pc \in [Process -> Location]
    /\ mine \in [Process -> Saved]
    /\ fd \in [Process -> Place] /\ runfd \in [Process -> Place]
    /\ run \in [Process -> Run \cup {None}]
    /\ outcome \in [Process -> Outcome]
    /\ captured \in [Process -> [File -> Process \cup {None}]]
    /\ edited \in [Process -> SUBSET File]
    /\ linked \in [Process -> BOOLEAN]

LEMMA ReturnEffect ==
    ASSUME TypeOK, NEW p \in Process, Return(p)
    PROVE  LocalsOK' /\ Rest(p) /\ Over(p) /\ fd' = [fd EXCEPT ![p] = "none"]
<1>1. Goto(p, "idle") /\ Forget(p) /\ fd' = [fd EXCEPT ![p] = "none"]
  BY DEF Return
<1>2. fd' \in [Process -> Place]
  BY <1>1 DEF TypeOK, Place
<1>3. /\ pc' \in [Process -> Location] /\ pc'[p] = "idle"
      /\ \A q \in Process : q # p => pc'[q] = pc[q]
  BY <1>1, GotoEffect, Locations
<1>4. /\ mine' \in [Process -> Saved] /\ mine'[p] = Fresh
      /\ runfd' \in [Process -> Place]
      /\ run' \in [Process -> Run \cup {None}] /\ run'[p] = None
      /\ outcome' \in [Process -> Outcome] /\ outcome'[p] = "none"
      /\ captured' \in [Process -> [File -> Process \cup {None}]]
      /\ edited' \in [Process -> SUBSET File] /\ edited'[p] = {}
      /\ linked' \in [Process -> BOOLEAN] /\ linked'[p] = FALSE
  BY <1>1, ForgetEffect
<1>5. \A q \in Process : q # p =>
         /\ mine'[q] = mine[q] /\ run'[q] = run[q] /\ outcome'[q] = outcome[q]
         /\ captured'[q] = captured[q] /\ edited'[q] = edited[q] /\ linked'[q] = linked[q]
  BY <1>1, ForgetEffect
<1>6. Rest(p)
  BY <1>3, <1>5 DEF Rest
<1>7. Over(p)
  BY <1>3, <1>4 DEF Over
<1> QED
  BY <1>1, <1>2, <1>3, <1>4, <1>6, <1>7 DEF LocalsOK

LEMMA LoadEffect ==
    ASSUME TypeOK, NEW p \in Process, NEW where \in Location, NEW s \in Saved, Load(p, where, s)
    PROVE  /\ pc[p] = "idle" /\ session \in Saved /\ left' \in 0..Calls
           /\ pc' \in [Process -> Location] /\ pc'[p] = where
           /\ mine' \in [Process -> Saved] /\ mine'[p] = s
           /\ \A q \in Process : q # p => pc'[q] = pc[q] /\ mine'[q] = mine[q]
<1>1. pc' \in [Process -> Location] /\ pc'[p] = where /\ \A q \in Process : q # p => pc'[q] = pc[q]
  BY GotoEffect DEF Load
<1>2. mine' \in [Process -> Saved] /\ mine'[p] = s /\ \A q \in Process : q # p => mine'[q] = mine[q]
  BY DEF TypeOK, Load
<1>3. left' \in 0..Calls
  BY SessionAssumption DEF TypeOK, Load
<1> QED
  BY <1>1, <1>2, <1>3 DEF Load

(* The steps that write the session to the disk.                           *)
LEMMA OpenTmpEffect ==
    ASSUME TypeOK, NEW p \in Process, OpenTmp(p)
    PROVE  /\ TypeOK' /\ Rest(p)
           /\ pc' = pc /\ mine' = mine /\ run' = run /\ outcome' = outcome /\ edited' = edited
           /\ fd'[p] = "tmp" /\ \A q \in Process : q # p => fd'[q] = fd[q]
<1>1. fd' \in [Process -> Place]
      /\ fd'[p] = "tmp" /\ \A q \in Process : q # p => fd'[q] = fd[q]
  BY DEF TypeOK, OpenTmp, Place
<1>2. tmp' \in Content
  BY SavedFields DEF OpenTmp
<1>3. overlaps' \subseteq {"save", "finish", "record", "apply"}
  BY DEF TypeOK, OpenTmp
<1> QED
  BY <1>1, <1>2, <1>3 DEF TypeOK, OpenTmp, Rest, locals

LEMMA FillTmpEffect ==
    ASSUME TypeOK, NEW p \in Process, FillTmp(p)
    PROVE  /\ TypeOK' /\ Rest(p)
           /\ pc' = pc /\ mine' = mine /\ run' = run /\ outcome' = outcome /\ edited' = edited
           /\ fd'[p] = "filled" /\ \A q \in Process : q # p => fd'[q] = fd[q]
           /\ tmp' \in {tmp, mine[p], Unreadable("torn")}
           /\ session' \in {session, mine[p], Unreadable("torn")}
<1>1. fd' \in [Process -> Place]
      /\ fd'[p] = "filled" /\ \A q \in Process : q # p => fd'[q] = fd[q]
  BY DEF TypeOK, FillTmp, Place
<1>2. \A old, new : Mixed(old, new) \subseteq {new, Unreadable("torn")}
  BY DEF Mixed
<1>3. /\ tmp' \in {tmp, mine[p], Unreadable("torn")}
      /\ session' \in {session, mine[p], Unreadable("torn")}
  BY <1>2 DEF FillTmp
<1>4. mine[p] \in Content
  BY SavedFields DEF TypeOK
<1>5. tmp' \in Content /\ session' \in Content
  BY <1>3, <1>4, SavedFields DEF TypeOK
<1> QED
  BY <1>1, <1>3, <1>5 DEF TypeOK, FillTmp, Rest, locals

LEMMA ReplaceEffect ==
    ASSUME TypeOK, NEW p \in Process, Replace(p)
    PROVE  /\ TypeOK' /\ Rest(p)
           /\ session' = tmp /\ tmp' = Unreadable("absent")
           /\ pc'[p] = AfterSave(pc[p]) /\ run'[p] \in {run[p], None}
           /\ \/ pc'[p] = "idle" /\ Over(p)
              \/ /\ pc'[p] # "idle"
                 /\ mine' = mine /\ outcome' = outcome /\ run' = run /\ edited' = edited
           /\ fd'[p] = "none" /\ \A q \in Process : q # p => fd'[q] = Moved(fd[q])
<1>1. /\ pc' \in [Process -> Location] /\ pc'[p] = AfterSave(pc[p])
      /\ \A q \in Process : q # p => pc'[q] = pc[q]
  <2>1. AfterSave(pc[p]) \in Location
    <3>1. AfterSave(pc[p]) \in {"work", "checkpoint", "finish", "idle"}
      BY DEF AfterSave
    <3> QED
      BY <3>1, Locations DEF Applying
  <2>2. Goto(p, AfterSave(pc[p]))
    BY DEF Replace
  <2> QED
    BY <2>1, <2>2, GotoEffect
<1>2. /\ fd' \in [Process -> Place]
      /\ fd'[p] = "none" /\ \A q \in Process : q # p => fd'[q] = Moved(fd[q])
  <2>1. \A q \in Process : Moved(fd[q]) \in Place
    BY DEF TypeOK, Moved, Place
  <2>2. fd' = [q \in Process |-> IF q = p THEN "none" ELSE Moved(fd[q])]
    BY DEF Replace
  <2> QED
    BY <2>1, <2>2 DEF Place
<1>3. /\ session' = tmp /\ tmp' = Unreadable("absent") /\ session' \in Content /\ tmp' \in Content
      /\ UNCHANGED <<durable, runs, runtmp, manifests, flow, report, workspace, left, overlaps,
                     mishap>>
  BY SavedFields DEF TypeOK, Replace
<1>4. CASE AfterSave(pc[p]) = "idle"
  <2>1. Forget(p)
    BY <1>4 DEF Replace
  <2>2. /\ mine' \in [Process -> Saved] /\ mine'[p] = Fresh
        /\ runfd' \in [Process -> Place]
        /\ run' \in [Process -> Run \cup {None}] /\ run'[p] = None
        /\ outcome' \in [Process -> Outcome] /\ outcome'[p] = "none"
        /\ captured' \in [Process -> [File -> Process \cup {None}]]
        /\ edited' \in [Process -> SUBSET File] /\ edited'[p] = {}
        /\ linked' \in [Process -> BOOLEAN] /\ linked'[p] = FALSE
    BY <2>1, ForgetEffect
  <2>3. \A q \in Process : q # p =>
         /\ mine'[q] = mine[q] /\ run'[q] = run[q] /\ outcome'[q] = outcome[q]
         /\ captured'[q] = captured[q] /\ edited'[q] = edited[q] /\ linked'[q] = linked[q]
    BY <2>1, ForgetEffect
  <2>4. Rest(p) /\ Over(p)
    BY <1>1, <1>4, <2>2, <2>3 DEF Rest, Over
  <2>5. TypeOK'
    BY <1>1, <1>2, <1>3, <2>2 DEF TypeOK
  <2> QED
    BY <1>1, <1>2, <1>3, <1>4, <2>2, <2>4, <2>5
<1>5. CASE AfterSave(pc[p]) # "idle"
  <2>1. UNCHANGED locals
    BY <1>5 DEF Replace
  <2>2. TypeOK'
    BY <1>1, <1>2, <1>3, <2>1 DEF TypeOK, locals
  <2> QED
    BY <1>1, <1>2, <1>3, <1>5, <2>1, <2>2 DEF Rest, locals
<1> QED
  BY <1>4, <1>5

(* Three calls end early: the replace fails, the process dies, or the      *)
(* call has nothing more to do.                                            *)
LEMMA ReplaceFailsEffect ==
    ASSUME TypeOK, NEW p \in Process, ReplaceFails(p)
    PROVE  TypeOK' /\ Rest(p) /\ Over(p) /\ fd' = [fd EXCEPT ![p] = "none"]
<1>1. LocalsOK' /\ Rest(p) /\ Over(p) /\ fd' = [fd EXCEPT ![p] = "none"]
  BY ReturnEffect DEF ReplaceFails
<1> QED
  BY <1>1 DEF LocalsOK, TypeOK, ReplaceFails, files

LEMMA CrashEffect ==
    ASSUME TypeOK, NEW p \in Process, Crash(p)
    PROVE  TypeOK' /\ Rest(p) /\ Over(p) /\ fd' = [fd EXCEPT ![p] = "none"]
<1>1. LocalsOK' /\ Rest(p) /\ Over(p) /\ fd' = [fd EXCEPT ![p] = "none"]
  BY ReturnEffect DEF Crash
<1> QED
  BY <1>1 DEF LocalsOK, TypeOK, Crash, files

LEMMA ApplyFailsEffect ==
    ASSUME TypeOK, NEW p \in Process, ApplyFails(p)
    PROVE  TypeOK' /\ Rest(p) /\ Over(p) /\ fd' = [fd EXCEPT ![p] = "none"]
<1>1. LocalsOK' /\ Rest(p) /\ Over(p) /\ fd' = [fd EXCEPT ![p] = "none"]
  BY ReturnEffect DEF ApplyFails
<1>2. workspace' \in [File -> Process \cup {None}]
  BY DEF TypeOK, ApplyFails
<1> QED
  BY <1>1, <1>2 DEF LocalsOK, TypeOK, ApplyFails

(* A call begins with the session it has loaded.                           *)
Begins(p, where) ==
    /\ pc[p] = "idle" /\ session \in Saved /\ pc'[p] = where /\ fd' = fd
    /\ outcome' = outcome /\ edited' = edited /\ captured' = captured
    /\ UNCHANGED files

LEMMA StartRunEffect ==
    ASSUME TypeOK, NEW p \in Process, StartRun(p) \/ Resume(p)
    PROVE  /\ TypeOK' /\ Rest(p) /\ Begins(p, "create run") /\ mine'[p] = session /\ run' = run
           /\ linked' = linked
<1>1. Load(p, "create run", session) /\ session \in Saved
  BY DEF StartRun, Resume, Load
<1>2. /\ pc[p] = "idle" /\ session \in Saved /\ left' \in 0..Calls
      /\ pc' \in [Process -> Location] /\ pc'[p] = "create run"
      /\ mine' \in [Process -> Saved] /\ mine'[p] = session
      /\ \A q \in Process : q # p => pc'[q] = pc[q] /\ mine'[q] = mine[q]
  BY <1>1, LoadEffect, Locations
<1>3. UNCHANGED <<durable, files, fd, runfd, run, outcome, captured, edited, linked, overlaps, mishap>>
  BY DEF StartRun, Resume
<1> QED
  BY <1>2, <1>3 DEF TypeOK, Rest, Begins, files

LEMMA ArchiveEffect ==
    ASSUME TypeOK, NEW p \in Process, Archive(p)
    PROVE  /\ TypeOK' /\ Rest(p) /\ Begins(p, "save archived") /\ run' = run /\ linked' = linked
           /\ mine'[p].status = "archived" /\ mine'[p].active = session.active
<1> DEFINE s == [session EXCEPT !.status = "archived"]
<1>1. s \in Saved /\ s.status = "archived" /\ s.active = session.active
  BY DEF Archive, Load, Saved, Status
<1>2. Load(p, "save archived", s)
  BY DEF Archive
<1> HIDE DEF s
<1>3. /\ pc[p] = "idle" /\ session \in Saved /\ left' \in 0..Calls
      /\ pc' \in [Process -> Location] /\ pc'[p] = "save archived"
      /\ mine' \in [Process -> Saved] /\ mine'[p] = s
      /\ \A q \in Process : q # p => pc'[q] = pc[q] /\ mine'[q] = mine[q]
  BY <1>1, <1>2, LoadEffect, Locations DEF Saving
<1>4. UNCHANGED <<durable, files, fd, runfd, run, outcome, captured, edited, linked, overlaps, mishap>>
  BY DEF Archive
<1> QED
  BY <1>1, <1>3, <1>4 DEF TypeOK, Rest, Begins, files

LEMMA AgentEditsEffect ==
    ASSUME TypeOK, NEW p \in Process, NEW link \in BOOLEAN, AgentEdits(p, link)
    PROVE  /\ TypeOK' /\ Rest(p) /\ Begins(p, "inspect") /\ mine'[p] = session /\ run' = run
           /\ linked'[p] = link
<1>1. Load(p, "inspect", session) /\ session \in Saved
  BY DEF AgentEdits, Load
<1>2. /\ pc[p] = "idle" /\ session \in Saved /\ left' \in 0..Calls
      /\ pc' \in [Process -> Location] /\ pc'[p] = "inspect"
      /\ mine' \in [Process -> Saved] /\ mine'[p] = session
      /\ \A q \in Process : q # p => pc'[q] = pc[q] /\ mine'[q] = mine[q]
  BY <1>1, LoadEffect, Locations
<1>3. /\ linked' \in [Process -> BOOLEAN] /\ linked'[p] = link
      /\ \A q \in Process : q # p => linked'[q] = linked[q]
  BY DEF TypeOK, AgentEdits
<1>4. overlaps' \subseteq {"save", "finish", "record", "apply"}
  BY DEF TypeOK, AgentEdits
<1>5. UNCHANGED <<durable, files, fd, runfd, run, outcome, captured, edited, mishap>>
  BY DEF AgentEdits
<1> QED
  BY <1>2, <1>3, <1>4, <1>5 DEF TypeOK, Rest, Begins, files

LEMMA DurableApplyEffect ==
    ASSUME TypeOK, NEW p \in Process, DurableApply(p)
    PROVE  /\ TypeOK' /\ Rest(p) /\ mine'[p] = session /\ run'[p] = session.active
           /\ linked' = linked
           /\ \/ Begins(p, "mint") /\ session.active = None
              \/ Begins(p, "checkpoint") /\ session.active \in Run
<1> DEFINE where == IF session.active = None THEN "mint" ELSE "checkpoint"
<1>1. Load(p, where, session) /\ session \in Saved
  BY DEF DurableApply, Load
<1>2. where \in Location /\ session.active \in Run \cup {None}
  BY <1>1, Locations, SavedFields DEF Applying
<1>3. \/ where = "mint" /\ session.active = None
      \/ where = "checkpoint" /\ session.active \in Run
  BY <1>2
<1> HIDE DEF where
<1>4. /\ pc[p] = "idle" /\ session \in Saved /\ left' \in 0..Calls
      /\ pc' \in [Process -> Location] /\ pc'[p] = where
      /\ mine' \in [Process -> Saved] /\ mine'[p] = session
      /\ \A q \in Process : q # p => pc'[q] = pc[q] /\ mine'[q] = mine[q]
  BY <1>1, <1>2, LoadEffect
<1>5. /\ run' \in [Process -> Run \cup {None}] /\ run'[p] = session.active
      /\ \A q \in Process : q # p => run'[q] = run[q]
  BY <1>2 DEF TypeOK, DurableApply
<1>6. UNCHANGED <<durable, files, fd, runfd, outcome, captured, edited, linked, overlaps, mishap>>
  BY DEF DurableApply
<1>7. Begins(p, where)
  BY <1>4, <1>6 DEF Begins, files
<1> QED
  BY <1>3, <1>4, <1>5, <1>6, <1>7 DEF TypeOK, Rest, files

(* The steps of a call, each with what it leaves alone.                    *)
Continues(p, where) ==
    /\ pc'[p] = where /\ fd' = fd /\ edited' = edited /\ linked' = linked

(* A step that mints a run.                                                *)
Mints(p) ==
    /\ mine'[p].active \in Run /\ run'[p] = mine'[p].active
    /\ \A r \in Run : runs[r] # "absent" => runs'[r] = runs[r]
    /\ runs'[run'[p]] = "running"

LEMMA MintEffect ==
    ASSUME TypeOK, NEW p \in Process, NEW status \in Status, NEW r \in Run, runs[r] = "absent",
           runs' = [runs EXCEPT ![r] = "running"], run' = [run EXCEPT ![p] = r],
           mine' = [mine EXCEPT ![p] = [status |-> status, active |-> r]]
    PROVE  /\ runs' \in [Run -> RunStatus] /\ run' \in [Process -> Run \cup {None}]
           /\ mine' \in [Process -> Saved] /\ Mints(p) /\ mine'[p].status = status
           /\ \A q \in Process : q # p => mine'[q] = mine[q] /\ run'[q] = run[q]
<1> DEFINE s == [status |-> status, active |-> r]
<1>1. s \in Saved /\ s.status = status /\ s.active = r
  BY DEF Saved
<1> HIDE DEF s
<1>2. mine' \in [Process -> Saved] /\ mine'[p] = s /\ \A q \in Process : q # p => mine'[q] = mine[q]
  BY <1>1 DEF TypeOK, s
<1>3. /\ run' \in [Process -> Run \cup {None}] /\ run'[p] = r
      /\ \A q \in Process : q # p => run'[q] = run[q]
  BY DEF TypeOK
<1>4. /\ runs' \in [Run -> RunStatus] /\ runs'[r] = "running"
      /\ \A t \in Run : runs[t] # "absent" => runs'[t] = runs[t]
  BY DEF TypeOK, RunStatus, Loadable
<1> QED
  BY <1>1, <1>2, <1>3, <1>4 DEF Mints

LEMMA CreateRunEffect ==
    ASSUME TypeOK, NEW p \in Process, CreateRun(p)
    PROVE  /\ TypeOK' /\ Rest(p) /\ Continues(p, "save running") /\ Mints(p)
           /\ outcome' = outcome
<1>1. PICK r \in Run :
          /\ runs[r] = "absent" /\ runs' = [runs EXCEPT ![r] = "running"]
          /\ mine' = [mine EXCEPT ![p] = [status |-> "running", active |-> r]]
          /\ run' = [run EXCEPT ![p] = r]
  BY DEF CreateRun
<1>2. "running" \in Status
  BY DEF Status
<1>3. /\ runs' \in [Run -> RunStatus] /\ run' \in [Process -> Run \cup {None}]
      /\ mine' \in [Process -> Saved] /\ Mints(p)
      /\ \A q \in Process : q # p => mine'[q] = mine[q] /\ run'[q] = run[q]
  BY <1>1, <1>2, MintEffect
<1>4. /\ pc' \in [Process -> Location] /\ pc'[p] = "save running"
      /\ \A q \in Process : q # p => pc'[q] = pc[q]
  BY GotoEffect, Locations DEF CreateRun, Saving
<1>5. UNCHANGED <<durable, session, tmp, runtmp, manifests, flow, report, workspace, fd, runfd,
                  outcome, captured, edited, linked, left, overlaps, mishap>>
  BY DEF CreateRun
<1> QED
  BY <1>3, <1>4, <1>5 DEF TypeOK, Rest, Continues

LEMMA MintsEffect ==
    ASSUME TypeOK, NEW p \in Process, Mint(p)
    PROVE  /\ TypeOK' /\ Rest(p) /\ Continues(p, "save minted") /\ Mints(p)
           /\ mine'[p].status = mine[p].status /\ outcome' = outcome
<1>1. PICK r \in Run :
          /\ runs[r] = "absent" /\ runs' = [runs EXCEPT ![r] = "running"]
          /\ mine' = [mine EXCEPT ![p].active = r]
          /\ run' = [run EXCEPT ![p] = r]
  BY DEF Mint
<1>2. mine[p] \in Saved /\ mine[p].status \in Status
  BY DEF TypeOK, Saved
<1>3. [mine[p] EXCEPT !.active = r] = [status |-> mine[p].status, active |-> r]
  BY <1>2 DEF Saved
<1>4. mine' = [mine EXCEPT ![p] = [status |-> mine[p].status, active |-> r]]
  BY <1>1, <1>3 DEF TypeOK
<1>5. /\ runs' \in [Run -> RunStatus] /\ run' \in [Process -> Run \cup {None}]
      /\ mine' \in [Process -> Saved] /\ Mints(p) /\ mine'[p].status = mine[p].status
      /\ \A q \in Process : q # p => mine'[q] = mine[q] /\ run'[q] = run[q]
  BY <1>1, <1>2, <1>4, MintEffect
<1>6. /\ pc' \in [Process -> Location] /\ pc'[p] = "save minted"
      /\ \A q \in Process : q # p => pc'[q] = pc[q]
  BY GotoEffect, Locations DEF Mint, Saving
<1>7. UNCHANGED <<durable, session, tmp, runtmp, manifests, flow, report, workspace, fd, runfd,
                  outcome, captured, edited, linked, left, overlaps, mishap>>
  BY DEF Mint
<1> QED
  BY <1>5, <1>6, <1>7 DEF TypeOK, Rest, Continues

LEMMA EnsureRunEffect ==
    ASSUME TypeOK, NEW p \in Process, EnsureRun(p)
    PROVE  /\ TypeOK' /\ Rest(p)
           /\ \/ /\ Continues(p, "finish") /\ mine' = mine /\ runs' = runs
                 /\ outcome' = outcome /\ run'[p] \in Run
              \/ /\ Continues(p, "save ensured") /\ Mints(p) /\ outcome' = outcome
                 /\ ~Exists(mine[p]) \/ mine[p].active = None
                 /\ mine'[p].status = mine[p].status
              \/ /\ Over(p) /\ fd' = [fd EXCEPT ![p] = "none"] /\ runs' = runs
<1>1. mine[p] \in Saved /\ mine[p].status \in Status /\ mine[p].active \in Run \cup {None}
  BY DEF TypeOK, Saved
<1>2. UNCHANGED <<durable, session, tmp, runtmp, manifests, flow, report, workspace, left,
                  overlaps, mishap>>
  BY DEF EnsureRun
<1>3. CASE /\ mine[p].active # None /\ run' = [run EXCEPT ![p] = mine[p].active]
           /\ Goto(p, "finish")
           /\ UNCHANGED <<runs, fd, mine, runfd, outcome, captured, edited, linked>>
  <2>1. /\ run' \in [Process -> Run \cup {None}] /\ run'[p] \in Run
        /\ \A q \in Process : q # p => run'[q] = run[q]
    BY <1>1, <1>3 DEF TypeOK
  <2>2. /\ pc' \in [Process -> Location] /\ pc'[p] = "finish"
        /\ \A q \in Process : q # p => pc'[q] = pc[q]
    BY <1>3, GotoEffect, Locations
  <2> QED
    BY <1>2, <1>3, <2>1, <2>2 DEF TypeOK, Rest, Continues
<1>4. CASE Return(p) /\ UNCHANGED runs
  <2>1. LocalsOK' /\ Rest(p) /\ Over(p) /\ fd' = [fd EXCEPT ![p] = "none"]
    BY <1>4, ReturnEffect
  <2> QED
    BY <1>2, <1>4, <2>1 DEF LocalsOK, TypeOK
<1>5. ASSUME NEW r \in Run, mine[p].active = None \/ runs[mine[p].active] = "absent",
             runs[r] = "absent",
             runs' = [runs EXCEPT ![r] = "running"], mine' = [mine EXCEPT ![p].active = r],
             run' = [run EXCEPT ![p] = r], Goto(p, "save ensured"),
             UNCHANGED <<fd, runfd, outcome, captured, edited, linked>>
      PROVE  /\ TypeOK' /\ Rest(p) /\ Continues(p, "save ensured") /\ Mints(p)
             /\ ~Exists(mine[p]) \/ mine[p].active = None
             /\ mine'[p].status = mine[p].status
  <2>1. [mine[p] EXCEPT !.active = r] = [status |-> mine[p].status, active |-> r]
    BY <1>1 DEF Saved
  <2>2. mine' = [mine EXCEPT ![p] = [status |-> mine[p].status, active |-> r]]
    BY <1>5, <2>1 DEF TypeOK
  <2>3. /\ runs' \in [Run -> RunStatus] /\ run' \in [Process -> Run \cup {None}]
        /\ mine' \in [Process -> Saved] /\ Mints(p) /\ mine'[p].status = mine[p].status
        /\ \A q \in Process : q # p => mine'[q] = mine[q] /\ run'[q] = run[q]
    BY <1>1, <1>5, <2>2, MintEffect
  <2>4. /\ pc' \in [Process -> Location] /\ pc'[p] = "save ensured"
        /\ \A q \in Process : q # p => pc'[q] = pc[q]
    BY <1>5, GotoEffect, Locations DEF Saving
  <2>5. ~Exists(mine[p]) \/ mine[p].active = None
    BY <1>5 DEF Exists
  <2> QED
    BY <1>2, <1>5, <2>3, <2>4, <2>5 DEF TypeOK, Rest, Continues
<1> QED
  BY <1>2, <1>3, <1>4, <1>5 DEF EnsureRun

LEMMA WorkEffect ==
    ASSUME TypeOK, NEW p \in Process, Work(p)
    PROVE  /\ TypeOK' /\ Rest(p) /\ Continues(p, "finish")
           /\ outcome'[p] \in {"passed", "failed", "other"} /\ run' = run /\ mine' = mine
<1>1. /\ outcome' \in [Process -> Outcome] /\ outcome'[p] \in {"passed", "failed", "other"}
      /\ \A q \in Process : q # p => outcome'[q] = outcome[q]
  BY DEF TypeOK, Work, Outcome
<1>2. /\ pc' \in [Process -> Location] /\ pc'[p] = "finish"
      /\ \A q \in Process : q # p => pc'[q] = pc[q]
  BY GotoEffect, Locations DEF Work
<1> QED
  BY <1>1, <1>2 DEF TypeOK, Work, Rest, Continues, files

(* The steps that write a run that has ended.                              *)
LEMMA OpenRunEffect ==
    ASSUME TypeOK, NEW p \in Process, OpenRun(p)
    PROVE  /\ TypeOK' /\ Rest(p) /\ Continues(p, "finish")
           /\ mine' = mine /\ run' = run /\ outcome' = outcome /\ runs' = runs
<1>1. runtmp' \in [Run -> RunStatus]
  BY DEF TypeOK, OpenRun, RunStatus
<1>2. runfd' \in [Process -> Place]
  BY DEF TypeOK, OpenRun, Place
<1>3. overlaps' \subseteq {"save", "finish", "record", "apply"}
  BY DEF TypeOK, OpenRun
<1> QED
  BY <1>1, <1>2, <1>3 DEF TypeOK, OpenRun, Rest, Continues

LEMMA EndedIs ==
    ASSUME OutcomeInv, NEW p \in Process, pc[p] = "finish"
    PROVE  Ended(outcome[p]) \in Loadable /\ run[p] \in Run
BY DEF OutcomeInv, Running, Ended, Loadable

LEMMA FillRunEffect ==
    ASSUME TypeOK, OutcomeInv, NEW p \in Process, FillRun(p)
    PROVE  /\ TypeOK' /\ Rest(p) /\ Continues(p, "finish")
           /\ mine' = mine /\ run' = run /\ outcome' = outcome
           /\ \A r \in Run : runs[r] # "absent" => runs'[r] # "absent"
<1>1. Ended(outcome[p]) \in Loadable
  BY EndedIs DEF FillRun
<1>2. \A old : MixedStatus(old, Ended(outcome[p])) \subseteq RunStatus \ {"absent"}
  BY <1>1 DEF MixedStatus, RunStatus, Loadable
<1>3. runtmp' \in [Run -> RunStatus]
  <2>1. runtmp' = runtmp \/ \E t \in RunStatus : runtmp' = [runtmp EXCEPT ![run[p]] = t]
    BY <1>2 DEF FillRun
  <2> QED
    BY <2>1 DEF TypeOK
<1>4. runs' \in [Run -> RunStatus] /\ \A r \in Run : runs[r] # "absent" => runs'[r] # "absent"
  <2>1. \/ runs' = runs
        \/ \E t \in RunStatus \ {"absent"} : runs' = [runs EXCEPT ![run[p]] = t]
    BY <1>2 DEF FillRun
  <2>2. runs \in [Run -> RunStatus]
    BY DEF TypeOK
  <2>3. CASE runs' = runs
    BY <2>2, <2>3
  <2>4. ASSUME NEW t \in RunStatus \ {"absent"}, runs' = [runs EXCEPT ![run[p]] = t]
        PROVE  /\ runs' \in [Run -> RunStatus]
               /\ \A r \in Run : runs[r] # "absent" => runs'[r] # "absent"
    BY <2>2, <2>4
  <2> QED
    BY <2>1, <2>3, <2>4
<1>5. runfd' \in [Process -> Place]
  BY DEF TypeOK, FillRun, Place
<1> QED
  BY <1>3, <1>4, <1>5 DEF TypeOK, FillRun, Rest, Continues

LEMMA ReplaceRunEffect ==
    ASSUME TypeOK, OutcomeInv, NEW p \in Process, ReplaceRun(p)
    PROVE  /\ TypeOK' /\ Rest(p) /\ Continues(p, "save final")
           /\ mine'[p].status # "running" /\ mine'[p].active = mine[p].active
           /\ \A r \in Run : runs[r] # "absent" => runs'[r] # "absent"
           /\ run' = run /\ outcome' = outcome
<1> DEFINE status == IF outcome[p] = "failed" THEN "failed" ELSE "completed"
           s == [mine[p] EXCEPT !.status = status]
<1>1. mine[p] \in Saved /\ status \in Status /\ status # "running"
  BY DEF TypeOK, Status
<1>2. mine' = [mine EXCEPT ![p] = s]
  BY DEF ReplaceRun, TypeOK
<1> HIDE DEF status
<1>3. s \in Saved /\ s.status = status /\ s.active = mine[p].active
  BY <1>1 DEF Saved
<1> HIDE DEF s
<1>4. mine' \in [Process -> Saved] /\ mine'[p] = s /\ \A q \in Process : q # p => mine'[q] = mine[q]
  BY <1>2, <1>3 DEF TypeOK
<1>5. run[p] \in Run
  BY EndedIs DEF ReplaceRun
<1>6. /\ runs' \in [Run -> RunStatus]
      /\ \A r \in Run : runs[r] # "absent" => runs'[r] # "absent"
  BY <1>5 DEF TypeOK, ReplaceRun
<1>7. runtmp' \in [Run -> RunStatus]
  BY DEF TypeOK, ReplaceRun, RunStatus
<1>8. runfd' \in [Process -> Place]
  <2>1. \A q \in Process : runfd[q] \in Place /\ Moved(runfd[q]) \in Place /\ "none" \in Place
    BY DEF TypeOK, Moved, Place
  <2> QED
    BY <2>1 DEF ReplaceRun
<1>9. /\ pc' \in [Process -> Location] /\ pc'[p] = "save final"
      /\ \A q \in Process : q # p => pc'[q] = pc[q]
  BY GotoEffect, Locations DEF ReplaceRun, Saving
<1>10. UNCHANGED <<durable, session, tmp, manifests, flow, report, workspace, fd, run, outcome,
                   captured, edited, linked, left, overlaps, mishap>>
  BY DEF ReplaceRun
<1> QED
  BY <1>1, <1>3, <1>4, <1>6, <1>7, <1>8, <1>9, <1>10 DEF TypeOK, Rest, Continues

LEMMA ReplaceRunFailsEffect ==
    ASSUME TypeOK, NEW p \in Process, ReplaceRunFails(p)
    PROVE  /\ TypeOK' /\ Rest(p) /\ Over(p) /\ fd' = [fd EXCEPT ![p] = "none"]
           /\ runs' = runs /\ mishap'
<1>1. LocalsOK' /\ Rest(p) /\ Over(p) /\ fd' = [fd EXCEPT ![p] = "none"]
  BY ReturnEffect DEF ReplaceRunFails
<1> QED
  BY <1>1 DEF LocalsOK, TypeOK, ReplaceRunFails, files

LEMMA FinishEffect ==
    ASSUME TypeOK, OutcomeInv, NEW p \in Process, Finish(p)
    PROVE  /\ TypeOK' /\ Rest(p) /\ pc[p] = "finish"
           /\ \A r \in Run : runs[r] # "absent" => runs'[r] # "absent"
           /\ \/ /\ Continues(p, "finish") /\ mine' = mine
                 /\ run' = run /\ outcome' = outcome
              \/ /\ Continues(p, "save final") /\ run' = run /\ outcome' = outcome
                 /\ mine'[p].status # "running" /\ mine'[p].active = mine[p].active
              \/ /\ Over(p) /\ fd' = [fd EXCEPT ![p] = "none"] /\ mishap'
           /\ UNCHANGED <<durable, session, tmp, manifests, flow, report, workspace>>
           /\ "save" \in overlaps' <=> "save" \in overlaps
           /\ "record" \in overlaps' <=> "record" \in overlaps
           /\ "apply" \in overlaps' <=> "apply" \in overlaps
           /\ mishap' = mishap \/ mishap'
<1>1. CASE OpenRun(p)
  BY <1>1, OpenRunEffect DEF OpenRun
<1>2. CASE FillRun(p)
  BY <1>2, FillRunEffect DEF FillRun
<1>3. CASE ReplaceRun(p)
  BY <1>3, ReplaceRunEffect DEF ReplaceRun
<1>4. CASE ReplaceRunFails(p)
  BY <1>4, ReplaceRunFailsEffect DEF ReplaceRunFails, files
<1> QED
  BY <1>1, <1>2, <1>3, <1>4 DEF Finish

LEMMA InspectEffect ==
    ASSUME TypeOK, NEW p \in Process, Inspect(p)
    PROVE  /\ TypeOK' /\ Rest(p)
           /\ \/ /\ linked[p] /\ Continues(p, "report") /\ mine' = mine /\ run' = run
              \/ /\ ~linked[p] /\ Continues(p, "ensure") /\ outcome'[p] = "passed"
                 /\ mine' = mine /\ run' = run
              \/ /\ ~linked[p] /\ Over(p) /\ fd' = [fd EXCEPT ![p] = "none"]
<1>1. UNCHANGED <<durable, files, left, overlaps, mishap>>
  BY DEF Inspect
<1>2. CASE Return(p) /\ ~linked[p]
  <2>1. LocalsOK' /\ Rest(p) /\ Over(p) /\ fd' = [fd EXCEPT ![p] = "none"]
    BY <1>2, ReturnEffect
  <2> QED
    BY <1>1, <1>2, <2>1 DEF LocalsOK, TypeOK, files
<1>3. ASSUME NEW o \in {"passed", "unverified", "failed"}, linked[p] \/ o = "passed",
             outcome' = [outcome EXCEPT ![p] = o],
             Goto(p, IF linked[p] THEN "report" ELSE "ensure"),
             UNCHANGED <<mine, fd, runfd, run, captured, edited, linked>>
      PROVE  /\ TypeOK' /\ Rest(p)
             /\ \/ /\ linked[p] /\ Continues(p, "report") /\ mine' = mine /\ run' = run
                \/ /\ ~linked[p] /\ Continues(p, "ensure") /\ outcome'[p] = "passed"
                   /\ mine' = mine /\ run' = run
  <2> DEFINE where == IF linked[p] THEN "report" ELSE "ensure"
  <2>1. where \in Location
    BY Locations DEF Recording
  <2>2. /\ linked[p] => where = "report"
        /\ ~linked[p] => where = "ensure" /\ o = "passed"
    BY <1>3
  <2>3. Goto(p, where)
    BY <1>3
  <2> HIDE DEF where
  <2>4. /\ pc' \in [Process -> Location] /\ pc'[p] = where
        /\ \A q \in Process : q # p => pc'[q] = pc[q]
    BY <2>1, <2>3, GotoEffect
  <2>5. /\ outcome' \in [Process -> Outcome] /\ outcome'[p] = o
        /\ \A q \in Process : q # p => outcome'[q] = outcome[q]
    BY <1>3 DEF TypeOK, Outcome
  <2>6. TypeOK'
    BY <1>1, <1>3, <2>4, <2>5 DEF TypeOK, files
  <2> QED
    BY <1>3, <2>2, <2>4, <2>5, <2>6 DEF Rest, Continues
<1> QED
  BY <1>2, <1>3 DEF Inspect

LEMMA ReportEffect ==
    ASSUME TypeOK, NEW p \in Process, Report(p)
    PROVE  /\ TypeOK' /\ Rest(p) /\ Continues(p, "truncate flow") /\ outcome' = outcome
           /\ mine' = mine /\ run' = run
<1>1. /\ pc' \in [Process -> Location] /\ pc'[p] = "truncate flow"
      /\ \A q \in Process : q # p => pc'[q] = pc[q]
  BY GotoEffect, Locations DEF Report, Recording
<1> QED
  BY <1>1 DEF TypeOK, Report, Rest, Continues, locals

LEMMA TruncateFlowEffect ==
    ASSUME TypeOK, NEW p \in Process, TruncateFlow(p)
    PROVE  /\ TypeOK' /\ Rest(p) /\ Continues(p, "write flow") /\ outcome' = outcome
           /\ mine' = mine /\ run' = run
<1>1. /\ pc' \in [Process -> Location] /\ pc'[p] = "write flow"
      /\ \A q \in Process : q # p => pc'[q] = pc[q]
  BY GotoEffect, Locations DEF TruncateFlow, Recording
<1>2. flow' \in FlowStatus
  BY DEF TruncateFlow, FlowStatus
<1> QED
  BY <1>1, <1>2 DEF TypeOK, TruncateFlow, Rest, Continues, locals

LEMMA WriteFlowEffect ==
    ASSUME TypeOK, NEW p \in Process, WriteFlow(p)
    PROVE  /\ TypeOK' /\ Rest(p)
           /\ \/ /\ Continues(p, "ensure") /\ outcome[p] = "passed" /\ outcome' = outcome
                 /\ mine' = mine /\ run' = run
              \/ /\ Over(p) /\ fd' = [fd EXCEPT ![p] = "none"]
<1>1. UNCHANGED <<durable, session, tmp, runs, runtmp, manifests, report, workspace, left,
                  overlaps, mishap>>
  BY DEF WriteFlow
<1>2. flow' \in FlowStatus
  BY DEF WriteFlow, MixedStatus, Verdict, FlowStatus
<1>3. CASE Return(p)
  <2>1. LocalsOK' /\ Rest(p) /\ Over(p) /\ fd' = [fd EXCEPT ![p] = "none"]
    BY <1>3, ReturnEffect
  <2> QED
    BY <1>1, <1>2, <2>1 DEF LocalsOK, TypeOK
<1>4. CASE outcome[p] = "passed" /\ Goto(p, "ensure") /\ UNCHANGED <<fd, locals>>
  <2>1. /\ pc' \in [Process -> Location] /\ pc'[p] = "ensure"
        /\ \A q \in Process : q # p => pc'[q] = pc[q]
    BY <1>4, GotoEffect, Locations
  <2> QED
    BY <1>1, <1>2, <1>4, <2>1 DEF TypeOK, Rest, Continues, locals
<1> QED
  BY <1>3, <1>4 DEF WriteFlow

LEMMA CheckpointEffect ==
    ASSUME TypeOK, NEW p \in Process, Checkpoint(p)
    PROVE  /\ TypeOK' /\ Rest(p) /\ Continues(p, "edit") /\ outcome' = outcome /\ mine' = mine
           /\ run' = run /\ captured'[p] = workspace
<1>1. /\ pc' \in [Process -> Location] /\ pc'[p] = "edit"
      /\ \A q \in Process : q # p => pc'[q] = pc[q]
  BY GotoEffect, Locations DEF Checkpoint, Applying
<1>2. /\ captured' \in [Process -> [File -> Process \cup {None}]] /\ captured'[p] = workspace
      /\ \A q \in Process : q # p => captured'[q] = captured[q]
  BY DEF TypeOK, Checkpoint
<1>3. overlaps' \subseteq {"save", "finish", "record", "apply"}
  BY DEF TypeOK, Checkpoint
<1> QED
  BY <1>1, <1>2, <1>3 DEF TypeOK, Checkpoint, Rest, Continues, files

LEMMA EditFileEffect ==
    ASSUME TypeOK, NEW p \in Process, NEW f \in File, EditFile(p, f)
    PROVE  /\ TypeOK' /\ Rest(p) /\ pc'[p] \in {"edit", "register"}
           /\ pc'[p] = "register" => edited'[p] = File
           /\ edited'[p] = edited[p] \cup {f} /\ fd' = fd
           /\ \A g \in File : workspace'[g] = IF g = f THEN p ELSE workspace[g]
           /\ mine' = mine /\ run' = run /\ outcome' = outcome /\ captured' = captured
<1>1. /\ edited' \in [Process -> SUBSET File] /\ edited'[p] = edited[p] \cup {f}
      /\ \A q \in Process : q # p => edited'[q] = edited[q]
  BY DEF TypeOK, EditFile
<1> DEFINE where == IF edited'[p] = File THEN "register" ELSE "edit"
<1>2. /\ where \in Location /\ where \in {"edit", "register"}
      /\ where = "register" => edited'[p] = File
  BY Locations DEF Applying
<1>3. Goto(p, where)
  BY DEF EditFile
<1> HIDE DEF where
<1>4. /\ pc' \in [Process -> Location] /\ pc'[p] = where
      /\ \A q \in Process : q # p => pc'[q] = pc[q]
  BY <1>2, <1>3, GotoEffect
<1>5. /\ workspace' \in [File -> Process \cup {None}]
      /\ \A g \in File : workspace'[g] = IF g = f THEN p ELSE workspace[g]
  BY DEF TypeOK, EditFile
<1>6. UNCHANGED <<durable, session, tmp, runs, runtmp, manifests, flow, report, fd, mine, runfd,
                  run, outcome, captured, linked, left, overlaps, mishap>>
  BY DEF EditFile
<1>7. TypeOK'
  BY <1>1, <1>4, <1>5, <1>6 DEF TypeOK
<1> QED
  BY <1>1, <1>2, <1>4, <1>5, <1>6, <1>7 DEF Rest

LEMMA RegisterEffect ==
    ASSUME TypeOK, OutcomeInv, NEW p \in Process, Register(p)
    PROVE  TypeOK' /\ Rest(p) /\ Over(p) /\ fd' = [fd EXCEPT ![p] = "none"]
<1>1. LocalsOK' /\ Rest(p) /\ Over(p) /\ fd' = [fd EXCEPT ![p] = "none"]
  BY ReturnEffect DEF Register
<1>2. run[p] \in Run
  BY DEF OutcomeInv, Register, Applying
<1>3. manifests' \subseteq Run
  BY <1>2 DEF TypeOK, Register
<1> QED
  BY <1>1, <1>3 DEF LocalsOK, TypeOK, Register

-----------------------------------------------------------------------------
(* The type invariant, with what is known of outcome and run.              *)
Step(p) == Save(p) \/ Execute(p) \/ Archive(p) \/ CompleteEdits(p) \/ Apply(p) \/ Crash(p)

LEMMA InitType == Init => TypeOK
<1> SUFFICES ASSUME Init PROVE TypeOK
  OBVIOUS
<1>1. /\ session \in Content /\ tmp \in Content /\ mine \in [Process -> Saved]
  BY SavedFields, FreshSaved DEF Init
<1>2. /\ flow \in FlowStatus /\ report \in Outcome /\ outcome \in [Process -> Outcome]
      /\ runs \in [Run -> RunStatus] /\ runtmp \in [Run -> RunStatus] /\ pc \in [Process -> Location]
  BY DEF Init, FlowStatus, Outcome, RunStatus, Location
<1>3. /\ workspace \in [File -> Process \cup {None}]
      /\ captured \in [Process -> [File -> Process \cup {None}]]
  BY DEF Init
<1>4. left \in 0..Calls
  BY SessionAssumption DEF Init
<1>5. /\ durable \in BOOLEAN /\ manifests \subseteq Run /\ run \in [Process -> Run \cup {None}]
      /\ fd \in [Process -> Place] /\ runfd \in [Process -> Place]
      /\ edited \in [Process -> SUBSET File] /\ linked \in [Process -> BOOLEAN]
      /\ overlaps \subseteq {"save", "finish", "record", "apply"} /\ mishap \in BOOLEAN
  BY SessionAssumption DEF Init, Place
<1> QED
  BY <1>1, <1>2, <1>3, <1>4, <1>5 DEF TypeOK

LEMMA InitOutcome == Init => OutcomeInv
BY DEF Init, OutcomeInv, Applying, Running

(* What OutcomeInv says of one call.                                       *)
Knows(p) ==
    /\ pc[p] = "finish" => outcome[p] \in {"passed", "failed", "other"}
    /\ pc[p] \in {"ensure", "save ensured"} => outcome[p] = "passed"
    /\ pc[p] \in Applying \cup Running => run[p] \in Run

LEMMA StepKnows ==
    ASSUME TypeOK, OutcomeInv, NEW p \in Process, Step(p)
    PROVE  TypeOK' /\ Rest(p) /\ Knows(p)'
<1>1. Knows(p)
  BY DEF OutcomeInv, Knows
<1> USE DEF Applying, Running
<1>2. ASSUME TypeOK', Rest(p), Over(p) PROVE TypeOK' /\ Rest(p) /\ Knows(p)'
  BY <1>2 DEF Over, Knows
<1>3. CASE OpenTmp(p)
  BY <1>1, <1>3, OpenTmpEffect DEF Knows
<1>4. CASE FillTmp(p)
  BY <1>1, <1>4, FillTmpEffect DEF Knows
<1>5. CASE Replace(p)
  <2>1. \/ Over(p)
        \/ pc'[p] = AfterSave(pc[p]) /\ outcome' = outcome /\ run' = run
    BY <1>5, ReplaceEffect
  <2>2. TypeOK' /\ Rest(p) /\ pc[p] \in Saving
    BY <1>5, ReplaceEffect DEF Replace
  <2>3. CASE pc'[p] = AfterSave(pc[p]) /\ outcome' = outcome /\ run' = run
    BY <1>1, <2>2, <2>3 DEF Knows, AfterSave, Saving
  <2> QED
    BY <1>2, <2>1, <2>2, <2>3
<1>6. CASE ReplaceFails(p)
  BY <1>2, <1>6, ReplaceFailsEffect
<1>7. CASE StartRun(p) \/ Resume(p)
  BY <1>7, StartRunEffect DEF Knows, Begins
<1>8. CASE CreateRun(p)
  BY <1>8, CreateRunEffect DEF Knows, Continues, Mints
<1>9. CASE Work(p)
  BY <1>1, <1>9, WorkEffect DEF Knows, Continues, Work
<1>10. CASE Finish(p)
  <2>1. TypeOK' /\ Rest(p) /\ pc[p] = "finish"
    BY <1>10, FinishEffect
  <2>2. \/ pc'[p] \in {"finish", "save final"} /\ outcome' = outcome /\ run' = run
        \/ Over(p)
    BY <1>10, FinishEffect DEF Continues
  <2> QED
    BY <1>1, <1>2, <2>1, <2>2 DEF Knows
<1>11. CASE Archive(p)
  BY <1>11, ArchiveEffect DEF Knows, Begins
<1>12. ASSUME NEW link \in BOOLEAN, AgentEdits(p, link) PROVE TypeOK' /\ Rest(p) /\ Knows(p)'
  BY <1>12, AgentEditsEffect DEF Knows, Begins
<1>13. CASE Inspect(p)
  <2>1. TypeOK' /\ Rest(p)
    BY <1>13, InspectEffect
  <2>2. \/ Continues(p, "report")
        \/ Continues(p, "ensure") /\ outcome'[p] = "passed"
        \/ Over(p)
    BY <1>13, InspectEffect
  <2> QED
    BY <1>2, <2>1, <2>2 DEF Knows, Continues
<1>14. CASE Report(p)
  BY <1>14, ReportEffect DEF Knows, Continues
<1>15. CASE TruncateFlow(p)
  BY <1>15, TruncateFlowEffect DEF Knows, Continues
<1>16. CASE WriteFlow(p)
  <2>1. TypeOK' /\ Rest(p)
    BY <1>16, WriteFlowEffect
  <2>2. \/ Continues(p, "ensure") /\ outcome[p] = "passed" /\ outcome' = outcome
        \/ Over(p)
    BY <1>16, WriteFlowEffect
  <2> QED
    BY <1>2, <2>1, <2>2 DEF Knows, Continues
<1>17. CASE EnsureRun(p)
  <2>1. TypeOK' /\ Rest(p) /\ outcome[p] = "passed"
    BY <1>1, <1>17, EnsureRunEffect DEF Knows, EnsureRun
  <2>2. \/ pc'[p] \in {"finish", "save ensured"} /\ outcome' = outcome /\ run'[p] \in Run
        \/ Over(p)
    BY <1>17, EnsureRunEffect DEF Continues, Mints
  <2> QED
    BY <1>2, <2>1, <2>2 DEF Knows
<1>18. CASE DurableApply(p)
  <2>1. TypeOK' /\ Rest(p) /\ run'[p] = session.active
    BY <1>18, DurableApplyEffect
  <2>2. pc'[p] = "mint" \/ (pc'[p] = "checkpoint" /\ session.active \in Run)
    BY <1>18, DurableApplyEffect DEF Begins
  <2> QED
    BY <2>1, <2>2 DEF Knows
<1>19. CASE Mint(p)
  BY <1>19, MintsEffect DEF Knows, Continues, Mints
<1>20. CASE Checkpoint(p)
  BY <1>1, <1>20, CheckpointEffect DEF Knows, Continues, Checkpoint
<1>21. ASSUME NEW f \in File, EditFile(p, f) PROVE TypeOK' /\ Rest(p) /\ Knows(p)'
  BY <1>1, <1>21, EditFileEffect DEF Knows, EditFile
<1>22. CASE ApplyFails(p)
  BY <1>2, <1>22, ApplyFailsEffect
<1>23. CASE Register(p)
  BY <1>2, <1>23, RegisterEffect
<1>24. CASE Crash(p)
  BY <1>2, <1>24, CrashEffect
<1> QED
  BY <1>3, <1>4, <1>5, <1>6, <1>7, <1>8, <1>9, <1>10, <1>11, <1>12, <1>13, <1>14, <1>15, <1>16,
     <1>17, <1>18, <1>19, <1>20, <1>21, <1>22, <1>23, <1>24
  DEF Step, Save, Execute, CompleteEdits, Apply

LEMMA Steps == Next => \E p \in Process : Step(p)
BY DEF Next, Step

LEMMA NextType == TypeOK /\ OutcomeInv /\ [Next]_vars => TypeOK' /\ OutcomeInv'
<1> SUFFICES ASSUME TypeOK, OutcomeInv, [Next]_vars PROVE TypeOK' /\ OutcomeInv'
  OBVIOUS
<1>1. ASSUME NEW p \in Process, Step(p) PROVE TypeOK' /\ OutcomeInv'
  <2>1. TypeOK' /\ Rest(p) /\ Knows(p)'
    BY <1>1, StepKnows
  <2>2. ASSUME NEW q \in Process PROVE Knows(q)'
    <3>1. Knows(q)
      BY DEF OutcomeInv, Knows
    <3> QED
      BY <2>1, <3>1 DEF Rest, Knows
  <2> QED
    BY <2>1, <2>2 DEF OutcomeInv, Knows
<1>2. CASE UNCHANGED vars
  BY <1>2 DEF TypeOK, OutcomeInv, vars, files, locals
<1> QED
  BY <1>1, <1>2, Steps

-----------------------------------------------------------------------------
(* Without overlap, nobody meets half a session.                           *)

(* What the steps besides those that save leave alone.                     *)
LEMMA Elsewhere ==
    ASSUME TypeOK, OutcomeInv, NEW p \in Process,
           Execute(p) \/ Archive(p) \/ CompleteEdits(p) \/ Apply(p)
    PROVE  /\ pc[p] \notin Saving /\ session' = session /\ tmp' = tmp
           /\ mishap' = mishap \/ mishap'
           /\ "save" \in overlaps' <=> "save" \in overlaps
           /\ fd' = fd \/ fd' = [fd EXCEPT ![p] = "none"]
<1>1. CASE Execute(p) \/ Archive(p)
  <2>1. CASE StartRun(p) \/ Resume(p) \/ CreateRun(p) \/ Work(p) \/ Archive(p)
    BY <2>1 DEF Archive, StartRun, Resume, Load, CreateRun, Work, Saving, files
  <2>2. CASE Finish(p)
    BY <2>2, FinishEffect DEF Continues, Saving
  <2> QED
    BY <1>1, <2>1, <2>2 DEF Execute
<1>2. CASE CompleteEdits(p)
  <2>1. ASSUME NEW link \in BOOLEAN, AgentEdits(p, link)
        PROVE  /\ pc[p] = "idle" /\ session' = session /\ tmp' = tmp /\ mishap' = mishap
               /\ "save" \in overlaps' <=> "save" \in overlaps
               /\ fd' = fd
    BY <2>1 DEF AgentEdits, Load, files
  <2>2. CASE Inspect(p)
    BY <2>2 DEF Inspect, Return, Saving, files
  <2>3. CASE Report(p) \/ TruncateFlow(p)
    BY <2>3 DEF Report, TruncateFlow, Saving
  <2>4. CASE WriteFlow(p)
    BY <2>4 DEF WriteFlow, Return, Saving
  <2>5. CASE EnsureRun(p)
    BY <2>5, EnsureRunEffect DEF EnsureRun, Continues, Saving
  <2> QED
    BY <1>2, <2>1, <2>2, <2>3, <2>4, <2>5 DEF CompleteEdits, Saving
<1>3. CASE Apply(p)
  <2>1. CASE DurableApply(p) \/ Mint(p)
    BY <2>1 DEF DurableApply, Load, Mint, Saving, files
  <2>2. CASE Checkpoint(p)
    BY <2>2 DEF Checkpoint, Saving, files
  <2>3. ASSUME NEW f \in File, EditFile(p, f)
        PROVE  /\ pc[p] = "edit" /\ session' = session /\ tmp' = tmp /\ mishap' = mishap
               /\ overlaps' = overlaps /\ fd' = fd
    BY <2>3 DEF EditFile
  <2>4. CASE ApplyFails(p)
    BY <2>4 DEF ApplyFails, Return, Saving
  <2>5. CASE Register(p)
    BY <2>5 DEF Register, Return, Saving
  <2> QED
    BY <1>3, <2>1, <2>2, <2>3, <2>4, <2>5 DEF Apply, Saving
<1> QED
  BY <1>1, <1>2, <1>3

LEMMA InitSave == Init => SaveInv
BY FreshSaved DEF Init, SaveInv

LEMMA NextSave == TypeOK /\ OutcomeInv /\ SaveInv /\ [Next]_vars => SaveInv'
<1> SUFFICES ASSUME TypeOK, OutcomeInv, SaveInv, [Next]_vars PROVE SaveInv'
  OBVIOUS
<1>1. ASSUME NEW p \in Process, Execute(p) \/ Archive(p) \/ CompleteEdits(p) \/ Apply(p)
      PROVE  SaveInv'
  <2>1. /\ pc[p] \notin Saving /\ session' = session /\ tmp' = tmp
        /\ "save" \in overlaps' <=> "save" \in overlaps
        /\ fd' = fd \/ fd' = [fd EXCEPT ![p] = "none"]
    BY <1>1, Elsewhere
  <2>2. fd[p] = "none"
    BY <2>1 DEF SaveInv
  <2>3. fd' = fd
    BY <2>1, <2>2 DEF TypeOK
  <2>4. Rest(p)
    BY <1>1, StepKnows DEF Step
  <2>5. ASSUME NEW q \in Process, fd[q] # "none" PROVE pc'[q] = pc[q] /\ mine'[q] = mine[q]
    BY <2>2, <2>4, <2>5 DEF Rest
  <2> QED
    BY <2>1, <2>3, <2>5 DEF SaveInv
<1>2. ASSUME NEW p \in Process, OpenTmp(p) PROVE SaveInv'
  <2>1. /\ pc' = pc /\ mine' = mine /\ fd'[p] = "tmp" /\ \A q \in Process : q # p => fd'[q] = fd[q]
    BY <1>2, OpenTmpEffect
  <2>2. /\ pc[p] \in Saving /\ tmp' = Unreadable("empty") /\ session' = session
        /\ "save" \in overlaps => "save" \in overlaps'
        /\ "save" \notin overlaps' => \A q \in Process : q # p => pc[q] \notin Saving
    BY <1>2 DEF OpenTmp, Meets
  <2>3. "save" \notin overlaps' => \A q \in Process : q # p => fd'[q] = "none"
    BY <2>1, <2>2 DEF SaveInv
  <2> QED
    BY <2>1, <2>2, <2>3 DEF SaveInv
<1>3. ASSUME NEW p \in Process, FillTmp(p) PROVE SaveInv'
  <2>1. /\ pc' = pc /\ mine' = mine /\ fd'[p] = "filled"
        /\ \A q \in Process : q # p => fd'[q] = fd[q]
    BY <1>3, FillTmpEffect
  <2>2. pc[p] \in Saving /\ fd[p] \in {"tmp", "path", "lost"} /\ overlaps' = overlaps
    BY <1>3 DEF FillTmp
  <2>3. ASSUME "save" \notin overlaps
        PROVE  /\ session' = session /\ tmp' = mine[p]
               /\ \A q \in Process : q # p => fd[q] = "none"
    <3>1. fd[p] = "tmp" /\ tmp = Unreadable("empty")
      BY <2>2, <2>3 DEF SaveInv
    <3>2. Mixed(tmp, mine[p]) = {mine[p]}
      BY <3>1 DEF Mixed
    <3>3. \A q \in Process : q # p => fd[q] = "none"
      BY <2>3, <3>1 DEF SaveInv
    <3> QED
      BY <1>3, <3>1, <3>2, <3>3 DEF FillTmp
  <2> QED
    BY <2>1, <2>2, <2>3 DEF SaveInv
<1>4. ASSUME NEW p \in Process, Replace(p) PROVE SaveInv'
  <2>1. /\ Rest(p) /\ session' = tmp
        /\ fd'[p] = "none" /\ \A q \in Process : q # p => fd'[q] = Moved(fd[q])
    BY <1>4, ReplaceEffect
  <2>2. fd[p] = "filled" /\ overlaps' = overlaps
    BY <1>4 DEF Replace
  <2>3. Moved("none") = "none"
    BY DEF Moved
  <2>4. \A q \in Process : fd'[q] # "none" => q # p /\ fd[q] # "none" /\ pc'[q] = pc[q]
    BY <2>1, <2>3 DEF Rest
  <2>5. ASSUME "save" \notin overlaps
        PROVE  session' \in Saved /\ \A q \in Process : fd'[q] = "none"
    <3>1. tmp = mine[p] /\ \A q \in Process : q # p => fd[q] = "none"
      BY <2>2, <2>5 DEF SaveInv
    <3>2. mine[p] \in Saved
      BY DEF TypeOK
    <3> QED
      BY <2>1, <2>3, <3>1, <3>2
  <2> QED
    BY <2>2, <2>4, <2>5 DEF SaveInv
<1>5. ASSUME NEW p \in Process, ReplaceFails(p) \/ Crash(p) PROVE SaveInv'
  <2>1. Rest(p) /\ fd' = [fd EXCEPT ![p] = "none"]
    BY <1>5, ReplaceFailsEffect, CrashEffect
  <2>2. session' = session /\ tmp' = tmp /\ overlaps' = overlaps
    BY <1>5 DEF ReplaceFails, Crash, files
  <2>3. \A q \in Process : fd'[q] # "none" =>
           q # p /\ fd'[q] = fd[q] /\ pc'[q] = pc[q] /\ mine'[q] = mine[q]
    BY <2>1 DEF Rest, TypeOK
  <2>4. \A q \in Process : fd'[q] \in {fd[q], "none"}
    BY <2>1 DEF TypeOK
  <2> QED
    BY <2>2, <2>3, <2>4 DEF SaveInv
<1>6. CASE UNCHANGED vars
  BY <1>6 DEF SaveInv, vars, files, locals
<1> QED
  BY <1>1, <1>2, <1>3, <1>4, <1>5, <1>6 DEF Next, Save

-----------------------------------------------------------------------------
(* Whatever copy of the session names a run, the run exists.               *)
LEMMA RunsStay ==
    ASSUME TypeOK, OutcomeInv, NEW p \in Process, Step(p)
    PROVE  \A r \in Run : runs[r] # "absent" => runs'[r] # "absent"
<1>1. CASE CreateRun(p)
  BY <1>1, CreateRunEffect DEF Mints
<1>2. CASE Mint(p)
  BY <1>2, MintsEffect DEF Mints
<1>3. CASE EnsureRun(p)
  BY <1>3, EnsureRunEffect DEF Mints
<1>4. CASE Finish(p)
  BY <1>4, FinishEffect
<1>5. CASE Save(p) \/ Archive(p) \/ Crash(p)
  BY <1>5 DEF Save, OpenTmp, FillTmp, Replace, ReplaceFails, Archive, Crash, files
<1>6. CASE StartRun(p) \/ Resume(p) \/ Work(p)
  BY <1>6 DEF StartRun, Resume, Work, files
<1>7. ASSUME NEW link \in BOOLEAN, AgentEdits(p, link) PROVE runs' = runs
  BY <1>7 DEF AgentEdits, files
<1>8. CASE Inspect(p) \/ Report(p) \/ TruncateFlow(p) \/ WriteFlow(p)
  BY <1>8 DEF Inspect, Report, TruncateFlow, WriteFlow, files
<1>9. CASE DurableApply(p) \/ Checkpoint(p) \/ ApplyFails(p) \/ Register(p)
  BY <1>9 DEF DurableApply, Checkpoint, ApplyFails, Register, files
<1>10. ASSUME NEW f \in File, EditFile(p, f) PROVE runs' = runs
  BY <1>10 DEF EditFile
<1> QED
  BY <1>1, <1>2, <1>3, <1>4, <1>5, <1>6, <1>7, <1>8, <1>9, <1>10
  DEF Step, Execute, CompleteEdits, Apply

(* Where a call has its copy from, and the files theirs.                   *)
LEMMA Sources ==
    ASSUME TypeOK, OutcomeInv, NEW p \in Process, Step(p)
    PROVE  /\ mine'[p].active \in {None, mine[p].active, session.active} \/ Mints(p)
           /\ session' \in {session, tmp, mine[p], Unreadable("torn")}
           /\ tmp' \in {tmp, mine[p], Unreadable("torn"), Unreadable("empty"),
                        Unreadable("absent")}
<1>1. ASSUME Over(p) PROVE mine'[p].active = None
  BY <1>1, FreshSaved DEF Over
<1>2. ASSUME Execute(p) \/ Archive(p) \/ CompleteEdits(p) \/ Apply(p)
      PROVE  mine'[p].active \in {None, mine[p].active, session.active} \/ Mints(p)
  <2>1. CASE StartRun(p) \/ Resume(p)
    BY <2>1, StartRunEffect
  <2>2. CASE CreateRun(p)
    BY <2>2, CreateRunEffect
  <2>3. CASE Work(p)
    BY <2>3, WorkEffect
  <2>4. CASE Finish(p)
    BY <1>1, <2>4, FinishEffect
  <2>5. CASE Archive(p)
    BY <2>5, ArchiveEffect
  <2>6. ASSUME NEW link \in BOOLEAN, AgentEdits(p, link) PROVE mine'[p] = session
    BY <2>6, AgentEditsEffect
  <2>7. CASE Inspect(p)
    BY <1>1, <2>7, InspectEffect
  <2>8. CASE Report(p)
    BY <2>8, ReportEffect
  <2>9. CASE TruncateFlow(p)
    BY <2>9, TruncateFlowEffect
  <2>10. CASE WriteFlow(p)
    BY <1>1, <2>10, WriteFlowEffect
  <2>11. CASE EnsureRun(p)
    BY <1>1, <2>11, EnsureRunEffect
  <2>12. CASE DurableApply(p)
    BY <2>12, DurableApplyEffect
  <2>13. CASE Mint(p)
    BY <2>13, MintsEffect
  <2>14. CASE Checkpoint(p)
    BY <2>14, CheckpointEffect
  <2>15. ASSUME NEW f \in File, EditFile(p, f) PROVE mine' = mine
    BY <2>15, EditFileEffect
  <2>16. CASE ApplyFails(p)
    BY <1>1, <2>16, ApplyFailsEffect
  <2>17. CASE Register(p)
    BY <1>1, <2>17, RegisterEffect
  <2> QED
    BY <1>2, <2>1, <2>2, <2>3, <2>4, <2>5, <2>6, <2>7, <2>8, <2>9, <2>10, <2>11, <2>12,
       <2>13, <2>14, <2>15, <2>16, <2>17
    DEF Execute, CompleteEdits, Apply
<1>3. CASE OpenTmp(p)
  BY <1>3, OpenTmpEffect DEF OpenTmp
<1>4. CASE FillTmp(p)
  BY <1>4, FillTmpEffect
<1>5. CASE Replace(p)
  BY <1>1, <1>5, ReplaceEffect
<1>6. CASE ReplaceFails(p)
  BY <1>1, <1>6, ReplaceFailsEffect DEF ReplaceFails, files
<1>7. CASE Crash(p)
  BY <1>1, <1>7, CrashEffect DEF Crash, files
<1> QED
  BY <1>2, <1>3, <1>4, <1>5, <1>6, <1>7, Elsewhere DEF Step, Save

LEMMA InitExist == Init => ExistInv
BY FreshSaved, SavedFields DEF Init, ExistInv, Exists

LEMMA NextExist == TypeOK /\ OutcomeInv /\ ExistInv /\ [Next]_vars => ExistInv'
<1> SUFFICES ASSUME TypeOK, OutcomeInv, ExistInv, [Next]_vars PROVE ExistInv'
  OBVIOUS
<1>1. ASSUME NEW p \in Process, Step(p) PROVE ExistInv'
  <2>1. \A r \in Run : runs[r] # "absent" => runs'[r] # "absent"
    BY <1>1, RunsStay
  <2>2. /\ session.active \in Run \cup {None} /\ tmp.active \in Run \cup {None}
        /\ \A q \in Process : mine[q].active \in Run \cup {None}
    BY SavedFields DEF TypeOK
  <2>3. \A s \in {"torn", "empty", "absent"} : Unreadable(s).active = None
    BY DEF Unreadable
  <2>4. /\ session'.active # None => runs'[session'.active] # "absent"
        /\ tmp'.active # None => runs'[tmp'.active] # "absent"
    BY <1>1, <2>1, <2>2, <2>3, Sources DEF ExistInv, Exists
  <2>5. mine'[p].active # None => runs'[mine'[p].active] # "absent"
    BY <1>1, <2>1, <2>2, Sources DEF ExistInv, Exists, Mints
  <2>6. Rest(p)
    BY <1>1, StepKnows
  <2>7. \A q \in Process : mine'[q].active # None => runs'[mine'[q].active] # "absent"
    BY <2>1, <2>2, <2>5, <2>6 DEF ExistInv, Exists, Rest
  <2> QED
    BY <2>4, <2>7 DEF ExistInv, Exists
<1>2. CASE UNCHANGED vars
  BY <1>2 DEF ExistInv, Exists, vars, files, locals
<1> QED
  BY <1>1, <1>2, Steps

-----------------------------------------------------------------------------
(* Without overlap, nobody meets half a run.                               *)

(* What the steps that do not finish a run make of the runs.               *)
LEMMA OffFinish ==
    ASSUME TypeOK, OutcomeInv, NEW p \in Process, Step(p), ~Finish(p)
    PROVE  /\ runtmp' = runtmp
           /\ "finish" \in overlaps' <=> "finish" \in overlaps
           /\ \/ runfd' = runfd /\ pc[p] # "finish"
              \/ runfd' = [runfd EXCEPT ![p] = "none"]
           /\ \/ runs' = runs
              \/ \E r \in Run : runs' = [runs EXCEPT ![r] = "running"]
<1>1. CASE Save(p)
  <2>1. CASE OpenTmp(p) \/ FillTmp(p)
    BY <2>1 DEF OpenTmp, FillTmp, Saving, locals
  <2>2. CASE Replace(p)
    BY <2>2 DEF Replace, Forget, Saving, locals
  <2>3. CASE ReplaceFails(p)
    BY <2>3 DEF ReplaceFails, Return, Forget, Saving, files
  <2> QED
    BY <1>1, <2>1, <2>2, <2>3 DEF Save
<1>2. CASE Execute(p) \/ Archive(p)
  <2>1. CASE StartRun(p) \/ Resume(p) \/ Work(p) \/ Archive(p)
    BY <2>1 DEF StartRun, Resume, Work, Archive, Load, files
  <2>2. CASE CreateRun(p)
    BY <2>2 DEF CreateRun
  <2> QED
    BY <1>2, <2>1, <2>2 DEF Execute
<1>3. CASE CompleteEdits(p)
  <2>1. ASSUME NEW link \in BOOLEAN, AgentEdits(p, link)
        PROVE  /\ runtmp' = runtmp /\ runfd' = runfd /\ runs' = runs /\ pc[p] # "finish"
               /\ "finish" \in overlaps' <=> "finish" \in overlaps
    BY <2>1 DEF AgentEdits, Load, files
  <2>2. CASE Inspect(p)
    BY <2>2 DEF Inspect, Return, Forget, files
  <2>3. CASE Report(p) \/ TruncateFlow(p)
    BY <2>3 DEF Report, TruncateFlow, locals
  <2>4. CASE WriteFlow(p)
    BY <2>4 DEF WriteFlow, Return, Forget, locals
  <2>5. CASE EnsureRun(p)
    BY <2>5 DEF EnsureRun, Return, Forget
  <2> QED
    BY <1>3, <2>1, <2>2, <2>3, <2>4, <2>5 DEF CompleteEdits
<1>4. CASE Apply(p)
  <2>1. CASE DurableApply(p) \/ Checkpoint(p)
    BY <2>1 DEF DurableApply, Load, Checkpoint, files
  <2>2. CASE Mint(p)
    BY <2>2 DEF Mint
  <2>3. ASSUME NEW f \in File, EditFile(p, f)
        PROVE  /\ runtmp' = runtmp /\ runfd' = runfd /\ runs' = runs /\ pc[p] # "finish"
               /\ overlaps' = overlaps
    BY <2>3 DEF EditFile
  <2>4. CASE ApplyFails(p) \/ Register(p)
    BY <2>4 DEF ApplyFails, Register, Return, Forget
  <2> QED
    BY <1>4, <2>1, <2>2, <2>3, <2>4 DEF Apply
<1>5. CASE Crash(p)
  BY <1>5 DEF Crash, Return, Forget, files
<1> QED
  BY <1>1, <1>2, <1>3, <1>4, <1>5 DEF Step

LEMMA InitFinish == Init => FinishInv
BY DEF Init, FinishInv

LEMMA NextFinish == TypeOK /\ OutcomeInv /\ FinishInv /\ [Next]_vars => FinishInv'
<1> SUFFICES ASSUME TypeOK, OutcomeInv, FinishInv, [Next]_vars PROVE FinishInv'
  OBVIOUS
<1>1. ASSUME NEW p \in Process, Step(p), ~Finish(p) PROVE FinishInv'
  <2>1. /\ Rest(p) /\ runtmp' = runtmp
        /\ "finish" \in overlaps' <=> "finish" \in overlaps
        /\ \/ runfd' = runfd /\ pc[p] # "finish"
           \/ runfd' = [runfd EXCEPT ![p] = "none"]
    BY <1>1, OffFinish, StepKnows
  <2>2. ASSUME NEW q \in Process, runfd'[q] # "none"
        PROVE  /\ q # p /\ runfd'[q] = runfd[q] /\ pc'[q] = pc[q] /\ run'[q] = run[q]
               /\ outcome'[q] = outcome[q]
    <3>1. q # p
      BY <2>1, <2>2 DEF FinishInv, TypeOK
    <3>2. runfd'[q] = runfd[q]
      BY <2>1, <3>1 DEF TypeOK
    <3> QED
      BY <2>1, <3>1, <3>2 DEF Rest
  <2>3. "finish" \notin overlaps => \A r \in Run : runs'[r] \in Loadable \cup {"absent"}
    <3>1. runs' = runs \/ \E r \in Run : runs' = [runs EXCEPT ![r] = "running"]
      BY <1>1, OffFinish
    <3>2. \A r \in Run : runs'[r] \in {runs[r], "running"}
      BY <3>1 DEF TypeOK
    <3> QED
      BY <3>2 DEF FinishInv, Loadable
  <2>4. \A q \in Process : runfd'[q] \in {"none", runfd[q]}
    BY <2>2
  <2> QED
    BY <2>1, <2>2, <2>3, <2>4 DEF FinishInv
<1>2. ASSUME NEW p \in Process, OpenRun(p) PROVE FinishInv'
  <2>1. pc[p] = "finish" /\ run[p] \in Run
    BY <1>2, EndedIs DEF OpenRun
  <2>2. /\ pc' = pc /\ run' = run /\ outcome' = outcome /\ runs' = runs
        /\ runfd'[p] = "tmp" /\ \A q \in Process : q # p => runfd'[q] = runfd[q]
        /\ runtmp'[run[p]] = "empty"
        /\ \A r \in Run : r # run[p] => runtmp'[r] = runtmp[r]
    BY <1>2, <2>1 DEF OpenRun, TypeOK
  <2>3. /\ "finish" \in overlaps => "finish" \in overlaps'
        /\ "finish" \notin overlaps' =>
              \A q \in Process : q # p /\ run[q] = run[p] => pc[q] # "finish"
    BY <1>2 DEF OpenRun
  <2>4. "finish" \notin overlaps' =>
            \A q \in Process : q # p /\ run[q] = run[p] => runfd'[q] = "none"
    BY <2>2, <2>3 DEF FinishInv
  <2>5. ASSUME "finish" \notin overlaps', NEW q \in Process, q # p, runfd'[q] # "none"
        PROVE  runtmp'[run'[q]] = runtmp[run[q]]
    <3>1. pc[q] = "finish" /\ run[q] # run[p]
      BY <2>2, <2>4, <2>5 DEF FinishInv
    <3>2. run[q] \in Run
      BY <3>1, EndedIs
    <3> QED
      BY <2>2, <3>1, <3>2
  <2> QED
    BY <2>1, <2>2, <2>3, <2>4, <2>5 DEF FinishInv
<1>3. ASSUME NEW p \in Process, FillRun(p) PROVE FinishInv'
  <2>1. pc[p] = "finish" /\ run[p] \in Run /\ Ended(outcome[p]) \in Loadable
    BY <1>3, EndedIs DEF FillRun
  <2>2. /\ pc' = pc /\ run' = run /\ outcome' = outcome /\ overlaps' = overlaps
        /\ runfd[p] \in {"tmp", "path", "lost"}
        /\ runfd'[p] = "filled" /\ \A q \in Process : q # p => runfd'[q] = runfd[q]
    BY <1>3 DEF FillRun, TypeOK
  <2>3. ASSUME "finish" \notin overlaps
        PROVE  /\ runs' = runs /\ runtmp'[run[p]] = Ended(outcome[p])
               /\ \A r \in Run : r # run[p] => runtmp'[r] = runtmp[r]
    <3>1. runfd[p] = "tmp" /\ runtmp[run[p]] = "empty"
      BY <2>2, <2>3 DEF FinishInv
    <3>2. MixedStatus(runtmp[run[p]], Ended(outcome[p])) = {Ended(outcome[p])}
      BY <3>1 DEF MixedStatus
    <3>3. runtmp' = [runtmp EXCEPT ![run[p]] = Ended(outcome[p])] /\ runs' = runs
      BY <1>3, <3>1, <3>2 DEF FillRun
    <3> QED
      BY <2>1, <3>3 DEF TypeOK
  <2>4. ASSUME "finish" \notin overlaps, NEW q \in Process, q # p, runfd'[q] # "none"
        PROVE  run[q] # run[p] /\ runtmp'[run'[q]] = runtmp[run[q]]
    <3>1. pc[q] = "finish" /\ run[q] # run[p]
      BY <2>2, <2>4 DEF FinishInv
    <3>2. run[q] \in Run
      BY <3>1, EndedIs
    <3> QED
      BY <2>2, <2>3, <2>4, <3>1, <3>2
  <2> QED
    BY <2>1, <2>2, <2>3, <2>4 DEF FinishInv
<1>4. ASSUME NEW p \in Process, ReplaceRun(p) PROVE FinishInv'
  <2>1. pc[p] = "finish" /\ run[p] \in Run /\ Ended(outcome[p]) \in Loadable
    BY <1>4, EndedIs DEF ReplaceRun
  <2>2. /\ Rest(p) /\ run' = run /\ outcome' = outcome /\ overlaps' = overlaps
        /\ runfd[p] = "filled" /\ runfd'[p] = "none"
        /\ \A q \in Process : q # p /\ run[q] = run[p] => runfd'[q] = Moved(runfd[q])
        /\ \A q \in Process : q # p /\ run[q] # run[p] => runfd'[q] = runfd[q]
        /\ runs'[run[p]] = runtmp[run[p]]
        /\ \A r \in Run : r # run[p] => runs'[r] = runs[r] /\ runtmp'[r] = runtmp[r]
    BY <1>4, <2>1, ReplaceRunEffect DEF ReplaceRun, TypeOK
  <2>3. Moved("none") = "none"
    BY DEF Moved
  <2>4. \A q \in Process : runfd'[q] # "none" => q # p /\ runfd[q] # "none" /\ pc'[q] = pc[q]
    BY <2>2, <2>3 DEF Rest
  <2>5. ASSUME "finish" \notin overlaps, NEW q \in Process, runfd'[q] # "none"
        PROVE  /\ runfd'[q] = runfd[q] /\ run[q] # run[p]
               /\ runtmp'[run'[q]] = runtmp[run[q]]
    <3>1. q # p /\ runfd[q] # "none" /\ pc[q] = "finish"
      BY <2>4, <2>5 DEF FinishInv
    <3>2. run[q] # run[p] /\ run[q] \in Run
      BY <2>2, <2>5, <3>1, EndedIs DEF FinishInv
    <3> QED
      BY <2>2, <3>1, <3>2
  <2>6. "finish" \notin overlaps => \A r \in Run : runs'[r] \in Loadable \cup {"absent"}
    BY <2>1, <2>2 DEF FinishInv
  <2>7. "finish" \notin overlaps => \A q \in Process : runfd'[q] \in {"none", runfd[q]}
    BY <2>5
  <2> QED
    BY <2>2, <2>4, <2>5, <2>6, <2>7 DEF FinishInv
<1>5. ASSUME NEW p \in Process, ReplaceRunFails(p) PROVE FinishInv'
  <2>1. /\ Rest(p) /\ UNCHANGED <<runs, runtmp, overlaps>>
        /\ runfd' = [runfd EXCEPT ![p] = "none"]
    BY <1>5, ReplaceRunFailsEffect DEF ReplaceRunFails, Return, Forget, files
  <2>2. ASSUME NEW q \in Process, runfd'[q] # "none"
        PROVE  /\ q # p /\ runfd'[q] = runfd[q] /\ pc'[q] = pc[q] /\ run'[q] = run[q]
               /\ outcome'[q] = outcome[q]
    BY <2>1, <2>2 DEF Rest, TypeOK
  <2>3. \A q \in Process : runfd'[q] \in {"none", runfd[q]}
    BY <2>2
  <2> QED
    BY <2>1, <2>2, <2>3 DEF FinishInv
<1>6. CASE UNCHANGED vars
  BY <1>6 DEF FinishInv, vars, files, locals
<1> QED
  BY <1>1, <1>2, <1>3, <1>4, <1>5, <1>6, Steps DEF Finish

-----------------------------------------------------------------------------
(* A session that says running has a call that will say otherwise.         *)

(* What DrivenInv says of one call.                                        *)
Held(p) ==
    /\ Named(mine[p])
    /\ pc[p] \in Saving \ {"save running"} => mine[p].status # "running"
    /\ pc[p] = "mint" => mine[p].active = None

LEMMA StepHeld ==
    ASSUME TypeOK, OutcomeInv, NEW p \in Process, Step(p), Held(p), Named(session),
           Exists(mine[p])
    PROVE  Held(p)'
<1> USE DEF Saving
<1>1. ASSUME Over(p) PROVE Held(p)'
  BY <1>1, FreshSaved DEF Over, Held, Named
<1>2. ASSUME mine' = mine, pc'[p] \notin Saving, pc'[p] # "mint" PROVE Held(p)'
  BY <1>2 DEF Held, Named
<1>3. None \notin Run
  BY SessionAssumption
<1>4. CASE OpenTmp(p)
  BY <1>4, OpenTmpEffect DEF Held, Named
<1>5. CASE FillTmp(p)
  BY <1>5, FillTmpEffect DEF Held, Named
<1>6. CASE Replace(p)
  <2>1. AfterSave(pc[p]) \in {"work", "checkpoint", "finish", "idle"}
    BY DEF AfterSave
  <2>2. Over(p) \/ (mine' = mine /\ pc'[p] = AfterSave(pc[p]))
    BY <1>6, ReplaceEffect
  <2> QED
    BY <1>1, <1>2, <2>1, <2>2
<1>7. CASE ReplaceFails(p)
  BY <1>1, <1>7, ReplaceFailsEffect
<1>8. CASE StartRun(p) \/ Resume(p)
  BY <1>8, StartRunEffect DEF Held, Named, Begins
<1>9. CASE CreateRun(p)
  BY <1>3, <1>9, CreateRunEffect DEF Held, Named, Continues, Mints
<1>10. CASE Work(p)
  BY <1>2, <1>10, WorkEffect DEF Continues
<1>11. CASE Finish(p)
  <2>1. \/ Over(p)
        \/ mine' = mine /\ pc'[p] = "finish"
        \/ pc'[p] = "save final" /\ mine'[p].status # "running"
    BY <1>11, FinishEffect DEF Continues
  <2> QED
    BY <1>1, <1>2, <2>1 DEF Held, Named
<1>12. CASE Archive(p)
  BY <1>12, ArchiveEffect DEF Held, Named, Begins
<1>13. ASSUME NEW link \in BOOLEAN, AgentEdits(p, link) PROVE Held(p)'
  BY <1>13, AgentEditsEffect DEF Held, Named, Begins
<1>14. CASE Inspect(p)
  <2>1. Over(p) \/ (mine' = mine /\ pc'[p] \in {"report", "ensure"})
    BY <1>14, InspectEffect DEF Continues
  <2> QED
    BY <1>1, <1>2, <2>1
<1>15. CASE Report(p)
  BY <1>2, <1>15, ReportEffect DEF Continues
<1>16. CASE TruncateFlow(p)
  BY <1>2, <1>16, TruncateFlowEffect DEF Continues
<1>17. CASE WriteFlow(p)
  <2>1. Over(p) \/ (mine' = mine /\ pc'[p] = "ensure")
    BY <1>17, WriteFlowEffect DEF Continues
  <2> QED
    BY <1>1, <1>2, <2>1
<1>18. CASE EnsureRun(p)
  <2>1. \/ mine' = mine /\ pc'[p] = "finish"
        \/ /\ pc'[p] = "save ensured" /\ mine[p].active = None
           /\ mine'[p].status = mine[p].status
        \/ Over(p)
    BY <1>18, EnsureRunEffect DEF Continues
  <2> QED
    BY <1>1, <1>2, <2>1 DEF Held, Named
<1>19. CASE DurableApply(p)
  <2>1. /\ mine'[p] = session
        /\ (pc'[p] = "mint" /\ session.active = None) \/ pc'[p] = "checkpoint"
    BY <1>19, DurableApplyEffect DEF Begins
  <2> QED
    BY <2>1 DEF Held, Named
<1>20. CASE Mint(p)
  <2>1. mine[p].active = None
    BY <1>20 DEF Mint, Held
  <2>2. pc'[p] = "save minted" /\ mine'[p].status = mine[p].status
    BY <1>20, MintsEffect DEF Continues
  <2> QED
    BY <2>1, <2>2 DEF Held, Named
<1>21. CASE Checkpoint(p)
  BY <1>2, <1>21, CheckpointEffect DEF Continues
<1>22. ASSUME NEW f \in File, EditFile(p, f) PROVE Held(p)'
  BY <1>2, <1>22, EditFileEffect
<1>23. CASE ApplyFails(p)
  BY <1>1, <1>23, ApplyFailsEffect
<1>24. CASE Register(p)
  BY <1>1, <1>24, RegisterEffect
<1>25. CASE Crash(p)
  BY <1>1, <1>25, CrashEffect
<1> QED
  BY <1>4, <1>5, <1>6, <1>7, <1>8, <1>9, <1>10, <1>11, <1>12, <1>13, <1>14, <1>15, <1>16,
     <1>17, <1>18, <1>19, <1>20, <1>21, <1>22, <1>23, <1>24, <1>25
  DEF Step, Save, Execute, CompleteEdits, Apply

LEMMA InitDriven == Init => DrivenInv
BY FreshSaved, SavedFields DEF Init, DrivenInv, Named, Saving

(* A call that drives the session goes on until it has saved the end.      *)
LEMMA DrivesOn ==
    ASSUME TypeOK, OutcomeInv, NEW p \in Process,
           Execute(p) \/ Archive(p) \/ CompleteEdits(p) \/ Apply(p), pc[p] \in Driving, ~mishap'
    PROVE  pc'[p] \in Driving
<1>1. pc[p] \in {"work", "finish"}
  BY Elsewhere DEF Driving, Saving
<1>2. Work(p) \/ Finish(p)
  BY <1>1 DEF Execute, Archive, CompleteEdits, Apply, StartRun, Resume, CreateRun, AgentEdits,
     Inspect, Report, TruncateFlow, WriteFlow, EnsureRun, DurableApply, Mint, Checkpoint,
     EditFile, ApplyFails, Register, Load
<1>3. CASE Work(p)
  BY <1>3, WorkEffect DEF Continues, Driving
<1>4. CASE Finish(p)
  BY <1>4, FinishEffect DEF Continues, Driving
<1> QED
  BY <1>2, <1>3, <1>4

LEMMA NextDriven ==
    TypeOK /\ OutcomeInv /\ ExistInv /\ DrivenInv /\ [Next]_vars => DrivenInv'
<1> SUFFICES ASSUME TypeOK, OutcomeInv, ExistInv, DrivenInv, [Next]_vars PROVE DrivenInv'
  OBVIOUS
<1>1. ASSUME NEW p \in Process, Step(p)
      PROVE  Named(session)' /\ Named(tmp)' /\ \A q \in Process : Held(q)'
  <2>1. \A s \in {"torn", "empty", "absent"} : Unreadable(s).status = s
    BY DEF Unreadable
  <2>2. Named(session)' /\ Named(tmp)'
    BY <1>1, <2>1, Sources DEF DrivenInv, Named
  <2>3. Held(p)'
    BY <1>1, StepHeld DEF DrivenInv, Held, ExistInv
  <2>4. Rest(p)
    BY <1>1, StepKnows
  <2>5. ASSUME NEW q \in Process PROVE Held(q)'
    <3>1. Held(q)
      BY DEF DrivenInv, Held
    <3>2. CASE q = p
      BY <2>3, <3>2
    <3>3. CASE q # p
      <4>1. pc'[q] = pc[q] /\ mine'[q] = mine[q]
        BY <2>4, <3>3 DEF Rest
      <4> QED
        BY <3>1, <4>1 DEF Held, Named
    <3> QED
      BY <3>2, <3>3
  <2> QED
    BY <2>2, <2>5
<1>2. ASSUME NEW p \in Process, Step(p), ~mishap',
             tmp'.status = "running" =>
                 \E q \in Process : pc'[q] = "save running" /\ fd'[q] = "filled",
             session'.status = "running" => \E q \in Process : pc'[q] \in Driving
      PROVE  DrivenInv'
  BY <1>1, <1>2 DEF DrivenInv, Held
<1>3. ASSUME NEW p \in Process, Step(p), mishap' PROVE DrivenInv'
  BY <1>1, <1>3 DEF DrivenInv, Held
<1>4. ASSUME NEW p \in Process, ~mishap',
             Execute(p) \/ Archive(p) \/ CompleteEdits(p) \/ Apply(p)
      PROVE  DrivenInv'
  <2>1. /\ pc[p] \notin Saving /\ session' = session /\ tmp' = tmp /\ ~mishap
        /\ fd' = fd \/ fd' = [fd EXCEPT ![p] = "none"]
    BY <1>4, Elsewhere
  <2>2. Step(p)
    BY <1>4 DEF Step
  <2>3. Rest(p)
    BY <2>2, StepKnows
  <2>4. ASSUME tmp'.status = "running"
        PROVE  \E q \in Process : pc'[q] = "save running" /\ fd'[q] = "filled"
    <3>1. PICK q \in Process : pc[q] = "save running" /\ fd[q] = "filled"
      BY <2>1, <2>4 DEF DrivenInv
    <3>2. q # p
      BY <2>1, <3>1 DEF Saving
    <3> QED
      BY <2>1, <2>3, <3>1, <3>2 DEF Rest, TypeOK
  <2>5. ASSUME session'.status = "running" PROVE \E q \in Process : pc'[q] \in Driving
    <3>1. PICK q \in Process : pc[q] \in Driving
      BY <2>1, <2>5 DEF DrivenInv
    <3>2. CASE q = p
      BY <1>4, <3>1, <3>2, DrivesOn
    <3>3. CASE q # p
      BY <2>3, <3>1, <3>3 DEF Rest
    <3> QED
      BY <3>2, <3>3
  <2> QED
    BY <1>2, <1>4, <2>2, <2>4, <2>5
<1>5. ASSUME NEW p \in Process, ~mishap', OpenTmp(p) PROVE DrivenInv'
  <2>1. Step(p) /\ ~mishap /\ session' = session /\ tmp' = Unreadable("empty") /\ pc' = pc
    BY <1>5 DEF Step, Save, OpenTmp
  <2>2. tmp'.status # "running"
    BY <2>1 DEF Unreadable
  <2>3. session'.status = "running" => \E q \in Process : pc'[q] \in Driving
    BY <2>1 DEF DrivenInv
  <2> QED
    BY <1>2, <1>5, <2>1, <2>2, <2>3
<1>6. ASSUME NEW p \in Process, ~mishap', FillTmp(p) PROVE DrivenInv'
  <2>1. Step(p) /\ ~mishap /\ pc' = pc /\ pc[p] \in Saving
    BY <1>6 DEF Step, Save, FillTmp
  <2>2. /\ fd'[p] = "filled" /\ \A q \in Process : q # p => fd'[q] = fd[q]
        /\ tmp' \in {tmp, mine[p], Unreadable("torn")}
        /\ session' \in {session, mine[p], Unreadable("torn")}
    BY <1>6, FillTmpEffect
  <2>3. Unreadable("torn").status # "running"
    BY DEF Unreadable
  <2>4. mine[p].status = "running" => pc[p] = "save running"
    BY <2>1 DEF DrivenInv
  <2>5. ASSUME tmp'.status = "running"
        PROVE  \E q \in Process : pc'[q] = "save running" /\ fd'[q] = "filled"
    <3>1. CASE tmp.status = "running"
      <4>1. PICK q \in Process : pc[q] = "save running" /\ fd[q] = "filled"
        BY <2>1, <3>1 DEF DrivenInv
      <4> QED
        BY <2>1, <2>2, <4>1
    <3>2. CASE mine[p].status = "running"
      BY <2>1, <2>2, <2>4, <3>2
    <3> QED
      BY <2>2, <2>3, <2>5, <3>1, <3>2
  <2>6. ASSUME session'.status = "running" PROVE \E q \in Process : pc'[q] \in Driving
    <3>1. CASE session.status = "running"
      BY <2>1, <3>1 DEF DrivenInv
    <3>2. CASE mine[p].status = "running"
      BY <2>1, <2>4, <3>2 DEF Driving
    <3> QED
      BY <2>2, <2>3, <2>6, <3>1, <3>2
  <2> QED
    BY <1>2, <1>6, <2>1, <2>5, <2>6
<1>7. ASSUME NEW p \in Process, ~mishap', Replace(p) PROVE DrivenInv'
  <2>1. Step(p) /\ ~mishap
    BY <1>7 DEF Step, Save, Replace
  <2>2. /\ Rest(p) /\ session' = tmp /\ tmp' = Unreadable("absent") /\ pc'[p] = AfterSave(pc[p])
    BY <1>7, ReplaceEffect
  <2>3. tmp'.status # "running"
    BY <2>2 DEF Unreadable
  <2>4. ASSUME session'.status = "running" PROVE \E q \in Process : pc'[q] \in Driving
    <3>1. PICK q \in Process : pc[q] = "save running"
      BY <2>1, <2>2, <2>4 DEF DrivenInv
    <3>2. CASE q = p
      BY <2>2, <3>1, <3>2 DEF AfterSave, Driving
    <3>3. CASE q # p
      BY <2>2, <3>1, <3>3 DEF Rest, Driving
    <3> QED
      BY <3>2, <3>3
  <2> QED
    BY <1>2, <1>7, <2>1, <2>3, <2>4
<1>8. ASSUME NEW p \in Process, ReplaceFails(p) \/ Crash(p) PROVE Step(p) /\ mishap'
  BY <1>8 DEF Step, Save, ReplaceFails, Crash
<1>9. ASSUME NEW p \in Process, Step(p) PROVE DrivenInv'
  <2>1. CASE mishap'
    BY <1>3, <1>9, <2>1
  <2>2. CASE ~mishap'
    BY <1>4, <1>5, <1>6, <1>7, <1>8, <1>9, <2>2 DEF Step, Save
  <2> QED
    BY <2>1, <2>2
<1>10. CASE UNCHANGED vars
  BY <1>10 DEF DrivenInv, Named, vars, files, locals
<1> QED
  BY <1>9, <1>10, Steps


-----------------------------------------------------------------------------
(* One call at a time works on the OC Flow run.                            *)
Recorder == {"inspect"} \cup Recording

LEMMA OffRecord ==
    ASSUME TypeOK, OutcomeInv, NEW p \in Process,
           Save(p) \/ Execute(p) \/ Archive(p) \/ EnsureRun(p) \/ Apply(p) \/ Crash(p)
    PROVE  /\ pc'[p] \notin Recorder /\ flow' = flow /\ report' = report
           /\ "record" \in overlaps' <=> "record" \in overlaps
<1> USE DEF Recorder, Recording
<1>1. CASE Save(p)
  <2>1. CASE OpenTmp(p)
    BY <2>1 DEF OpenTmp, Saving
  <2>2. CASE FillTmp(p)
    BY <2>2 DEF FillTmp, Saving
  <2>3. CASE Replace(p)
    BY <2>3, ReplaceEffect DEF Replace, AfterSave
  <2>4. CASE ReplaceFails(p)
    BY <2>4, ReplaceFailsEffect DEF ReplaceFails, Over, files
  <2> QED
    BY <1>1, <2>1, <2>2, <2>3, <2>4 DEF Save
<1>2. CASE Execute(p)
  <2>1. CASE StartRun(p) \/ Resume(p)
    BY <2>1, StartRunEffect DEF StartRun, Resume, Begins, files
  <2>2. CASE CreateRun(p)
    BY <2>2, CreateRunEffect DEF CreateRun, Continues
  <2>3. CASE Work(p)
    BY <2>3, WorkEffect DEF Work, Continues, files
  <2>4. CASE Finish(p)
    BY <2>4, FinishEffect DEF Continues, Over
  <2> QED
    BY <1>2, <2>1, <2>2, <2>3, <2>4 DEF Execute
<1>3. CASE Archive(p)
  BY <1>3, ArchiveEffect DEF Archive, Begins, files
<1>4. CASE EnsureRun(p)
  BY <1>4, EnsureRunEffect DEF EnsureRun, Continues, Over
<1>5. CASE Apply(p)
  <2>1. CASE DurableApply(p)
    BY <2>1, DurableApplyEffect DEF DurableApply, Begins, files
  <2>2. CASE Mint(p)
    BY <2>2, MintsEffect DEF Mint, Continues
  <2>3. CASE Checkpoint(p)
    BY <2>3, CheckpointEffect DEF Checkpoint, Continues, files
  <2>4. ASSUME NEW f \in File, EditFile(p, f)
        PROVE  /\ pc'[p] \notin Recorder /\ flow' = flow /\ report' = report
               /\ "record" \in overlaps' <=> "record" \in overlaps
    BY <2>4, EditFileEffect DEF EditFile
  <2>5. CASE ApplyFails(p)
    BY <2>5, ApplyFailsEffect DEF ApplyFails, Over
  <2>6. CASE Register(p)
    BY <2>6, RegisterEffect DEF Register, Over
  <2> QED
    BY <1>5, <2>1, <2>2, <2>3, <2>4, <2>5, <2>6 DEF Apply
<1>6. CASE Crash(p)
  BY <1>6, CrashEffect DEF Crash, Over, files
<1> QED
  BY <1>1, <1>2, <1>3, <1>4, <1>5, <1>6

LEMMA InitEvidence == Init => EvidenceInv
BY DEF Init, EvidenceInv, Records, Recording, Completable

(* What EvidenceInv says of one call.                                      *)
Recorded(p) ==
    /\ pc[p] = "write flow" => flow = "empty"
    /\ pc[p] # "write flow" => flow \in Completable
    /\ pc[p] \in {"truncate flow", "write flow"} => report = outcome[p]

LEMMA NextEvidence == TypeOK /\ OutcomeInv /\ EvidenceInv /\ [Next]_vars => EvidenceInv'
<1> SUFFICES ASSUME TypeOK, OutcomeInv, EvidenceInv, [Next]_vars PROVE EvidenceInv'
  OBVIOUS
<1>1. ASSUME NEW p \in Process, Rest(p), ~Records(p)', pc'[p] \notin Recording, flow' = flow,
             report' = report, "record" \in overlaps => "record" \in overlaps'
      PROVE  EvidenceInv'
  <2>1. \A q \in Process : q # p =>
            pc'[q] = pc[q] /\ linked'[q] = linked[q] /\ outcome'[q] = outcome[q]
    BY <1>1 DEF Rest
  <2>2. \A q \in Process : Records(q)' => q # p /\ Records(q)
    BY <1>1, <2>1 DEF Records
  <2>3. \A q \in Process : pc'[q] \in Recording => linked'[q]
    BY <1>1, <2>1 DEF EvidenceInv
  <2>4. ASSUME "record" \notin overlaps', NEW q \in Process, Records(q)' PROVE Recorded(q)'
    <3>1. Recorded(q)
      BY <1>1, <2>2, <2>4 DEF EvidenceInv, Recorded
    <3> QED
      BY <1>1, <2>1, <2>2, <2>4, <3>1 DEF Recorded
  <2> QED
    BY <1>1, <2>2, <2>3, <2>4 DEF EvidenceInv, Recorded
(* The call of p is the only one at work before and after the step.        *)
<1>2. ASSUME NEW p \in Process, Rest(p), Records(p), linked'[p], overlaps' = overlaps,
             "record" \notin overlaps /\ Records(p)' => Recorded(p)',
             "record" \notin overlaps /\ flow' = "completed" => report' = "passed"
      PROVE  EvidenceInv'
  <2>1. \A q \in Process : pc'[q] \in Recording => linked'[q]
    BY <1>2 DEF EvidenceInv, Rest
  <2>2. ASSUME "record" \notin overlaps', NEW q \in Process, Records(q)' PROVE q = p
    <3>1. SUFFICES ASSUME q # p PROVE FALSE
      OBVIOUS
    <3>2. Records(q)
      BY <1>2, <2>2, <3>1 DEF Rest, Records
    <3> QED
      BY <1>2, <2>2, <3>1, <3>2 DEF EvidenceInv
  <2> QED
    BY <1>2, <2>1, <2>2 DEF EvidenceInv, Recorded
<1>3. ASSUME NEW p \in Process, NEW link \in BOOLEAN, AgentEdits(p, link) PROVE EvidenceInv'
  <2>1. /\ Rest(p) /\ linked'[p] = link /\ pc[p] = "idle" /\ pc'[p] = "inspect"
        /\ flow' = flow /\ report' = report
    BY <1>3, AgentEditsEffect DEF Begins, files
  <2>2. /\ link => flow \in Completable
        /\ "record" \in overlaps => "record" \in overlaps'
        /\ link /\ "record" \notin overlaps' => \A q \in Process : ~Records(q)
    BY <1>3 DEF AgentEdits, Records
  <2>3. CASE ~link
    BY <1>1, <2>1, <2>2, <2>3 DEF Records, Recording
  <2>4. CASE link
    <3>1. \A q \in Process : pc'[q] \in Recording => linked'[q]
      BY <2>1, <2>4 DEF EvidenceInv, Rest
    <3>2. ASSUME "record" \notin overlaps', NEW q \in Process, Records(q)' PROVE q = p
      <4>1. ~Records(q)
        BY <2>2, <2>4, <3>2
      <4> QED
        BY <2>1, <3>2, <4>1 DEF Rest, Records
    <3> QED
      BY <2>1, <2>2, <2>4, <3>1, <3>2 DEF EvidenceInv
  <2> QED
    BY <2>3, <2>4
<1>4. ASSUME NEW p \in Process, Inspect(p) PROVE EvidenceInv'
  <2>1. /\ Rest(p) /\ pc[p] = "inspect" /\ flow' = flow /\ report' = report
        /\ overlaps' = overlaps
    BY <1>4, InspectEffect DEF Inspect, files
  <2>2. CASE linked[p] /\ Continues(p, "report")
    <3>1. Records(p) /\ linked'[p] /\ pc'[p] = "report"
      BY <2>1, <2>2 DEF Records, Continues
    <3>2. "record" \notin overlaps => Recorded(p)'
      BY <2>1, <3>1 DEF EvidenceInv, Recorded
    <3> QED
      BY <1>2, <2>1, <3>1, <3>2 DEF EvidenceInv
  <2>3. CASE Continues(p, "ensure") \/ Over(p)
    BY <1>1, <2>1, <2>3 DEF Records, Recording, Continues, Over
  <2> QED
    BY <1>4, InspectEffect, <2>2, <2>3
<1>5. ASSUME NEW p \in Process, Report(p) PROVE EvidenceInv'
  <2>1. /\ Rest(p) /\ Continues(p, "truncate flow") /\ outcome' = outcome
        /\ pc[p] = "report" /\ flow' = flow /\ report' = outcome[p] /\ overlaps' = overlaps
    BY <1>5, ReportEffect DEF Report
  <2>2. Records(p) /\ linked'[p] /\ pc'[p] = "truncate flow"
    BY <2>1 DEF EvidenceInv, Records, Continues, Recording
  <2>3. "record" \notin overlaps => flow' \in Completable /\ report' = outcome'[p]
    BY <2>1, <2>2 DEF EvidenceInv
  <2>4. "record" \notin overlaps => Recorded(p)' /\ flow' # "completed"
    BY <2>2, <2>3 DEF Recorded, Completable
  <2> QED
    BY <1>2, <2>1, <2>2, <2>4
<1>6. ASSUME NEW p \in Process, TruncateFlow(p) PROVE EvidenceInv'
  <2>1. /\ Rest(p) /\ Continues(p, "write flow") /\ outcome' = outcome
        /\ pc[p] = "truncate flow" /\ flow' = "empty" /\ report' = report
        /\ overlaps' = overlaps
    BY <1>6, TruncateFlowEffect DEF TruncateFlow
  <2>2. Records(p) /\ linked'[p] /\ pc'[p] = "write flow"
    BY <2>1 DEF EvidenceInv, Records, Continues, Recording
  <2>3. "record" \notin overlaps => report' = outcome'[p]
    BY <2>1, <2>2 DEF EvidenceInv
  <2> QED
    BY <1>2, <2>1, <2>2, <2>3 DEF Recorded
<1>7. ASSUME NEW p \in Process, WriteFlow(p) PROVE EvidenceInv'
  <2>1. /\ Rest(p) /\ pc'[p] \in {"ensure", "idle"} /\ pc[p] = "write flow"
        /\ report' = report /\ overlaps' = overlaps
    BY <1>7, WriteFlowEffect DEF WriteFlow, Continues, Over
  <2>2. Records(p)
    BY <2>1 DEF EvidenceInv, Records, Recording
  <2>3. "record" \notin overlaps => flow' = Verdict(outcome[p]) /\ report = outcome[p]
    BY <1>7, <2>1, <2>2 DEF EvidenceInv, WriteFlow, MixedStatus
  <2>4. "record" \notin overlaps /\ flow' = "completed" => report' = "passed"
    BY <2>1, <2>3 DEF Verdict
  <2>5. \A q \in Process : pc'[q] \in Recording => linked'[q]
    BY <2>1 DEF EvidenceInv, Rest, Recording
  <2>6. ASSUME "record" \notin overlaps', NEW q \in Process PROVE ~Records(q)'
    <3>1. CASE q = p
      BY <2>1, <3>1 DEF Records, Recording
    <3>2. CASE q # p
      BY <2>1, <2>2, <2>6, <3>2 DEF EvidenceInv, Records, Rest
    <3> QED
      BY <3>1, <3>2
  <2> QED
    BY <2>1, <2>4, <2>5, <2>6 DEF EvidenceInv
<1>8. ASSUME NEW p \in Process,
             Save(p) \/ Execute(p) \/ Archive(p) \/ EnsureRun(p) \/ Apply(p) \/ Crash(p)
      PROVE  EvidenceInv'
  <2>1. Rest(p)
    BY <1>8, StepKnows DEF Step, CompleteEdits
  <2>2. /\ pc'[p] \notin Recorder /\ flow' = flow /\ report' = report
        /\ "record" \in overlaps' <=> "record" \in overlaps
    BY <1>8, OffRecord
  <2> QED
    BY <1>1, <2>1, <2>2 DEF Records, Recorder
<1>9. CASE UNCHANGED vars
  BY <1>9 DEF EvidenceInv, Records, vars, files, locals
<1> QED
  BY <1>3, <1>4, <1>5, <1>6, <1>7, <1>8, <1>9, Steps DEF Step, CompleteEdits

-----------------------------------------------------------------------------
(* One call at a time edits the workspace.                                 *)
LEMMA OffWorkspace ==
    ASSUME TypeOK, OutcomeInv, NEW p \in Process, ~Edits(p) => edited[p] = {},
           Save(p) \/ Execute(p) \/ Archive(p) \/ CompleteEdits(p) \/ DurableApply(p) \/ Mint(p)
    PROVE  /\ ~Edits(p) /\ ~Edits(p)' /\ edited'[p] = {} /\ workspace' = workspace
           /\ "apply" \in overlaps' <=> "apply" \in overlaps
           /\ mishap => mishap'
<1> USE DEF Edits
<1>1. CASE Save(p)
  <2>1. CASE OpenTmp(p)
    BY <2>1, OpenTmpEffect DEF OpenTmp, Saving
  <2>2. CASE FillTmp(p)
    BY <2>2, FillTmpEffect DEF FillTmp, Saving
  <2>3. CASE Replace(p)
    BY <2>3, ReplaceEffect DEF Replace, AfterSave, Saving, Over
  <2>4. CASE ReplaceFails(p)
    BY <2>4, ReplaceFailsEffect DEF ReplaceFails, Over, Saving, files
  <2> QED
    BY <1>1, <2>1, <2>2, <2>3, <2>4 DEF Save
<1>2. CASE Execute(p)
  <2>1. CASE StartRun(p) \/ Resume(p)
    <3>1. UNCHANGED <<overlaps, mishap>>
      BY <2>1 DEF StartRun, Resume
    <3>2. pc[p] = "idle" /\ pc'[p] = "create run" /\ edited' = edited /\ workspace' = workspace
      BY <2>1, StartRunEffect DEF Begins, files
    <3> QED
      BY <3>1, <3>2
  <2>2. CASE CreateRun(p)
    BY <2>2, CreateRunEffect DEF CreateRun, Continues
  <2>3. CASE Work(p)
    BY <2>3, WorkEffect DEF Work, Continues, files
  <2>4. CASE Finish(p)
    BY <2>4, FinishEffect DEF Continues, Over
  <2> QED
    BY <1>2, <2>1, <2>2, <2>3, <2>4 DEF Execute
<1>3. CASE Archive(p)
  BY <1>3, ArchiveEffect DEF Archive, Begins, files
<1>4. CASE CompleteEdits(p)
  <2>1. ASSUME NEW link \in BOOLEAN, AgentEdits(p, link)
        PROVE  /\ ~Edits(p) /\ ~Edits(p)' /\ edited'[p] = {} /\ workspace' = workspace
               /\ "apply" \in overlaps' <=> "apply" \in overlaps
               /\ mishap => mishap'
    BY <2>1, AgentEditsEffect DEF AgentEdits, Begins, files
  <2>2. CASE Inspect(p)
    BY <2>2, InspectEffect DEF Inspect, Continues, Over, files
  <2>3. CASE Report(p)
    BY <2>3, ReportEffect DEF Report, Continues
  <2>4. CASE TruncateFlow(p)
    BY <2>4, TruncateFlowEffect DEF TruncateFlow, Continues
  <2>5. CASE WriteFlow(p)
    BY <2>5, WriteFlowEffect DEF WriteFlow, Continues, Over
  <2>6. CASE EnsureRun(p)
    BY <2>6, EnsureRunEffect DEF EnsureRun, Continues, Over
  <2> QED
    BY <1>4, <2>1, <2>2, <2>3, <2>4, <2>5, <2>6 DEF CompleteEdits
<1>5. CASE DurableApply(p)
  BY <1>5, DurableApplyEffect DEF DurableApply, Begins, files
<1>6. CASE Mint(p)
  BY <1>6, MintsEffect DEF Mint, Continues
<1> QED
  BY <1>1, <1>2, <1>3, <1>4, <1>5, <1>6

LEMMA InitWorkspace == Init => WorkspaceInv
BY DEF Init, WorkspaceInv, Edits, Uniform

LEMMA NextWorkspace == TypeOK /\ OutcomeInv /\ WorkspaceInv /\ [Next]_vars => WorkspaceInv'
<1> SUFFICES ASSUME TypeOK, OutcomeInv, WorkspaceInv, [Next]_vars PROVE WorkspaceInv'
  OBVIOUS
<1>1. ASSUME NEW p \in Process, Rest(p)
      PROVE  \A q \in Process : q # p =>
                 /\ Edits(q)' <=> Edits(q)
                 /\ edited'[q] = edited[q] /\ captured'[q] = captured[q] /\ pc'[q] = pc[q]
  BY <1>1 DEF Rest, Edits
<1>2. ASSUME NEW p \in Process,
             Save(p) \/ Execute(p) \/ Archive(p) \/ CompleteEdits(p) \/ DurableApply(p) \/ Mint(p)
      PROVE  WorkspaceInv'
  <2>1. Rest(p)
    BY <1>2, StepKnows DEF Step, Apply
  <2>2. /\ ~Edits(p) /\ ~Edits(p)' /\ edited'[p] = {} /\ workspace' = workspace
        /\ "apply" \in overlaps' <=> "apply" \in overlaps
        /\ mishap => mishap'
    BY <1>2, OffWorkspace DEF WorkspaceInv
  <2>3. \A q \in Process : Edits(q)' <=> Edits(q)
    BY <1>1, <2>1, <2>2
  <2>4. \A q \in Process : ~Edits(q)' => edited'[q] = {}
    BY <1>1, <2>1, <2>2 DEF WorkspaceInv
  <2>5. Uniform(workspace)' <=> Uniform(workspace)
    BY <2>2 DEF Uniform
  <2>6. \A q \in Process : Edits(q) =>
            captured'[q] = captured[q] /\ edited'[q] = edited[q] /\ pc'[q] = pc[q]
    BY <1>1, <2>1, <2>2
  <2>7. ASSUME ~mishap', "apply" \notin overlaps'
        PROVE  /\ \A q, o \in Process : Edits(q)' /\ Edits(o)' => q = o
               /\ (\A q \in Process : ~Edits(q)') => Uniform(workspace)'
    BY <2>2, <2>3, <2>5, <2>7 DEF WorkspaceInv
  <2>8. ASSUME ~mishap', "apply" \notin overlaps', NEW q \in Process, Edits(q)'
        PROVE  /\ Uniform(captured[q])'
               /\ \A f \in File :
                      workspace'[f] = IF f \in edited'[q] THEN q ELSE captured'[q][f]
               /\ pc'[q] = "register" => edited'[q] = File
    <3>1. Edits(q)
      BY <2>3, <2>8
    <3>2. /\ Uniform(captured[q])
          /\ \A f \in File : workspace[f] = IF f \in edited[q] THEN q ELSE captured[q][f]
          /\ pc[q] = "register" => edited[q] = File
      BY <2>2, <2>8, <3>1 DEF WorkspaceInv
    <3> QED
      BY <2>2, <2>6, <3>1, <3>2 DEF Uniform
  <2> QED
    BY <2>4, <2>7, <2>8 DEF WorkspaceInv
(* Nobody edits once the call of p is over.                                *)
<1>3. ASSUME NEW p \in Process, Rest(p), Edits(p), Over(p), mishap' = mishap, overlaps' = overlaps,
             ~mishap /\ "apply" \notin overlaps => Uniform(workspace)'
      PROVE  WorkspaceInv'
  <2>1. ~Edits(p)' /\ edited'[p] = {}
    BY <1>3 DEF Over, Edits
  <2>2. \A q \in Process : ~Edits(q)' => edited'[q] = {}
    BY <1>1, <1>3, <2>1 DEF WorkspaceInv
  <2>3. ~mishap /\ "apply" \notin overlaps => \A q \in Process : ~Edits(q)'
    BY <1>1, <1>3, <2>1 DEF WorkspaceInv
  <2> QED
    BY <1>3, <2>2, <2>3 DEF WorkspaceInv
<1>4. ASSUME NEW p \in Process, Checkpoint(p) PROVE WorkspaceInv'
  <2>1. /\ Rest(p) /\ Continues(p, "edit") /\ captured'[p] = workspace /\ workspace' = workspace
        /\ mishap' = mishap /\ pc[p] = "checkpoint"
    BY <1>4, CheckpointEffect DEF Checkpoint, files
  <2>2. /\ "apply" \in overlaps => "apply" \in overlaps'
        /\ "apply" \notin overlaps' => \A q \in Process : q # p => ~Edits(q)
    BY <1>4 DEF Checkpoint, Meets, Applying, Edits
  <2>3. ~Edits(p) /\ Edits(p)' /\ edited'[p] = {} /\ pc'[p] = "edit"
    BY <2>1 DEF WorkspaceInv, Edits, Continues
  <2>4. \A q \in Process : ~Edits(q)' => edited'[q] = {}
    BY <1>1, <2>1, <2>3 DEF WorkspaceInv
  <2>5. "apply" \notin overlaps' => \A q \in Process : Edits(q)' => q = p
    BY <1>1, <2>1, <2>2
  <2>6. ~mishap' /\ "apply" \notin overlaps' => Uniform(workspace)
    BY <2>1, <2>2, <2>3 DEF WorkspaceInv
  <2>7. ASSUME ~mishap', "apply" \notin overlaps', NEW q \in Process, Edits(q)'
        PROVE  /\ Uniform(captured[q])'
               /\ \A f \in File :
                      workspace'[f] = IF f \in edited'[q] THEN q ELSE captured'[q][f]
               /\ pc'[q] = "register" => edited'[q] = File
    BY <2>1, <2>3, <2>5, <2>6, <2>7 DEF Uniform
  <2>8. ~mishap' /\ "apply" \notin overlaps' =>
            \A q, o \in Process : Edits(q)' /\ Edits(o)' => q = o
    BY <2>5
  <2> QED
    BY <2>3, <2>4, <2>7, <2>8 DEF WorkspaceInv
<1>5. ASSUME NEW p \in Process, NEW f \in File, EditFile(p, f) PROVE WorkspaceInv'
  <2>1. /\ Rest(p) /\ pc'[p] \in {"edit", "register"} /\ captured' = captured
        /\ pc'[p] = "register" => edited'[p] = File
        /\ edited'[p] = edited[p] \cup {f}
        /\ \A g \in File : workspace'[g] = IF g = f THEN p ELSE workspace[g]
    BY <1>5, EditFileEffect
  <2>2. pc[p] = "edit" /\ mishap' = mishap /\ overlaps' = overlaps
    BY <1>5 DEF EditFile
  <2>3. Edits(p) /\ Edits(p)'
    BY <2>1, <2>2 DEF Edits
  <2>4. \A q \in Process : Edits(q)' <=> Edits(q)
    BY <1>1, <2>1, <2>3
  <2>5. \A q \in Process : ~Edits(q)' => edited'[q] = {}
    BY <1>1, <2>1, <2>3 DEF WorkspaceInv
  <2>6. ASSUME ~mishap', "apply" \notin overlaps', NEW q \in Process, Edits(q)' PROVE q = p
    BY <2>2, <2>3, <2>4, <2>6 DEF WorkspaceInv
  <2>7. ASSUME ~mishap', "apply" \notin overlaps'
        PROVE  /\ Uniform(captured[p])'
               /\ \A g \in File :
                      workspace'[g] = IF g \in edited'[p] THEN p ELSE captured'[p][g]
    <3>1. /\ Uniform(captured[p])
          /\ \A g \in File : workspace[g] = IF g \in edited[p] THEN p ELSE captured[p][g]
      BY <2>2, <2>3, <2>7 DEF WorkspaceInv
    <3>2. \A g \in File : workspace'[g] = IF g \in edited'[p] THEN p ELSE captured'[p][g]
      BY <2>1, <3>1
    <3> QED
      BY <2>1, <3>1, <3>2 DEF Uniform
  <2>8. ~mishap' /\ "apply" \notin overlaps' =>
            \A q, o \in Process : Edits(q)' /\ Edits(o)' => q = o
    BY <2>6
  <2> QED
    BY <2>1, <2>3, <2>5, <2>6, <2>7, <2>8 DEF WorkspaceInv
<1>6. ASSUME NEW p \in Process, ApplyFails(p) PROVE WorkspaceInv'
  <2>1. /\ Rest(p) /\ Over(p) /\ Edits(p) /\ workspace' = captured[p]
        /\ mishap' = mishap /\ overlaps' = overlaps
    BY <1>6, ApplyFailsEffect DEF ApplyFails, Edits
  <2>2. ~mishap /\ "apply" \notin overlaps => Uniform(workspace)'
    BY <2>1 DEF WorkspaceInv, Uniform
  <2> QED
    BY <1>3, <2>1, <2>2
<1>7. ASSUME NEW p \in Process, Register(p) PROVE WorkspaceInv'
  <2>1. /\ Rest(p) /\ Over(p) /\ Edits(p) /\ pc[p] = "register" /\ workspace' = workspace
        /\ mishap' = mishap /\ overlaps' = overlaps
    BY <1>7, RegisterEffect DEF Register, Edits
  <2>2. ~mishap /\ "apply" \notin overlaps => \A f \in File : workspace[f] = p
    BY <2>1 DEF WorkspaceInv
  <2>3. ~mishap /\ "apply" \notin overlaps => Uniform(workspace)'
    BY <2>1, <2>2 DEF Uniform
  <2> QED
    BY <1>3, <2>1, <2>3
<1>8. ASSUME NEW p \in Process, Crash(p) PROVE WorkspaceInv'
  <2>1. Rest(p) /\ Over(p) /\ mishap'
    BY <1>8, CrashEffect DEF Crash
  <2>2. edited'[p] = {}
    BY <2>1 DEF Over
  <2>3. \A q \in Process : ~Edits(q)' => edited'[q] = {}
    BY <1>1, <2>1, <2>2 DEF WorkspaceInv
  <2> QED
    BY <2>1, <2>3 DEF WorkspaceInv
<1>9. CASE UNCHANGED vars
  BY <1>9 DEF WorkspaceInv, Edits, Uniform, vars, files, locals
<1> QED
  BY <1>2, <1>4, <1>5, <1>6, <1>7, <1>8, <1>9, Steps DEF Step, Apply

-----------------------------------------------------------------------------
Inv ==
    /\ TypeOK /\ OutcomeInv /\ SaveInv /\ ExistInv /\ FinishInv /\ DrivenInv
    /\ EvidenceInv /\ WorkspaceInv

LEMMA Inductive == Spec => []Inv
<1>1. Init => Inv
  BY InitType, InitOutcome, InitSave, InitExist, InitFinish, InitDriven, InitEvidence,
     InitWorkspace DEF Inv
<1>2. Inv /\ [Next]_vars => Inv'
  BY NextType, NextSave, NextExist, NextFinish, NextDriven, NextEvidence, NextWorkspace DEF Inv
<1> QED
  BY <1>1, <1>2, PTL DEF Spec

\* Every variable keeps its type, whatever the calls and the crashes do.
THEOREM TypeCorrect == Spec => []TypeOK
<1>1. Inv => TypeOK
  BY DEF Inv
<1> QED
  BY <1>1, Inductive, PTL

\* For any number of processes and calls, _atomic_write leaves a session that
\* can be parsed unless two calls save it at the same time.
THEOREM SessionNotTorn == Spec => []TornOnlyByOverlap
<1>1. Inv => TornOnlyByOverlap
  BY DEF Inv, SaveInv, TornOnlyByOverlap
<1> QED
  BY <1>1, Inductive, PTL

\* The run that session.json names exists and can be loaded, wherever calls
\* die and whatever overlaps, unless two calls have finished one run at the
\* same time: every call saves the run before it names it, and no one but the
\* call that replaces run.json has its temporary file open.
THEOREM ActiveRunIsThere == Spec => []ActiveRunLoads
<1>1. Inv => ActiveRunLoads
  <2> SUFFICES ASSUME Inv, session \in Saved, session.active # None
               PROVE  \/ runs[session.active] \in Loadable
                      \/ runs[session.active] # "absent" /\ "finish" \in overlaps
    BY DEF ActiveRunLoads
  <2>1. session.active \in Run /\ runs[session.active] # "absent"
    BY SavedFields DEF Inv, ExistInv, Exists
  <2> QED
    BY <2>1 DEF Inv, FinishInv
<1> QED
  BY <1>1, Inductive, PTL

\* A session is left running by calls that have all returned only if one of
\* them died or its replace found no file: no order of overlapping saves alone
\* puts running back.
THEOREM RunningHasDriver == Spec => []RunningIsDriven
<1>1. Inv => RunningIsDriven
  BY DEF Inv, DrivenInv, RunningIsDriven, Quiet, Driving
<1> QED
  BY <1>1, Inductive, PTL

\* The report of a passed inspection is on the disk before state.json says
\* completed, unless two calls complete the same OC Flow run at once.
THEOREM CompletionHasEvidence == Spec => []CompletedHasEvidence
<1>1. Inv => CompletedHasEvidence
  BY DEF Inv, EvidenceInv, CompletedHasEvidence
<1> QED
  BY <1>1, Inductive, PTL

\* For any set of files, a durable apply that is over has edited all of them
\* or none, as long as no call has died and no two applies have overlapped.
THEOREM AppliesAtomically == Spec => []AllOrNothing
<1>1. Inv => AllOrNothing
  <2> SUFFICES ASSUME Inv, \A p \in Process : pc[p] \notin Applying, ~mishap,
                      "apply" \notin overlaps
               PROVE  \A f, g \in File : workspace[f] = workspace[g]
    BY DEF AllOrNothing
  <2>1. \A p \in Process : ~Edits(p)
    BY DEF Edits, Applying
  <2> QED
    BY <2>1 DEF Inv, WorkspaceInv, Uniform
<1> QED
  BY <1>1, Inductive, PTL

-----------------------------------------------------------------------------
(* session.json and the saves under way, as an atomic file.                *)
Absent == Unreadable("absent")

Draft == [p \in Process |-> IF pc[p] \in Saving THEN mine[p] ELSE Absent]

LEMMA DraftIs ==
    ASSUME TypeOK
    PROVE  /\ Absent \notin Saved
           /\ \A p \in Process : Draft[p] = IF pc[p] \in Saving THEN mine[p] ELSE Absent
           /\ \A p \in Process : Draft[p] # Absent <=> pc[p] \in Saving
<1>1. Absent \notin Saved
  BY SavedFields DEF Absent
<1>2. \A p \in Process : Draft[p] = IF pc[p] \in Saving THEN mine[p] ELSE Absent
  BY DEF Draft
<1>3. \A p \in Process : mine[p] \in Saved
  BY DEF TypeOK
<1> QED
  BY <1>1, <1>2, <1>3

(* A step of p changes no draft but its own.                               *)
LEMMA DraftStep ==
    ASSUME NEW p \in Process, Rest(p)
    PROVE  Draft' = [Draft EXCEPT ![p] = IF pc'[p] \in Saving THEN mine'[p] ELSE Absent]
<1> DEFINE new == IF pc'[p] \in Saving THEN mine'[p] ELSE Absent
<1>1. Draft' = [q \in Process |-> IF pc'[q] \in Saving THEN mine'[q] ELSE Absent]
  BY DEF Draft, Absent, Unreadable
<1>2. \A q \in Process :
          (IF pc'[q] \in Saving THEN mine'[q] ELSE Absent) = IF q = p THEN new ELSE Draft[q]
  BY DEF Rest, Draft
<1>3. [Draft EXCEPT ![p] = new] = [q \in Process |-> IF q = p THEN new ELSE Draft[q]]
  BY DEF Draft
<1> QED
  BY <1>1, <1>2, <1>3

(* A call that is not saving begins a save, or does nothing to the file.   *)
LEMMA QuietStep ==
    ASSUME TypeOK, TypeOK', NEW p \in Process, Rest(p), pc[p] \notin Saving, session' = session,
           "save" \in overlaps' <=> "save" \in overlaps
    PROVE  Store!Begin(p) \/ UNCHANGED Store!vars
<1>1. ("save" \in overlaps)' = ("save" \in overlaps)
  OBVIOUS
<1>2. Draft[p] = Absent
  BY DraftIs
<1>3. CASE pc'[p] \in Saving
  <2>1. Draft' = [Draft EXCEPT ![p] = mine'[p]]
    BY <1>3, DraftStep
  <2>2. mine'[p] \in Saved
    BY DEF TypeOK
  <2>3. \E t \in Saved : Draft' = [Draft EXCEPT ![p] = t]
    BY <2>1, <2>2
  <2>4. Store!Begin(p)
    BY <1>1, <1>2, <2>3 DEF Store!Begin, Draft, Absent
  <2> QED
    BY <2>4
<1>4. CASE pc'[p] \notin Saving
  <2>1. Draft' = [Draft EXCEPT ![p] = Absent]
    BY <1>4, DraftStep
  <2>2. Draft' = Draft
    BY <1>2, <2>1 DEF Draft
  <2> QED
    BY <1>1, <2>2 DEF Store!vars, Draft, Absent
<1> QED
  BY <1>3, <1>4

(* A save ends when its call moves on or is over.                          *)
LEMMA EndStep ==
    ASSUME TypeOK, NEW p \in Process, Rest(p), pc[p] \in Saving, pc'[p] \notin Saving,
           "save" \in overlaps' <=> "save" \in overlaps
    PROVE  /\ Store!End(p) /\ Draft' = [Draft EXCEPT ![p] = Absent]
           /\ Draft[p] = mine[p] /\ Draft[p] # Absent
<1>1. Draft' = [Draft EXCEPT ![p] = Absent]
  BY DraftStep
<1>2. Draft[p] = mine[p] /\ Draft[p] # Absent
  BY DraftIs
<1> QED
  BY <1>1, <1>2 DEF Store!End, Draft, Absent

LEMMA OpenStep ==
    ASSUME TypeOK, NEW p \in Process, OpenTmp(p)
    PROVE  (\E q \in Process : Store!Break(p, q)) \/ UNCHANGED Store!vars
<1>1. Draft' = Draft /\ session' = session
  BY DEF OpenTmp, locals, Draft, Absent, Unreadable
<1>2. CASE Meets(p, Saving) /\ overlaps' = overlaps \cup {"save"}
  <2>1. PICK q \in Process \ {p} : pc[q] \in Saving
    BY <1>2 DEF Meets
  <2>2. Draft[p] # Absent /\ Draft[q] # Absent
    BY <2>1, DraftIs DEF OpenTmp
  <2> QED
    BY <1>1, <1>2, <2>1, <2>2 DEF Store!Break, Draft, Absent
<1>3. CASE overlaps' = overlaps
  BY <1>1, <1>3 DEF Store!vars, Draft, Absent
<1> QED
  BY <1>2, <1>3 DEF OpenTmp

LEMMA FillStep ==
    ASSUME TypeOK, SaveInv, NEW p \in Process, FillTmp(p)
    PROVE  Store!Garble(p) \/ UNCHANGED Store!vars
<1>1. Draft' = Draft /\ overlaps' = overlaps
  BY DEF FillTmp, locals, Draft, Absent, Unreadable
<1>2. Draft[p] # Absent /\ session' \in Content
  BY DraftIs, FillTmpEffect DEF FillTmp, TypeOK
<1>3. CASE "save" \in overlaps
  BY <1>1, <1>2, <1>3 DEF Store!Garble, Draft, Absent
<1>4. CASE "save" \notin overlaps
  <2>1. session' = session
    BY <1>4 DEF SaveInv, FillTmp
  <2> QED
    BY <1>1, <2>1 DEF Store!vars, Draft, Absent
<1> QED
  BY <1>3, <1>4

LEMMA ReplaceStep ==
    ASSUME TypeOK, SaveInv, NEW p \in Process, Replace(p)
    PROVE  Store!Publish(p) \/ Store!Garble(p)
<1>1. /\ TypeOK' /\ Rest(p) /\ session' = tmp /\ pc'[p] = AfterSave(pc[p])
      /\ pc[p] \in Saving /\ fd[p] = "filled" /\ overlaps' = overlaps
  BY ReplaceEffect DEF Replace
<1>2. pc'[p] \notin Saving
  BY <1>1 DEF AfterSave, Saving
<1>3. /\ Store!End(p) /\ Draft' = [Draft EXCEPT ![p] = Absent]
      /\ Draft[p] = mine[p] /\ Draft[p] # Absent
  BY <1>1, <1>2, EndStep
<1>4. CASE "save" \in overlaps
  <2>1. session' \in Content
    BY <1>1 DEF TypeOK
  <2> QED
    BY <1>1, <1>3, <1>4, <2>1 DEF Store!Garble, Draft, Absent
<1>5. CASE "save" \notin overlaps
  <2>1. session' = Draft[p]
    BY <1>1, <1>3, <1>5 DEF SaveInv
  <2> QED
    BY <1>3, <2>1 DEF Store!Publish, Draft, Absent
<1> QED
  BY <1>4, <1>5

(* A dead call, or one whose replace has found no file, saves nothing.     *)
LEMMA DeathStep ==
    ASSUME TypeOK, NEW p \in Process, ReplaceFails(p) \/ Crash(p)
    PROVE  Store!Abandon(p) \/ Store!Begin(p) \/ UNCHANGED Store!vars
<1>1. TypeOK' /\ Rest(p) /\ Over(p) /\ session' = session /\ overlaps' = overlaps
  BY ReplaceFailsEffect, CrashEffect DEF ReplaceFails, Crash, files
<1>2. pc'[p] \notin Saving
  BY <1>1 DEF Over, Saving
<1>3. CASE pc[p] \in Saving
  BY <1>1, <1>2, <1>3, EndStep DEF Store!Abandon
<1>4. CASE pc[p] \notin Saving
  BY <1>1, <1>4, QuietStep
<1> QED
  BY <1>3, <1>4

\* SessionStore implements AtomicFile: until two saves overlap, session.json
\* only ever takes the whole text of a call that is saving it, as that save
\* ends, whatever temporary files dead calls have left.
THEOREM SessionImplementsFile == Spec => ImplementsFile
<1>1. Init => Store!Init
  <2> SUFFICES ASSUME Init PROVE Store!Init
    OBVIOUS
  <2>1. session \in Saved /\ "save" \notin overlaps
    BY FreshSaved DEF Init
  <2>2. Draft = [p \in Process |-> Absent]
    BY DEF Init, Draft, Saving
  <2> QED
    BY <2>1, <2>2 DEF Store!Init, Draft, Absent
<1>2. Inv /\ [Next]_vars => [Store!Next]_(Store!vars)
  <2> SUFFICES ASSUME Inv, [Next]_vars PROVE [Store!Next]_(Store!vars)
    OBVIOUS
  <2>1. ASSUME NEW p \in Process, Step(p) PROVE [Store!Next]_(Store!vars)
    <3>1. CASE Execute(p) \/ Archive(p) \/ CompleteEdits(p) \/ Apply(p)
      <4>1. TypeOK' /\ Rest(p)
        BY <2>1, StepKnows DEF Inv
      <4>2. /\ pc[p] \notin Saving /\ session' = session
            /\ "save" \in overlaps' <=> "save" \in overlaps
        BY <3>1, Elsewhere DEF Inv
      <4>3. Store!Begin(p) \/ UNCHANGED Store!vars
        BY <4>1, <4>2, QuietStep DEF Inv
      <4> QED
        BY <4>3 DEF Store!Next
    <3>2. CASE OpenTmp(p)
      BY <3>2, OpenStep DEF Inv, Store!Next
    <3>3. CASE FillTmp(p)
      BY <3>3, FillStep DEF Inv, Store!Next
    <3>4. CASE Replace(p)
      BY <3>4, ReplaceStep DEF Inv, Store!Next
    <3>5. CASE ReplaceFails(p) \/ Crash(p)
      BY <3>5, DeathStep DEF Inv, Store!Next
    <3> QED
      BY <2>1, <3>1, <3>2, <3>3, <3>4, <3>5 DEF Step, Save
  <2>2. CASE UNCHANGED vars
    BY <2>2 DEF vars, files, locals, Store!vars
  <2> QED
    BY <2>1, <2>2, Steps
<1> QED
  BY <1>1, <1>2, Inductive, PTL DEF Spec, ImplementsFile, Store!Spec
=============================================================================
