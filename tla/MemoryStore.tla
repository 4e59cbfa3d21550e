---------------------------- MODULE MemoryStore ----------------------------
(***************************************************************************)
(* The observation store (opencontext_memory/store/sqlite.py, schema.sql)  *)
(* and the tools that write to it (opencontext_memory/tools, lifecycle.py).*)
(* Every process is single-threaded and has a connection of its own in     *)
(* autocommit mode, so each SQL statement is one step and calls of         *)
(* different processes interleave between statements.                      *)
(*                                                                         *)
(* One project and one scope; a text stands for title and content.         *)
(* Timestamps, revision_count and duplicate_count are left out.  What is   *)
(* modelled of SQLite is how this code uses it: AUTOINCREMENT ids that are *)
(* also used up by upserts, the partial unique index on topics, postings   *)
(* of an external-content FTS5 table, and last_insert_rowid, which an      *)
(* upsert that updates leaves alone.                                       *)
(***************************************************************************)
EXTENDS Naturals

CONSTANTS
    Process, Text, Topic,
    None,       \* no topic_key
    Rows,       \* bound on the ids of observations
    Relations,  \* bound on the ids of relations
    Calls       \* bound on the number of calls

ASSUME StoreAssumption ==
    /\ None \notin Topic /\ Text # {}
    /\ Rows \in Nat /\ Relations \in Nat /\ Calls \in Nat

VARIABLES
    rows,       \* the table observations
    seq,        \* the last id it has given out (sqlite_sequence)
    index,      \* observations_fts: pairs of a rowid and a text
    relations,  \* the table memory_relations
    relSeq,     \* the last id it has given out
    sessions,   \* the number of rows of the table sessions
    last,       \* last_insert_rowid() of each connection
    pc, call,   \* the call each process executes and its arguments
    found,      \* what its probe for the topic has returned, 0 if nothing
    new,        \* the id its write goes on with
    target,     \* history: the row its write went to
    todo,       \* what it has left to do: rows to compact, each with its
                \* keeper, or candidates to relate, each with the new row
    touched,    \* history: rows other processes wrote to during the call
    stale,      \* history: rows whose posting is not vouched for
    left        \* calls still to come

store == <<rows, seq, index, relations, relSeq, sessions, stale>>
locals == <<pc, call, found, new, target, todo, touched>>
vars == <<store, last, locals, left>>

Id == 1..Rows
Life == {"active", "proposed", "rejected", "compacted"}
Row == [status : {"absent", "live", "deleted"}, text : Text,
        topic : Topic \cup {None}, life : Life, pinned : BOOLEAN]
Call == [text : Text, topic : Topic \cup {None}, life : Life, id : Id \cup {0}]
Location == {"idle", "bump", "probe", "insert", "written", "search", "relate",
             "approve", "reject", "review", "compact",
             "purge rows", "purge index", "purge relations", "purge sessions"}

(* The type invariant: the columns and local variables hold values of      *)
(* their types, no posting is under rowid 0, and no more ids are in use    *)
(* than were given out.                                                    *)
TypeOK ==
    /\ rows \in [Id -> Row]
    /\ seq \in 0..Rows
    /\ index \subseteq (Nat \ {0}) \X Text
    /\ relations \subseteq [source : Nat, target : Id, judged : BOOLEAN]
    /\ relSeq \in 0..Relations
    /\ sessions \in {0, 1}
    /\ last \in [Process -> Nat]
    /\ pc \in [Process -> Location]
    /\ call \in [Process -> Call]
    /\ found \in [Process -> Id \cup {0}]
    /\ new \in [Process -> Nat]
    /\ target \in [Process -> Id \cup {0}]
    /\ todo \in [Process -> SUBSET (Id \X Nat)]
    /\ touched \in [Process -> SUBSET Id]
    /\ stale \subseteq Id
    /\ left \in 0..Calls
    /\ \A i \in Id : i > seq => rows[i].status = "absent"

AnyText == CHOOSE x \in Text : TRUE
NoRow == [status |-> "absent", text |-> AnyText, topic |-> None,
          life |-> "active", pinned |-> FALSE]
NoCall == [text |-> AnyText, topic |-> None, life |-> "active", id |-> 0]

Init ==
    /\ rows = [i \in Id |-> NoRow]
    /\ seq = 0
    /\ index = {} /\ relations = {} /\ relSeq = 0 /\ sessions = 0
    /\ last = [p \in Process |-> 0]
    /\ pc = [p \in Process |-> "idle"]
    /\ call = [p \in Process |-> NoCall]
    /\ found = [p \in Process |-> 0]
    /\ new = [p \in Process |-> 0]
    /\ target = [p \in Process |-> 0]
    /\ todo = [p \in Process |-> {}]
    /\ touched = [p \in Process |-> {}]
    /\ stale = {}
    /\ left = Calls

-----------------------------------------------------------------------------
Live(i) == rows[i].status = "live"
OnTopic(t) == {i \in Id : Live(i) /\ t # None /\ rows[i].topic = t}
(* Mutant: deleted rows are not left out.                                  *)
HoldingAny(x) == {i \in Id : rows[i].status # "absent" /\ rows[i].text = x}

Holding(x) == {i \in Id : Live(i) /\ rows[i].text = x}

(* The others note which rows process p writes to.                         *)
Touch(p, S) ==
    touched' = [q \in Process |->
        IF q = p \/ pc[q] = "idle" THEN touched[q] ELSE touched[q] \cup S]

Ready(p) == pc[p] = "idle" /\ left > 0

(* A process begins a call.                                                *)
Begin(p, where, c) ==
    /\ left' = left - 1
    /\ pc' = [pc EXCEPT ![p] = where]
    /\ call' = [call EXCEPT ![p] = c]

Goto(p, where) == pc' = [pc EXCEPT ![p] = where]

(* A call ends and what it knew is forgotten.                              *)
Return(p) ==
    /\ Goto(p, "idle")
    /\ call' = [call EXCEPT ![p] = NoCall]
    /\ found' = [found EXCEPT ![p] = 0]
    /\ new' = [new EXCEPT ![p] = 0]
    /\ target' = [target EXCEPT ![p] = 0]
    /\ todo' = [todo EXCEPT ![p] = {}]

(* A call that is a single statement.                                      *)
OneStatement(p) ==
    /\ Ready(p)
    /\ left' = left - 1
    /\ UNCHANGED <<pc, call, found, new, target, todo>>

-----------------------------------------------------------------------------
(* mem_save, first statement: is there a live row with an equal text?      *)
Save(p, x, t, life) ==
    /\ Ready(p)
    /\ IF Holding(x) # {}
       THEN \E i \in Holding(x) :
                /\ \A j \in Holding(x) : i <= j
                /\ Begin(p, "bump", [text |-> x, topic |-> t, life |-> life, id |-> i])
       ELSE Begin(p, IF t = None THEN "insert" ELSE "probe",
                  [text |-> x, topic |-> t, life |-> life, id |-> 0])
    /\ UNCHANGED <<store, last, found, new, target, todo, touched>>

(* _absorb_equal_content counts the duplicate on the row it has found and  *)
(* the save returns its id.                                                *)
Bump(p) ==
    /\ pc[p] = "bump"
    /\ Return(p)
    /\ touched' = [touched EXCEPT ![p] = {}]
    /\ UNCHANGED <<store, last, left>>

(* _write_observation looks for the row of the topic, to report upserted.  *)
Probe(p) ==
    /\ pc[p] = "probe"
    /\ LET t == call[p].topic
       IN  \/ OnTopic(t) = {} /\ UNCHANGED found
           \/ \E i \in OnTopic(t) : found' = [found EXCEPT ![p] = i]
    /\ Goto(p, "insert")
    /\ UNCHANGED <<store, last, call, new, target, todo, touched, left>>

Written(c) == [status |-> "live", text |-> c.text, topic |-> c.topic,
               life |-> c.life, pinned |-> FALSE]

(* Mutant: id INTEGER PRIMARY KEY without AUTOINCREMENT, the next id is one *)
(* more than the largest in the table.                                     *)
InsertReusing(p) ==
    /\ pc[p] = "insert"
    /\ OnTopic(call[p].topic) = {}
    /\ \E i \in Id :
           /\ \A j \in Id : j >= i => rows[j].status = "absent"
           /\ \A j \in Id : j = i - 1 => rows[j].status # "absent"
           /\ seq' = IF i > seq THEN i ELSE seq
           /\ rows' = [rows EXCEPT ![i] = Written(call[p])]
           /\ last' = [last EXCEPT ![p] = i]
           /\ new' = [new EXCEPT ![p] = i]
           /\ target' = [target EXCEPT ![p] = i]
           /\ Touch(p, {i})
    /\ Goto(p, "written")
    /\ UNCHANGED <<index, relations, relSeq, sessions, stale, call, found, todo, left>>

(* MemoryStore.write, the upsert: no live row has the topic; lastrowid is  *)
(* the id of the fresh row.                                                *)
InsertFresh(p) ==
    /\ pc[p] = "insert"
    /\ seq < Rows
    /\ OnTopic(call[p].topic) = {}
    /\ seq' = seq + 1
    /\ rows' = [rows EXCEPT ![seq + 1] = Written(call[p])]
    /\ last' = [last EXCEPT ![p] = seq + 1]
    /\ new' = [new EXCEPT ![p] = seq + 1]
    /\ target' = [target EXCEPT ![p] = seq + 1]
    /\ Goto(p, "written")
    /\ Touch(p, {seq + 1})
    /\ UNCHANGED <<index, relations, relSeq, sessions, stale, call, found, todo, left>>

(* MemoryStore.write, the upsert: the row of the topic is updated in       *)
(* place; lastrowid is whatever this connection inserted last.             *)
InsertUpdates(p) ==
    /\ pc[p] = "insert"
    /\ seq < Rows
    /\ seq' = seq + 1
    /\ \E i \in OnTopic(call[p].topic) :
           /\ rows' = [rows EXCEPT ![i] = Written(call[p])]
           /\ target' = [target EXCEPT ![p] = i]
           /\ stale' = stale \cup {i}
           /\ Touch(p, {i})
    /\ new' = [new EXCEPT ![p] = last[p]]
    /\ Goto(p, "written")
    /\ UNCHANGED <<index, relations, relSeq, sessions, last, call, found, todo, left>>

(* Mutant: only approved texts are mirrored.                               *)
MirrorApproved(p) ==
    /\ pc[p] = "written" /\ new[p] # 0
    /\ index' = IF call[p].life = "active" THEN index \cup {<<new[p], call[p].text>>}
                ELSE index
    /\ last' = [last EXCEPT ![p] = new[p]]
    /\ Goto(p, "search")
    /\ UNCHANGED <<rows, seq, relations, relSeq, sessions, stale, call, found, new,
                   target, todo, touched, left>>

(* Mutant: lastrowid is used without a look at whether it is 0.            *)
MirrorAnyId(p) ==
    /\ pc[p] = "written"
    /\ index' = index \cup {<<new[p], call[p].text>>}
    /\ last' = [last EXCEPT ![p] = new[p]]
    /\ Goto(p, "search")
    /\ UNCHANGED <<rows, seq, relations, relSeq, sessions, stale, call, found, new,
                   target, todo, touched, left>>

(* MemoryStore.write with a lastrowid: the text is mirrored under it.      *)
Mirror(p) ==
    /\ pc[p] = "written" /\ new[p] # 0
    /\ index' = index \cup {<<new[p], call[p].text>>}
    /\ last' = [last EXCEPT ![p] = new[p]]
    /\ Goto(p, "search")
    /\ UNCHANGED <<rows, seq, relations, relSeq, sessions, stale, call, found, new,
                   target, todo, touched, left>>

(* MemoryStore.write without a lastrowid: the id is read back, and nothing *)
(* is mirrored.  If the row has gone the assertion fails.                  *)
ReadBack(p) ==
    /\ pc[p] = "written" /\ new[p] = 0
    /\ \/ /\ OnTopic(call[p].topic) = {}
          /\ Return(p)
          /\ touched' = [touched EXCEPT ![p] = {}]
       \/ /\ \E i \in OnTopic(call[p].topic) : new' = [new EXCEPT ![p] = i]
          /\ Goto(p, "search")
          /\ UNCHANGED <<call, found, target, todo, touched>>
    /\ UNCHANGED <<store, last, left>>

(* mem_save searches for candidates.  Which of the rows with a posting     *)
(* match the title and clear the floor is a matter of words.               *)
Search(p) ==
    /\ pc[p] = "search"
    /\ \E S \in SUBSET {i \in Id : Live(i) /\ i # new[p] /\ \E x \in Text : <<i, x>> \in index} :
           todo' = [todo EXCEPT ![p] = S \X {new[p]}]
    /\ Goto(p, "relate")
    /\ UNCHANGED <<store, last, call, found, new, target, touched, left>>

(* One pending relation is inserted per candidate.                         *)
Relate(p) ==
    /\ pc[p] = "relate" /\ relSeq < Relations
    /\ \E c \in todo[p] :
           /\ \A d \in todo[p] : c[1] <= d[1]
           /\ relations' = relations \cup
                  {[source |-> new[p], target |-> c[1], judged |-> FALSE]}
           /\ todo' = [todo EXCEPT ![p] = @ \ {c}]
    /\ relSeq' = relSeq + 1
    /\ last' = [last EXCEPT ![p] = relSeq + 1]
    /\ UNCHANGED <<rows, seq, index, sessions, stale, pc, call, found, new, target,
                   touched, left>>

Upserted(p) == found[p] # 0 /\ found[p] = new[p]

Saved(p) ==
    /\ pc[p] = "relate" /\ todo[p] = {}
    /\ Return(p)
    /\ touched' = [touched EXCEPT ![p] = {}]
    /\ UNCHANGED <<store, last, left>>

-----------------------------------------------------------------------------
(* mem_approve, mem_reject and mark_reviewed read the row first.           *)
Look(p, i, what) ==
    /\ Ready(p) /\ Live(i)
    /\ Begin(p, what, [NoCall EXCEPT !.id = i])
    /\ UNCHANGED <<store, last, found, new, target, todo, touched>>

(* ... and update it by its id alone.                                      *)
Decide(p) ==
    /\ pc[p] \in {"approve", "review", "reject"}
    /\ LET i == call[p].id
           decided == IF pc[p] = "reject"
                      THEN [rows[i] EXCEPT !.life = "rejected", !.status = "deleted"]
                      ELSE [rows[i] EXCEPT !.life = "active"]
       IN  /\ rows' = IF rows[i].status = "absent" THEN rows
                      ELSE [rows EXCEPT ![i] = decided]
           /\ touched' = [q \in Process |->
                  IF q = p \/ pc[q] = "idle" THEN {} ELSE touched[q] \cup {i}]
    /\ Return(p)
    /\ UNCHANGED <<seq, index, relations, relSeq, sessions, stale, last, left>>

(* mem_delete, soft or hard: the postings of the row stay.                 *)
Delete(p, i, hard) ==
    /\ OneStatement(p)
    /\ Live(i) \/ (hard /\ rows[i].status = "deleted")
    /\ rows' = [rows EXCEPT ![i] = IF hard THEN NoRow ELSE [@ EXCEPT !.status = "deleted"]]
    /\ Touch(p, {i})
    /\ UNCHANGED <<seq, index, relations, relSeq, sessions, stale, last>>

(* mem_update of the content; the postings stay.                           *)
Revise(p, i, x) ==
    /\ OneStatement(p)
    /\ Live(i) /\ rows[i].text # x
    /\ rows' = [rows EXCEPT ![i].text = x]
    /\ stale' = stale \cup {i}
    /\ Touch(p, {i})
    /\ UNCHANGED <<seq, index, relations, relSeq, sessions, last>>

(* mem_update of the topic: refused by the unique index if it is taken.    *)
Retopic(p, i, t) ==
    /\ OneStatement(p)
    /\ Live(i) /\ OnTopic(t) = {}
    /\ rows' = [rows EXCEPT ![i].topic = t]
    /\ Touch(p, {i})
    /\ UNCHANGED <<seq, index, relations, relSeq, sessions, stale, last>>

(* mem_pin, mem_unpin.                                                     *)
Pin(p, i, b) ==
    /\ OneStatement(p)
    /\ Live(i) /\ rows[i].pinned # b
    /\ rows' = [rows EXCEPT ![i].pinned = b]
    /\ Touch(p, {i})
    /\ UNCHANGED <<seq, index, relations, relSeq, sessions, stale, last>>

-----------------------------------------------------------------------------
Protected(i) == rows[i].pinned \/ rows[i].life = "proposed"

(* mem_compact: each text keeps its first live row; later rows go unless   *)
(* they are protected.                                                     *)
Duplicates ==
    {d \in Id \X Id :
        /\ Live(d[1]) /\ ~Protected(d[1])
        /\ d[2] < d[1]
        /\ d[2] \in Holding(rows[d[1]].text)
        /\ \A j \in Holding(rows[d[1]].text) : d[2] <= j}

(* mem_compact reads the live rows and decides.                            *)
Compact(p) ==
    /\ Ready(p) /\ Duplicates # {}
    /\ Begin(p, "compact", NoCall)
    /\ todo' = [todo EXCEPT ![p] = Duplicates]
    /\ UNCHANGED <<store, last, found, new, target, touched>>

(* ... then soft-deletes one row after the other, by id alone.             *)
CompactRow(p) ==
    /\ pc[p] = "compact"
    /\ \E d \in todo[p] :
           /\ \A e \in todo[p] : d[1] <= e[1]
           /\ rows' = IF rows[d[1]].status = "absent" THEN rows
                      ELSE [rows EXCEPT ![d[1]] =
                                [@ EXCEPT !.status = "deleted", !.life = "compacted"]]
           /\ Touch(p, {d[1]})
           /\ todo' = [todo EXCEPT ![p] = @ \ {d}]
    /\ UNCHANGED <<seq, index, relations, relSeq, sessions, stale, last, pc, call, found,
                   new, target, left>>

Compacted(p) ==
    /\ pc[p] = "compact" /\ todo[p] = {}
    /\ Return(p)
    /\ touched' = [touched EXCEPT ![p] = {}]
    /\ UNCHANGED <<store, last, left>>

-----------------------------------------------------------------------------
(* mem_purge: four statements.                                             *)
Purge(p) ==
    /\ Ready(p)
    /\ Begin(p, "purge rows", NoCall)
    /\ UNCHANGED <<store, last, found, new, target, todo, touched>>

PurgeRows(p) ==
    /\ pc[p] = "purge rows"
    /\ rows' = [i \in Id |-> NoRow]
    /\ Touch(p, Id)
    /\ Goto(p, "purge index")
    /\ UNCHANGED <<seq, index, relations, relSeq, sessions, stale, last, call, found, new,
                   target, todo, left>>

PurgeIndex(p) ==
    /\ pc[p] = "purge index"
    /\ index' = {}
    /\ stale' = stale \cup {i \in Id : Live(i)}
    /\ last' = [last EXCEPT ![p] = 0]
    /\ Goto(p, "purge relations")
    /\ UNCHANGED <<rows, seq, relations, relSeq, sessions, call, found, new, target, todo,
                   touched, left>>

PurgeRelations(p) ==
    /\ pc[p] = "purge relations"
    /\ relations' = {}
    /\ Goto(p, "purge sessions")
    /\ UNCHANGED <<rows, seq, index, relSeq, sessions, stale, last, call, found, new, target,
                   todo, touched, left>>

PurgeSessions(p) ==
    /\ pc[p] = "purge sessions"
    /\ sessions' = 0
    /\ Return(p)
    /\ touched' = [touched EXCEPT ![p] = {}]
    /\ UNCHANGED <<rows, seq, index, relations, relSeq, stale, last, left>>

(* mem_session_start inserts the row of a session unless it exists, or the *)
(* primary key refuses it.                                                 *)
SessionStart(p) ==
    /\ OneStatement(p)
    /\ sessions = 0
    /\ sessions' = 1
    /\ last' = [last EXCEPT ![p] = 1]
    /\ UNCHANGED <<rows, seq, index, relations, relSeq, stale, touched>>

(* mem_judge: the pending relation with this judgment id is judged.        *)
Judge(p, r) ==
    /\ OneStatement(p)
    /\ ~r.judged
    /\ relations' = (relations \ {r}) \cup {[r EXCEPT !.judged = TRUE]}
    /\ UNCHANGED <<rows, seq, index, relSeq, sessions, stale, last, touched>>

(* A process opens the store anew: a fresh connection has inserted         *)
(* nothing.                                                                *)
Open(p) ==
    /\ pc[p] = "idle" /\ last[p] # 0
    /\ last' = [last EXCEPT ![p] = 0]
    /\ UNCHANGED <<store, locals, left>>

(* A process dies in a call; the row it has written stays without a        *)
(* posting.                                                                *)
Crash(p) ==
    /\ pc[p] # "idle"
    /\ stale' = IF pc[p] = "written" THEN stale \cup {target[p]} ELSE stale
    /\ last' = [last EXCEPT ![p] = 0]
    /\ Return(p)
    /\ touched' = [touched EXCEPT ![p] = {}]
    /\ UNCHANGED <<rows, seq, index, relations, relSeq, sessions, left>>

Saving(p) ==
    \/ \E x \in Text, t \in Topic \cup {None}, life \in {"active", "proposed"} :
           Save(p, x, t, life)
    \/ Bump(p) \/ Probe(p) \/ InsertFresh(p) \/ InsertUpdates(p) \/ Mirror(p)
    \/ ReadBack(p) \/ Search(p) \/ Relate(p) \/ Saved(p)

Deciding(p) ==
    \/ \E i \in Id, what \in {"approve", "review", "reject"} : Look(p, i, what)
    \/ Decide(p)

Editing(p) ==
    \E i \in Id :
        \/ \E hard \in BOOLEAN : Delete(p, i, hard)
        \/ \E x \in Text : Revise(p, i, x)
        \/ \E t \in Topic : Retopic(p, i, t)
        \/ \E b \in BOOLEAN : Pin(p, i, b)

Compacting(p) == Compact(p) \/ CompactRow(p) \/ Compacted(p)

Purging(p) ==
    Purge(p) \/ PurgeRows(p) \/ PurgeIndex(p) \/ PurgeRelations(p) \/ PurgeSessions(p)

Next ==
    \E p \in Process :
        \/ Saving(p) \/ Deciding(p) \/ Editing(p) \/ Compacting(p) \/ Purging(p)
        \/ SessionStart(p) \/ (\E r \in relations : Judge(p, r))
        \/ Open(p) \/ Crash(p)

Spec == Init /\ [][Next]_vars

-----------------------------------------------------------------------------
(* What a call goes on with after its first look still holds, except for   *)
(* rows that other processes have written to since.  A save that is        *)
(* absorbed names a live row with its text; a decision is about a live     *)
(* row; a receipt says upserted only if the row was updated in place; a    *)
(* row that compaction is about to drop is unprotected and its keeper has  *)
(* the same text and stays.                                                *)
ActsOnFacts ==
    \A p \in Process :
        LET Still(i, P) == i \in touched[p] \/ (Live(i) /\ P)
        IN  /\ pc[p] = "bump" => Still(call[p].id, rows[call[p].id].text = call[p].text)
            /\ pc[p] \in {"approve", "review", "reject"} => Still(call[p].id, TRUE)
            /\ pc[p] \in {"written", "search", "relate"} =>
                   Still(target[p], /\ rows[target[p]].text = call[p].text
                                    /\ rows[target[p]].topic = call[p].topic)
            /\ (pc[p] \in {"search", "relate"} /\ Upserted(p)) =>
                   (new[p] = target[p] \/ new[p] \in touched[p])
            /\ pc[p] = "compact" =>
                   \A d \in todo[p] :
                       /\ Still(d[1], ~Protected(d[1]))
                       /\ d[2] \in touched[p] \/ d[1] \in touched[p]
                              \/ (Live(d[2]) /\ rows[d[2]].text = rows[d[1]].text)

(* "Cannot accidentally resurrect a deleted observation" (mem_update.py):  *)
(* whatever calls overlap, a row that is gone stays gone, and its id is    *)
(* not given to another row.                                               *)
NoResurrection ==
    [][\A i \in Id : (i <= seq /\ ~Live(i)) => ~Live(i)']_vars

(* Search finds a live row under its text, unless the process that wrote   *)
(* it died before the mirror, the text was revised, or a purge emptied the *)
(* index while the row was being written.                                  *)
Findable ==
    \A i \in Id : Live(i) =>
        \/ <<i, rows[i].text>> \in index
        \/ i \in stale
        \/ \E p \in Process : pc[p] = "written" /\ target[p] = i

(* "The existing row is updated in place, revision_count increments, and   *)
(* the original id is returned" (sqlite.py, MemoryStore.write).            *)
ReturnsOriginalId ==
    \A p \in Process : pc[p] \in {"search", "relate"} => new[p] = target[p]
=============================================================================
