------------------------- MODULE MemoryStoreProofs -------------------------
(***************************************************************************)
(* What the memory store guarantees for any number of processes, rows,     *)
(* texts, topics and calls.                                                *)
(***************************************************************************)
EXTENDS MemoryStore, TLAPS

(* The partial unique index on topics.                                     *)
OneRowPerTopic ==
    \A i, j \in Id :
        (Live(i) /\ Live(j) /\ rows[i].topic # None /\ rows[i].topic = rows[j].topic) => i = j

Still(p, i, P) == i \in touched[p] \/ (Live(i) /\ P)

(* What a call of p knows of the store.                                    *)
Facts(p) ==
    /\ pc[p] \in {"idle", "probe"} => found[p] = 0
    /\ pc[p] = "bump" =>
           /\ call[p].id \in Id
           /\ Still(p, call[p].id, rows[call[p].id].text = call[p].text)
    /\ pc[p] \in {"approve", "review", "reject"} =>
           call[p].id \in Id /\ Still(p, call[p].id, TRUE)
    /\ (pc[p] = "insert" /\ found[p] # 0) =>
           /\ call[p].topic # None
           /\ Still(p, found[p], rows[found[p]].topic = call[p].topic)
    /\ pc[p] \in {"written", "search", "relate"} =>
           /\ target[p] \in Id
           /\ Still(p, target[p], /\ rows[target[p]].text = call[p].text
                                  /\ rows[target[p]].topic = call[p].topic)
           /\ found[p] \in {0, target[p]} \cup touched[p]
    /\ pc[p] = "compact" =>
           \A d \in todo[p] :
               /\ d \in Id \X Id
               /\ Still(p, d[1], ~Protected(d[1]))
               /\ d[2] \in touched[p] \/ d[1] \in touched[p]
                      \/ (Live(d[2]) /\ rows[d[2]].text = rows[d[1]].text)
               /\ \A e \in todo[p] : d[1] # e[2] /\ (d[1] = e[1] => d = e)

(* A row just written awaits its posting under its own id, or is known to  *)
(* miss it.                                                                *)
Awaited(p) ==
    pc[p] = "written" =>
        /\ target[p] \in Id /\ target[p] <= seq
        /\ target[p] \in stale \/ ~Live(target[p])
               \/ (new[p] = target[p] /\ rows[target[p]].text = call[p].text)

Inv ==
    /\ TypeOK /\ OneRowPerTopic /\ Findable
    /\ \A p \in Process : Facts(p) /\ Awaited(p)

-----------------------------------------------------------------------------
TableType ==
    /\ rows \in [Id -> Row] /\ seq \in 0..Rows
    /\ \A i \in Id : i > seq => rows[i].status = "absent"
RestType ==
    /\ index \subseteq (Nat \ {0}) \X Text
    /\ relations \subseteq [source : Nat, target : Id, judged : BOOLEAN]
    /\ relSeq \in 0..Relations /\ sessions \in {0, 1}
    /\ stale \subseteq Id /\ left \in 0..Calls
CallType ==
    /\ last \in [Process -> Nat] /\ pc \in [Process -> Location] /\ call \in [Process -> Call]
    /\ found \in [Process -> Id \cup {0}]
    /\ new \in [Process -> Nat]
    /\ target \in [Process -> Id \cup {0}]
    /\ todo \in [Process -> SUBSET (Id \X Nat)]
    /\ touched \in [Process -> SUBSET Id]

LEMMA TypeParts == TypeOK <=> TableType /\ RestType /\ CallType
BY DEF TypeOK, TableType, RestType, CallType

LEMMA Records ==
    /\ Rows \in Nat /\ Relations \in Nat /\ Calls \in Nat /\ Id = 1..Rows
    /\ AnyText \in Text /\ NoRow \in Row /\ NoCall \in Call
    /\ NoRow.status = "absent" /\ NoRow.topic = None
    /\ None \notin Topic
<1>1. AnyText \in Text
  BY StoreAssumption DEF StoreAssumption, AnyText
<1>2. NoRow \in Row /\ NoCall \in Call
  BY <1>1 DEF NoRow, NoCall, Row, Call, Life
<1> QED
  BY <1>1, <1>2, StoreAssumption DEF StoreAssumption, Id, NoRow

LEMMA Counter == ASSUME TypeOK PROVE seq \in Nat /\ seq \in 0..Rows /\ seq <= seq
<1>1. seq \in 0..Rows
  BY DEF TypeOK
<1>2. seq \in Nat
  BY <1>1, Records
<1> QED
  BY <1>1, <1>2

LEMMA RowFacts ==
    \A c \in Call : /\ Written(c) \in Row /\ Written(c).status = "live"
                     /\ Written(c).text = c.text /\ Written(c).topic = c.topic
BY Records DEF Row, Call, Life, Written

LEMMA CallFacts ==
    /\ \A x \in Text, t \in Topic \cup {None}, life \in Life, i \in Id \cup {0} :
           [text |-> x, topic |-> t, life |-> life, id |-> i] \in Call
    /\ \A i \in Id : [NoCall EXCEPT !.id = i] \in Call /\ [NoCall EXCEPT !.id = i].id = i
    /\ \A c \in Call : c.text \in Text /\ c.topic \in Topic \cup {None} /\ c.id \in Id \cup {0}
BY Records DEF Call, NoCall

LEMMA Moves ==
    ASSUME TypeOK, NEW p \in Process, NEW where \in Location, Goto(p, where)
    PROVE  pc' \in [Process -> Location] /\ pc'[p] = where
           /\ \A q \in Process : q # p => pc'[q] = pc[q]
BY DEF TypeOK, Goto

LEMMA Begins ==
    ASSUME TypeOK, NEW p \in Process, NEW where \in Location, NEW c \in Call,
           Ready(p), Begin(p, where, c)
    PROVE  /\ pc' \in [Process -> Location] /\ pc'[p] = where
           /\ call' \in [Process -> Call] /\ call'[p] = c
           /\ \A q \in Process : q # p => pc'[q] = pc[q] /\ call'[q] = call[q]
           /\ left' \in 0..Calls
BY Records DEF TypeOK, Begin, Ready

LEMMA OneFewer ==
    ASSUME TypeOK, NEW p \in Process, OneStatement(p)
    PROVE  left' \in 0..Calls
BY Records DEF TypeOK, OneStatement, Ready

LEMMA Returns ==
    ASSUME TypeOK, NEW p \in Process, Return(p)
    PROVE  /\ pc' \in [Process -> Location] /\ pc'[p] = "idle"
           /\ call' \in [Process -> Call] /\ found' \in [Process -> Id \cup {0}]
           /\ new' \in [Process -> Nat] /\ target' \in [Process -> Id \cup {0}]
           /\ todo' \in [Process -> SUBSET (Id \X Nat)]
           /\ \A q \in Process : q # p =>
                  /\ pc'[q] = pc[q] /\ call'[q] = call[q] /\ found'[q] = found[q]
                  /\ new'[q] = new[q] /\ target'[q] = target[q] /\ todo'[q] = todo[q]
BY Records DEF TypeOK, Return, Goto, Location

LEMMA Touches ==
    ASSUME TypeOK, NEW p \in Process, NEW S \in SUBSET Id, Touch(p, S)
    PROVE  /\ touched' \in [Process -> SUBSET Id] /\ touched'[p] = touched[p]
           /\ \A q \in Process : q # p =>
                  pc[q] = "idle" \/ (touched[q] \subseteq touched'[q] /\ S \subseteq touched'[q])
BY DEF TypeOK, Touch

(* One row is written; a row that exists has an id that was given out.     *)
WritesRow(i, r) ==
    rows' \in [Id -> Row] /\ rows'[i] = r /\ (\A j \in Id : j # i => rows'[j] = rows[j])

LEMMA RowWritten ==
    ASSUME TypeOK, NEW i \in Id, NEW r \in Row, rows' = [rows EXCEPT ![i] = r]
    PROVE  WritesRow(i, r)
BY DEF TypeOK, WritesRow

LEMMA TableKept ==
    ASSUME TypeOK, NEW i \in Id, NEW r, WritesRow(i, r),
           seq' \in 0..Rows, seq <= seq', i <= seq' \/ r.status = "absent"
    PROVE  TableType'
<1>1. ASSUME NEW j \in Id, j > seq'
      PROVE  rows'[j].status = "absent"
  <2>1. j > seq
    BY <1>1, Records DEF TypeOK
  <2>2. rows[j].status = "absent"
    BY <2>1 DEF TypeOK
  <2> QED
    BY <1>1, <2>2, Records DEF WritesRow
<1> QED
  BY <1>1 DEF TableType, WritesRow

LEMMA Existing ==
    ASSUME TypeOK, NEW i \in Id
    PROVE  /\ i \in Nat /\ rows[i] \in Row /\ rows[i].text \in Text
           /\ rows[i].status # "absent" => i <= seq
           /\ Live(i) => i <= seq /\ rows[i].status = "live"
BY Records DEF TypeOK, Live, Row

-----------------------------------------------------------------------------
(* Every action keeps the types.                                           *)
LEMMA TypeSave ==
    ASSUME TypeOK, NEW p \in Process, NEW x \in Text, NEW t \in Topic \cup {None},
           NEW life \in {"active", "proposed"}, Save(p, x, t, life)
    PROVE  TypeOK'
<1>0. \E where \in Location, c \in Call : Ready(p) /\ Begin(p, where, c)
  <2>1. {"bump", "insert", "probe"} \subseteq Location /\ life \in Life
    BY DEF Location, Life
  <2>2. CASE Holding(x) # {}
    <3>1. PICK i \in Holding(x) : Begin(p, "bump", [text |-> x, topic |-> t, life |-> life, id |-> i])
      BY <2>2 DEF Save
    <3>2. i \in Id \cup {0}
      BY DEF Holding
    <3>3. [text |-> x, topic |-> t, life |-> life, id |-> i] \in Call
      BY <2>1, <3>2, CallFacts
    <3> QED
      BY <2>1, <3>1, <3>3 DEF Save
  <2>3. CASE Holding(x) = {}
    <3>1. [text |-> x, topic |-> t, life |-> life, id |-> 0] \in Call
      BY <2>1, CallFacts
    <3>2. (IF t = None THEN "insert" ELSE "probe") \in Location
      BY <2>1
    <3> QED
      BY <2>3, <3>1, <3>2 DEF Save
  <2> QED
    BY <2>2, <2>3
<1>1. TableType'
  BY Records DEF TypeOK, TableType, Save, store, locals, OneStatement, Ready
<1>2. RestType'
  BY <1>0, Begins DEF TypeOK, RestType, Save, store
<1>3. CallType'
  BY <1>0, Begins DEF TypeOK, CallType, Save
<1> QED
  BY <1>1, <1>2, <1>3 DEF TypeOK, TableType, RestType, CallType

LEMMA TypeBump ==
    ASSUME TypeOK, NEW p \in Process, Bump(p) PROVE TypeOK'
<1>1. TableType'
  BY Records DEF TypeOK, TableType, Bump, store, locals, OneStatement, Ready
<1>2. RestType'
  BY Records DEF TypeOK, RestType, Bump, store, locals, OneStatement, Ready
<1>3. CallType'
  BY Returns, Records DEF TypeOK, CallType, Bump, store, locals
<1> QED
  BY <1>1, <1>2, <1>3 DEF TypeOK, TableType, RestType, CallType

LEMMA TypeProbe ==
    ASSUME TypeOK, NEW p \in Process, Probe(p) PROVE TypeOK'
<1>1. TableType'
  BY Records DEF TypeOK, TableType, Probe, store, locals, OneStatement, Ready
<1>2. RestType'
  BY Records DEF TypeOK, RestType, Probe, store, locals, OneStatement, Ready
<1>3. CallType'
  <2>1. pc' \in [Process -> Location]
    BY Moves DEF Probe, Location
  <2>2. found' \in [Process -> Id \cup {0}]
    BY DEF TypeOK, Probe, OnTopic
  <2> QED
    BY <2>1, <2>2 DEF TypeOK, CallType, Probe, store
<1> QED
  BY <1>1, <1>2, <1>3 DEF TypeOK, TableType, RestType, CallType

LEMMA TypeInsertFresh ==
    ASSUME TypeOK, NEW p \in Process, InsertFresh(p) PROVE TypeOK'
<1>0. seq + 1 \in Id /\ seq \in Nat /\ call[p] \in Call
  BY Records DEF TypeOK, InsertFresh
<1>1. TableType'
  <2>1. Written(call[p]) \in Row /\ rows' = [rows EXCEPT ![seq + 1] = Written(call[p])]
    BY <1>0, RowFacts DEF InsertFresh
  <2>2. seq' = seq + 1 /\ seq' \in 0..Rows /\ seq <= seq' /\ seq + 1 <= seq'
    BY <1>0, Records DEF InsertFresh
  <2>3. WritesRow(seq + 1, Written(call[p]))
    BY <1>0, <2>1, RowWritten
  <2> QED
    BY <1>0, <2>2, <2>3, TableKept
<1>2. RestType'
  BY Records DEF TypeOK, RestType, InsertFresh, store, locals, OneStatement, Ready
<1>3. CallType'
  <2>1. pc' \in [Process -> Location]
    BY Moves DEF InsertFresh, Location
  <2>2. touched' \in [Process -> SUBSET Id]
    BY <1>0, Touches DEF InsertFresh
  <2>3. seq + 1 \in Nat
    BY <1>0
  <2> QED
    BY <1>0, <2>1, <2>2, <2>3 DEF TypeOK, CallType, InsertFresh
<1> QED
  BY <1>1, <1>2, <1>3 DEF TypeOK, TableType, RestType, CallType

LEMMA TypeInsertUpdates ==
    ASSUME TypeOK, NEW p \in Process, InsertUpdates(p) PROVE TypeOK'
<1>0. PICK i \in OnTopic(call[p].topic) :
          /\ rows' = [rows EXCEPT ![i] = Written(call[p])]
          /\ target' = [target EXCEPT ![p] = i]
          /\ stale' = stale \cup {i}
          /\ Touch(p, {i})
  BY DEF InsertUpdates
<1>a. i \in Id /\ Live(i) /\ call[p] \in Call /\ seq \in Nat /\ i <= seq
  <2>1. i \in Id /\ Live(i)
    BY DEF OnTopic
  <2> QED
    BY <2>1, Existing, Records DEF TypeOK
<1>1. TableType'
  <2>1. Written(call[p]) \in Row
    BY <1>a, RowFacts
  <2>2. seq' \in 0..Rows /\ seq <= seq' /\ i <= seq'
    <3>1. seq' = seq + 1 /\ seq < Rows /\ seq \in Nat /\ i \in Nat /\ i <= seq
      BY <1>a, Records DEF InsertUpdates
    <3> QED
      BY <3>1, Records
  <2>3. WritesRow(i, Written(call[p]))
    BY <1>0, <1>a, <2>1, RowWritten
  <2> QED
    BY <1>a, <2>2, <2>3, TableKept
<1>2. RestType'
  BY <1>0, <1>a DEF TypeOK, RestType, InsertUpdates
<1>3. CallType'
  <2>1. pc' \in [Process -> Location]
    BY Moves DEF InsertUpdates, Location
  <2>2. touched' \in [Process -> SUBSET Id]
    BY <1>0, <1>a, Touches
  <2> QED
    BY <1>0, <1>a, <2>1, <2>2 DEF TypeOK, CallType, InsertUpdates
<1> QED
  BY <1>1, <1>2, <1>3 DEF TypeOK, TableType, RestType, CallType

LEMMA TypeMirror ==
    ASSUME TypeOK, NEW p \in Process, Mirror(p) PROVE TypeOK'
<1>1. TableType'
  BY Records DEF TypeOK, TableType, Mirror, store, locals, OneStatement, Ready
<1>2. RestType'
  <2>1. <<new[p], call[p].text>> \in (Nat \ {0}) \X Text
    BY CallFacts DEF TypeOK, Mirror
  <2> QED
    BY <2>1 DEF TypeOK, RestType, Mirror
<1>3. CallType'
  <2>1. pc' \in [Process -> Location]
    BY Moves DEF Mirror, Location
  <2> QED
    BY <2>1 DEF TypeOK, CallType, Mirror
<1> QED
  BY <1>1, <1>2, <1>3 DEF TypeOK, TableType, RestType, CallType

LEMMA TypeReadBack ==
    ASSUME TypeOK, NEW p \in Process, ReadBack(p) PROVE TypeOK'
<1>1. TableType'
  BY Records DEF TypeOK, TableType, ReadBack, store, locals, OneStatement, Ready
<1>2. RestType'
  BY Records DEF TypeOK, RestType, ReadBack, store, locals, OneStatement, Ready
<1>3. CallType'
  <2>1. CASE Return(p) /\ touched' = [touched EXCEPT ![p] = {}]
    BY <2>1, Returns DEF TypeOK, CallType, ReadBack
  <2>2. CASE ~Return(p) \/ touched' # [touched EXCEPT ![p] = {}]
    <3>1. PICK i \in OnTopic(call[p].topic) : new' = [new EXCEPT ![p] = i]
      BY <2>2 DEF ReadBack
    <3>2. i \in Nat
      BY Records DEF OnTopic
    <3>3. pc' \in [Process -> Location]
      BY <2>2, Moves DEF ReadBack, Location
    <3> QED
      BY <2>2, <3>1, <3>2, <3>3 DEF TypeOK, CallType, ReadBack
  <2> QED
    BY <2>1, <2>2
<1> QED
  BY <1>1, <1>2, <1>3 DEF TypeOK, TableType, RestType, CallType

LEMMA TypeSearch ==
    ASSUME TypeOK, NEW p \in Process, Search(p) PROVE TypeOK'
<1>1. TableType'
  BY Records DEF TypeOK, TableType, Search, store, locals, OneStatement, Ready
<1>2. RestType'
  BY Records DEF TypeOK, RestType, Search, store, locals, OneStatement, Ready
<1>3. CallType'
  <2>1. pc' \in [Process -> Location]
    BY Moves DEF Search, Location
  <2>2. PICK S \in SUBSET Id : todo' = [todo EXCEPT ![p] = S \X {new[p]}]
    BY DEF Search
  <2>3. S \X {new[p]} \in SUBSET (Id \X Nat)
    BY DEF TypeOK
  <2> QED
    BY <2>1, <2>2, <2>3 DEF TypeOK, CallType, Search, store
<1> QED
  BY <1>1, <1>2, <1>3 DEF TypeOK, TableType, RestType, CallType

LEMMA TypeRelate ==
    ASSUME TypeOK, NEW p \in Process, Relate(p) PROVE TypeOK'
<1>0. PICK c \in todo[p] :
          /\ relations' = relations \cup {[source |-> new[p], target |-> c[1], judged |-> FALSE]}
          /\ todo' = [todo EXCEPT ![p] = @ \ {c}]
  BY DEF Relate
<1>a. c[1] \in Id /\ new[p] \in Nat /\ todo[p] \ {c} \in SUBSET (Id \X Nat)
  BY DEF TypeOK
<1>1. TableType'
  BY Records DEF TypeOK, TableType, Relate, store, locals, OneStatement, Ready
<1>2. RestType'
  <2>1. [source |-> new[p], target |-> c[1], judged |-> FALSE]
            \in [source : Nat, target : Id, judged : BOOLEAN]
    BY <1>a
  <2>2. relations' \subseteq [source : Nat, target : Id, judged : BOOLEAN]
    BY <1>0, <2>1 DEF TypeOK
  <2>3. relSeq' \in 0..Relations
    BY Records DEF TypeOK, Relate
  <2> QED
    BY <2>2, <2>3 DEF TypeOK, RestType, Relate
<1>3. CallType'
  BY <1>0, <1>a, Records DEF TypeOK, CallType, Relate
<1> QED
  BY <1>1, <1>2, <1>3 DEF TypeOK, TableType, RestType, CallType

LEMMA TypeSaved ==
    ASSUME TypeOK, NEW p \in Process, Saved(p) PROVE TypeOK'
<1>1. TableType'
  BY Records DEF TypeOK, TableType, Saved, store, locals, OneStatement, Ready
<1>2. RestType'
  BY Records DEF TypeOK, RestType, Saved, store, locals, OneStatement, Ready
<1>3. CallType'
  BY Returns, Records DEF TypeOK, CallType, Saved, store, locals
<1> QED
  BY <1>1, <1>2, <1>3 DEF TypeOK, TableType, RestType, CallType

LEMMA TypeLook ==
    ASSUME TypeOK, NEW p \in Process, NEW i \in Id, NEW what \in {"approve", "review",
           "reject"}, Look(p, i, what)
    PROVE  TypeOK'
<1>0. Ready(p) /\ what \in Location /\ [NoCall EXCEPT !.id = i] \in Call
  BY CallFacts DEF Look, Location
<1>1. TableType'
  BY Records DEF TypeOK, TableType, Look, store, locals, OneStatement, Ready
<1>2. RestType'
  BY <1>0, Begins DEF TypeOK, RestType, Look, store
<1>3. CallType'
  BY <1>0, Begins DEF TypeOK, CallType, Look
<1> QED
  BY <1>1, <1>2, <1>3 DEF TypeOK, TableType, RestType, CallType

LEMMA TypeDecide ==
    ASSUME TypeOK, NEW p \in Process, call[p].id \in Id, Decide(p) PROVE TypeOK'
<1>0. rows' = rows \/ \E r \in Row : /\ rows' = [rows EXCEPT ![call[p].id] = r]
                                     /\ rows[call[p].id].status # "absent"
  <2>1. rows[call[p].id] \in Row
    BY Existing
  <2>2. /\ [rows[call[p].id] EXCEPT !.life = "rejected", !.status = "deleted"] \in Row
        /\ [rows[call[p].id] EXCEPT !.life = "active"] \in Row
    BY <2>1 DEF Row, Life
  <2> QED
    BY <2>2 DEF Decide
<1>1. TableType'
  <2>1. CASE rows' = rows
    BY <2>1 DEF TypeOK, TableType, Decide
  <2>2. CASE \E r \in Row : rows' = [rows EXCEPT ![call[p].id] = r] /\ rows[call[p].id].status # "absent"
    <3>1. PICK r \in Row : rows' = [rows EXCEPT ![call[p].id] = r]
      BY <2>2
    <3>2. call[p].id <= seq' /\ seq' \in 0..Rows /\ seq <= seq'
      <4>1. seq' = seq
        BY DEF Decide
      <4> QED
        BY <2>2, <4>1, Existing, Counter
    <3>3. WritesRow(call[p].id, r)
      BY <3>1, RowWritten
    <3> QED
      BY <3>2, <3>3, TableKept
  <2> QED
    BY <1>0, <2>1, <2>2
<1>2. RestType'
  BY Records DEF TypeOK, RestType, Decide, store, locals, OneStatement, Ready
<1>3. CallType'
  <2>1. touched' \in [Process -> SUBSET Id]
    BY DEF TypeOK, Decide
  <2> QED
    BY <2>1, Returns DEF TypeOK, CallType, Decide
<1> QED
  BY <1>1, <1>2, <1>3 DEF TypeOK, TableType, RestType, CallType

LEMMA TypeDelete ==
    ASSUME TypeOK, NEW p \in Process, NEW i \in Id, NEW hard \in BOOLEAN, Delete(p, i, hard)
    PROVE  TypeOK'
<1>1. TableType'
  <2>1. /\ [rows[i] EXCEPT !.status = "deleted"] \in Row /\ NoRow \in Row
    <3>1. rows[i] \in Row
      BY DEF TypeOK
    <3> QED
      BY <3>1, Records DEF Row
  <2>2. i <= seq
    BY Existing DEF Delete
  <2>3. rows' = [rows EXCEPT ![i] = IF hard THEN NoRow ELSE [rows[i] EXCEPT !.status = "deleted"]]
    BY DEF Delete, TypeOK
  <2>4. \E r \in Row : WritesRow(i, r)
    BY <2>1, <2>3, RowWritten
  <2>5. seq' = seq /\ seq \in 0..Rows /\ seq <= seq
    BY Records DEF TypeOK, Delete
  <2> QED
    BY <2>2, <2>4, <2>5, TableKept
<1>2. RestType'
  <2>1. left' \in 0..Calls
    BY OneFewer DEF Delete
  <2> QED
    BY <2>1 DEF TypeOK, RestType, Delete
<1>3. CallType'
  BY Touches DEF TypeOK, CallType, Delete, OneStatement
<1> QED
  BY <1>1, <1>2, <1>3 DEF TypeOK, TableType, RestType, CallType

LEMMA TypeRevise ==
    ASSUME TypeOK, NEW p \in Process, NEW i \in Id, NEW x \in Text, Revise(p, i, x) PROVE TypeOK'
<1>1. TableType'
  <2>1. [rows[i] EXCEPT !.text = x] \in Row
    <3>1. rows[i] \in Row
      BY DEF TypeOK
    <3> QED
      BY <3>1 DEF Row
  <2>2. rows' = [rows EXCEPT ![i] = [rows[i] EXCEPT !.text = x]]
    BY DEF TypeOK, Revise
  <2>3. i <= seq /\ seq' = seq /\ seq \in 0..Rows /\ seq <= seq
    <3>1. Live(i) /\ seq' = seq
      BY DEF Revise
    <3> QED
      BY <3>1, Existing, Counter
  <2>4. WritesRow(i, [rows[i] EXCEPT !.text = x])
    BY <2>1, <2>2, RowWritten
  <2> QED
    BY <2>3, <2>4, TableKept
<1>2. RestType'
  <2>1. left' \in 0..Calls
    BY OneFewer DEF Revise
  <2> QED
    BY <2>1 DEF TypeOK, RestType, Revise
<1>3. CallType'
  BY Touches DEF TypeOK, CallType, Revise, OneStatement
<1> QED
  BY <1>1, <1>2, <1>3 DEF TypeOK, TableType, RestType, CallType

LEMMA TypeRetopic ==
    ASSUME TypeOK, NEW p \in Process, NEW i \in Id, NEW t \in Topic, Retopic(p, i, t) PROVE TypeOK'
<1>1. TableType'
  <2>1. [rows[i] EXCEPT !.topic = t] \in Row
    <3>1. rows[i] \in Row
      BY DEF TypeOK
    <3> QED
      BY <3>1 DEF Row
  <2>2. rows' = [rows EXCEPT ![i] = [rows[i] EXCEPT !.topic = t]]
    BY DEF TypeOK, Retopic
  <2>3. i <= seq /\ seq' = seq /\ seq \in 0..Rows /\ seq <= seq
    <3>1. Live(i) /\ seq' = seq
      BY DEF Retopic
    <3> QED
      BY <3>1, Existing, Counter
  <2>4. WritesRow(i, [rows[i] EXCEPT !.topic = t])
    BY <2>1, <2>2, RowWritten
  <2> QED
    BY <2>3, <2>4, TableKept
<1>2. RestType'
  <2>1. left' \in 0..Calls
    BY OneFewer DEF Retopic
  <2> QED
    BY <2>1 DEF TypeOK, RestType, Retopic
<1>3. CallType'
  BY Touches DEF TypeOK, CallType, Retopic, OneStatement
<1> QED
  BY <1>1, <1>2, <1>3 DEF TypeOK, TableType, RestType, CallType

LEMMA TypePin ==
    ASSUME TypeOK, NEW p \in Process, NEW i \in Id, NEW b \in BOOLEAN, Pin(p, i, b) PROVE TypeOK'
<1>1. TableType'
  <2>1. [rows[i] EXCEPT !.pinned = b] \in Row
    <3>1. rows[i] \in Row
      BY DEF TypeOK
    <3> QED
      BY <3>1 DEF Row
  <2>2. rows' = [rows EXCEPT ![i] = [rows[i] EXCEPT !.pinned = b]]
    BY DEF TypeOK, Pin
  <2>3. i <= seq /\ seq' = seq /\ seq \in 0..Rows /\ seq <= seq
    <3>1. Live(i) /\ seq' = seq
      BY DEF Pin
    <3> QED
      BY <3>1, Existing, Counter
  <2>4. WritesRow(i, [rows[i] EXCEPT !.pinned = b])
    BY <2>1, <2>2, RowWritten
  <2> QED
    BY <2>3, <2>4, TableKept
<1>2. RestType'
  <2>1. left' \in 0..Calls
    BY OneFewer DEF Pin
  <2> QED
    BY <2>1 DEF TypeOK, RestType, Pin
<1>3. CallType'
  BY Touches DEF TypeOK, CallType, Pin, OneStatement
<1> QED
  BY <1>1, <1>2, <1>3 DEF TypeOK, TableType, RestType, CallType

LEMMA TypeCompact ==
    ASSUME TypeOK, NEW p \in Process, Compact(p) PROVE TypeOK'
<1>0. Ready(p) /\ "compact" \in Location /\ NoCall \in Call
  BY Records DEF Compact, Location
<1>1. TableType'
  BY Records DEF TypeOK, TableType, Compact, store, locals, OneStatement, Ready
<1>2. RestType'
  BY <1>0, Begins DEF TypeOK, RestType, Compact, store
<1>3. CallType'
  <2>1. Duplicates \in SUBSET (Id \X Nat)
    BY Records DEF Duplicates
  <2> QED
    BY <1>0, <2>1, Begins DEF TypeOK, CallType, Compact
<1> QED
  BY <1>1, <1>2, <1>3 DEF TypeOK, TableType, RestType, CallType

LEMMA TypeCompactRow ==
    ASSUME TypeOK, NEW p \in Process, CompactRow(p) PROVE TypeOK'
<1>0. PICK d \in todo[p] :
          /\ rows' = IF rows[d[1]].status = "absent" THEN rows
                     ELSE [rows EXCEPT ![d[1]] =
                               [@ EXCEPT !.status = "deleted", !.life = "compacted"]]
          /\ Touch(p, {d[1]})
          /\ todo' = [todo EXCEPT ![p] = @ \ {d}]
  BY DEF CompactRow
<1>a. d[1] \in Id /\ todo[p] \ {d} \in SUBSET (Id \X Nat)
  BY DEF TypeOK
<1>1. TableType'
  <2>1. CASE rows[d[1]].status = "absent"
    BY <1>0, <2>1 DEF TypeOK, TableType, CompactRow
  <2>2. CASE rows[d[1]].status # "absent"
    <3>1. [rows[d[1]] EXCEPT !.status = "deleted", !.life = "compacted"] \in Row
      <4>1. rows[d[1]] \in Row
        BY <1>a DEF TypeOK
      <4> QED
        BY <4>1 DEF Row, Life
    <3>2. rows' = [rows EXCEPT ![d[1]] =
                       [rows[d[1]] EXCEPT !.status = "deleted", !.life = "compacted"]]
      BY <1>0, <1>a, <2>2 DEF TypeOK
    <3>3. d[1] <= seq /\ seq' = seq /\ seq \in 0..Rows /\ seq <= seq
      <4>1. seq' = seq
        BY DEF CompactRow
      <4> QED
        BY <1>a, <2>2, <4>1, Existing, Counter
    <3>4. \E r \in Row : WritesRow(d[1], r)
      BY <1>a, <3>1, <3>2, RowWritten
    <3> QED
      BY <1>a, <3>3, <3>4, TableKept
  <2> QED
    BY <2>1, <2>2
<1>2. RestType'
  BY Records DEF TypeOK, RestType, CompactRow, store, locals, OneStatement, Ready
<1>3. CallType'
  <2>1. touched' \in [Process -> SUBSET Id]
    BY <1>0, <1>a, Touches
  <2> QED
    BY <1>0, <1>a, <2>1 DEF TypeOK, CallType, CompactRow
<1> QED
  BY <1>1, <1>2, <1>3 DEF TypeOK, TableType, RestType, CallType

LEMMA TypeCompacted ==
    ASSUME TypeOK, NEW p \in Process, Compacted(p) PROVE TypeOK'
<1>1. TableType'
  BY Records DEF TypeOK, TableType, Compacted, store, locals, OneStatement, Ready
<1>2. RestType'
  BY Records DEF TypeOK, RestType, Compacted, store, locals, OneStatement, Ready
<1>3. CallType'
  BY Returns, Records DEF TypeOK, CallType, Compacted, store, locals
<1> QED
  BY <1>1, <1>2, <1>3 DEF TypeOK, TableType, RestType, CallType

LEMMA TypePurge ==
    ASSUME TypeOK, NEW p \in Process, Purge(p) PROVE TypeOK'
<1>0. Ready(p) /\ "purge rows" \in Location /\ NoCall \in Call
  BY Records DEF Purge, Location
<1>1. TableType'
  BY Records DEF TypeOK, TableType, Purge, store, locals, OneStatement, Ready
<1>2. RestType'
  BY <1>0, Begins DEF TypeOK, RestType, Purge, store
<1>3. CallType'
  BY <1>0, Begins DEF TypeOK, CallType, Purge
<1> QED
  BY <1>1, <1>2, <1>3 DEF TypeOK, TableType, RestType, CallType

LEMMA TypePurgeRows ==
    ASSUME TypeOK, NEW p \in Process, PurgeRows(p) PROVE TypeOK'
<1>1. TableType'
  BY Records DEF TypeOK, TableType, PurgeRows, store, locals, OneStatement, Ready
<1>2. RestType'
  BY Records DEF TypeOK, RestType, PurgeRows, store, locals, OneStatement, Ready
<1>3. CallType'
  <2>1. pc' \in [Process -> Location]
    BY Moves DEF PurgeRows, Location
  <2> QED
    BY <2>1, Touches, Records DEF TypeOK, CallType, PurgeRows
<1> QED
  BY <1>1, <1>2, <1>3 DEF TypeOK, TableType, RestType, CallType

LEMMA TypePurgeIndex ==
    ASSUME TypeOK, NEW p \in Process, PurgeIndex(p) PROVE TypeOK'
<1>1. TableType'
  BY Records DEF TypeOK, TableType, PurgeIndex, store, locals, OneStatement, Ready
<1>2. RestType'
  BY Records DEF TypeOK, RestType, PurgeIndex, store, locals, OneStatement, Ready
<1>3. CallType'
  <2>1. pc' \in [Process -> Location]
    BY Moves DEF PurgeIndex, Location
  <2> QED
    BY <2>1, Touches, Records DEF TypeOK, CallType, PurgeIndex
<1> QED
  BY <1>1, <1>2, <1>3 DEF TypeOK, TableType, RestType, CallType

LEMMA TypePurgeRelations ==
    ASSUME TypeOK, NEW p \in Process, PurgeRelations(p) PROVE TypeOK'
<1>1. TableType'
  BY Records DEF TypeOK, TableType, PurgeRelations, store, locals, OneStatement, Ready
<1>2. RestType'
  BY Records DEF TypeOK, RestType, PurgeRelations, store, locals, OneStatement, Ready
<1>3. CallType'
  <2>1. pc' \in [Process -> Location]
    BY Moves DEF PurgeRelations, Location
  <2> QED
    BY <2>1, Touches, Records DEF TypeOK, CallType, PurgeRelations
<1> QED
  BY <1>1, <1>2, <1>3 DEF TypeOK, TableType, RestType, CallType

LEMMA TypePurgeSessions ==
    ASSUME TypeOK, NEW p \in Process, PurgeSessions(p) PROVE TypeOK'
<1>1. TableType'
  BY Records DEF TypeOK, TableType, PurgeSessions, store, locals, OneStatement, Ready
<1>2. RestType'
  BY Records DEF TypeOK, RestType, PurgeSessions, store, locals, OneStatement, Ready
<1>3. CallType'
  BY Returns, Records DEF TypeOK, CallType, PurgeSessions, store, locals
<1> QED
  BY <1>1, <1>2, <1>3 DEF TypeOK, TableType, RestType, CallType

LEMMA TypeSessionStart ==
    ASSUME TypeOK, NEW p \in Process, SessionStart(p) PROVE TypeOK'
<1>1. TableType'
  BY Records DEF TypeOK, TableType, SessionStart, store, locals, OneStatement, Ready
<1>2. RestType'
  BY Records DEF TypeOK, RestType, SessionStart, store, locals, OneStatement, Ready
<1>3. CallType'
  BY Records DEF TypeOK, CallType, SessionStart, store, locals, OneStatement, Ready
<1> QED
  BY <1>1, <1>2, <1>3 DEF TypeOK, TableType, RestType, CallType

LEMMA TypeJudge ==
    ASSUME TypeOK, NEW p \in Process, NEW r \in relations, Judge(p, r) PROVE TypeOK'
<1>1. TableType'
  BY Records DEF TypeOK, TableType, Judge, store, locals, OneStatement, Ready
<1>2. RestType'
  <2>1. [r EXCEPT !.judged = TRUE] \in [source : Nat, target : Id, judged : BOOLEAN]
    BY DEF TypeOK
  <2> QED
    <3>1. relations' \subseteq [source : Nat, target : Id, judged : BOOLEAN]
      BY <2>1 DEF TypeOK, Judge
    <3>2. left' \in 0..Calls
      BY Records DEF TypeOK, Judge, OneStatement, Ready
    <3> QED
      BY <3>1, <3>2 DEF TypeOK, RestType, Judge
<1>3. CallType'
  BY Records DEF TypeOK, CallType, Judge, store, locals, OneStatement, Ready
<1> QED
  BY <1>1, <1>2, <1>3 DEF TypeOK, TableType, RestType, CallType

LEMMA TypeOpen ==
    ASSUME TypeOK, NEW p \in Process, Open(p) PROVE TypeOK'
<1>1. TableType'
  BY Records DEF TypeOK, TableType, Open, store, locals, OneStatement, Ready
<1>2. RestType'
  BY Records DEF TypeOK, RestType, Open, store, locals, OneStatement, Ready
<1>3. CallType'
  BY Records DEF TypeOK, CallType, Open, store, locals, OneStatement, Ready
<1> QED
  BY <1>1, <1>2, <1>3 DEF TypeOK, TableType, RestType, CallType

LEMMA TypeCrash ==
    ASSUME TypeOK, NEW p \in Process, (pc[p] = "written" => target[p] \in Id), Crash(p)
    PROVE  TypeOK'
<1>0. stale' \subseteq Id
  BY DEF TypeOK, Crash
<1>1. TableType'
  BY Records DEF TypeOK, TableType, Crash, store, locals, OneStatement, Ready
<1>2. RestType'
  BY <1>0 DEF TypeOK, RestType, Crash
<1>3. CallType'
  BY Returns, Records DEF TypeOK, CallType, Crash, store, locals
<1> QED
  BY <1>1, <1>2, <1>3 DEF TypeOK, TableType, RestType, CallType

-----------------------------------------------------------------------------
(* What the other processes see of a step of p: their own variables stay,  *)
(* they note the rows that change, a row with an old id comes to life      *)
(* never and gets a new text only if that is noted in stale.               *)
Frame(p) ==
    \A q \in Process : q # p =>
        /\ pc'[q] = pc[q] /\ call'[q] = call[q] /\ found'[q] = found[q]
        /\ new'[q] = new[q] /\ target'[q] = target[q] /\ todo'[q] = todo[q]

Noted(p) ==
    \A q \in Process : q # p =>
        \/ pc[q] = "idle"
        \/ /\ touched[q] \subseteq touched'[q]
           /\ \A i \in Id : rows'[i] = rows[i] \/ i \in touched'[q]

Ages ==
    /\ seq <= seq' /\ stale \subseteq stale'
    /\ \A i \in Id : (i <= seq /\ Live(i)') =>
           Live(i) /\ (rows'[i].text = rows[i].text \/ i \in stale')

(* The posting of a row lasts as long as the row, and p does not forget a  *)
(* row it has still to mirror.                                             *)
Posted(p) ==
    /\ \A i \in Id : (Live(i)' /\ i \notin stale') =>
           /\ \A x \in Text : <<i, x>> \in index => <<i, x>> \in index'
           /\ i > seq => pc'[p] = "written" /\ target'[p] = i
    /\ pc[p] = "written" =>
           \A i \in Id : i = target[p] =>
               \/ pc'[p] = "written" /\ target'[p] = i
               \/ ~Live(i)' \/ i \in stale' \/ <<i, rows'[i].text>> \in index'

LEMMA OthersKeepFacts ==
    ASSUME NEW p \in Process, Frame(p), Noted(p), NEW q \in Process, q # p, TypeOK, Facts(q)
    PROVE  Facts(q)'
<1>1. /\ pc'[q] = pc[q] /\ call'[q] = call[q] /\ found'[q] = found[q]
      /\ new'[q] = new[q] /\ target'[q] = target[q] /\ todo'[q] = todo[q]
  BY DEF Frame
<1>2. CASE pc[q] = "idle"
  BY <1>1, <1>2 DEF Facts
<1>3. CASE pc[q] # "idle"
  <2>1. touched[q] \subseteq touched'[q] /\ \A i \in Id : rows'[i] = rows[i] \/ i \in touched'[q]
    BY <1>3 DEF Noted
  <2>2. \A i \in Id : (i \in touched[q] \/ Live(i)) => (i \in touched'[q] \/ (Live(i)' /\ rows'[i] = rows[i]))
    BY <2>1 DEF Live
  <2>3. (pc[q] = "bump" =>
             /\ call[q].id \in Id
             /\ Still(q, call[q].id, rows[call[q].id].text = call[q].text))'
    BY <1>1, <2>1, <2>2 DEF Facts, Still
  <2>4. (pc[q] \in {"approve", "review", "reject"} =>
             call[q].id \in Id /\ Still(q, call[q].id, TRUE))'
    BY <1>1, <2>1, <2>2 DEF Facts, Still
  <2>5. ((pc[q] = "insert" /\ found[q] # 0) =>
             /\ call[q].topic # None
             /\ Still(q, found[q], rows[found[q]].topic = call[q].topic))'
    BY <1>1, <2>1, <2>2 DEF Facts, Still, TypeOK
  <2>6. (pc[q] \in {"written", "search", "relate"} =>
             /\ target[q] \in Id
             /\ Still(q, target[q], /\ rows[target[q]].text = call[q].text
                                    /\ rows[target[q]].topic = call[q].topic)
             /\ found[q] \in {0, target[q]} \cup touched[q])'
    BY <1>1, <2>1, <2>2 DEF Facts, Still
  <2>8. (pc[q] \in {"idle", "probe"} => found[q] = 0)'
    BY <1>1 DEF Facts
  <2>7. ASSUME pc[q] = "compact", NEW d \in todo[q]
        PROVE  /\ d \in Id \X Id
               /\ Still(q, d[1], ~Protected(d[1]))'
               /\ d[2] \in touched'[q] \/ d[1] \in touched'[q]
                      \/ (Live(d[2])' /\ rows'[d[2]].text = rows'[d[1]].text)
               /\ \A e \in todo[q] : d[1] # e[2] /\ (d[1] = e[1] => d = e)
    <3>1. /\ d \in Id \X Id /\ d[1] \in Id /\ d[2] \in Id
          /\ d[1] \in touched[q] \/ (Live(d[1]) /\ ~Protected(d[1]))
          /\ d[2] \in touched[q] \/ d[1] \in touched[q]
                 \/ (Live(d[2]) /\ rows[d[2]].text = rows[d[1]].text)
          /\ \A e \in todo[q] : d[1] # e[2] /\ (d[1] = e[1] => d = e)
      BY <2>7 DEF Facts, Still
    <3>2. d[1] \in touched'[q] \/ (Live(d[1])' /\ ~Protected(d[1])')
      BY <3>1, <2>1, <2>2 DEF Protected
    <3>3. d[2] \in touched'[q] \/ d[1] \in touched'[q]
              \/ (Live(d[2])' /\ rows'[d[2]].text = rows'[d[1]].text)
      BY <3>1, <2>1, <2>2
    <3> QED
      BY <1>1, <3>1, <3>2, <3>3 DEF Still
  <2>9. (pc[q] = "compact" =>
             \A d \in todo[q] :
                 /\ d \in Id \X Id
                 /\ Still(q, d[1], ~Protected(d[1]))
                 /\ d[2] \in touched[q] \/ d[1] \in touched[q]
                        \/ (Live(d[2]) /\ rows[d[2]].text = rows[d[1]].text)
                 /\ \A e \in todo[q] : d[1] # e[2] /\ (d[1] = e[1] => d = e))'
    BY <1>1, <2>7
  <2> QED
    BY <2>3, <2>4, <2>5, <2>6, <2>8, <2>9 DEF Facts
<1> QED
  BY <1>2, <1>3

LEMMA OthersAwait ==
    ASSUME NEW p \in Process, Frame(p), Ages, NEW q \in Process, q # p, TypeOK, TypeOK', Awaited(q)
    PROVE  Awaited(q)'
<1>1. /\ pc'[q] = pc[q] /\ call'[q] = call[q] /\ new'[q] = new[q] /\ target'[q] = target[q]
  BY DEF Frame
<1>2. ASSUME pc[q] = "written"
      PROVE  /\ target[q] \in Id /\ target[q] <= seq'
             /\ target[q] \in stale' \/ ~(rows'[target[q]].status = "live")
                    \/ (new[q] = target[q] /\ rows'[target[q]].text = call[q].text)
  <2> DEFINE i == target[q]
  <2>1. /\ i \in Id /\ i <= seq
        /\ i \in stale \/ ~Live(i) \/ (new[q] = i /\ rows[i].text = call[q].text)
    BY <1>2 DEF Awaited
  <2>2. i <= seq'
    BY <2>1, Records DEF Ages, TypeOK
  <2>3. i \in stale' \/ ~(rows'[i].status = "live") \/ (Live(i) /\ i \notin stale /\ rows'[i].text = rows[i].text)
    <3>1. i \in stale => i \in stale'
      BY DEF Ages
    <3>2. rows'[i].status = "live" => Live(i) /\ (rows'[i].text = rows[i].text \/ i \in stale')
      BY <2>1 DEF Ages, Live
    <3> QED
      BY <3>1, <3>2
  <2> QED
    BY <2>1, <2>2, <2>3
<1> QED
  BY <1>1, <1>2 DEF Awaited, Live

LEMMA StillFindable ==
    ASSUME NEW p \in Process, Frame(p), Ages, Posted(p), TypeOK, TypeOK', Findable
    PROVE  Findable'
<1> SUFFICES ASSUME NEW i \in Id, Live(i)', i \notin stale'
             PROVE  \/ <<i, rows'[i].text>> \in index'
                    \/ \E q \in Process : pc'[q] = "written" /\ target'[q] = i
  BY DEF Findable
<1>1. CASE i > seq
  BY <1>1 DEF Posted
<1>2. CASE i <= seq
  <2>1. Live(i) /\ rows'[i].text = rows[i].text /\ i \notin stale /\ rows[i].text \in Text
    BY <1>2, Existing DEF Ages
  <2>2. CASE <<i, rows[i].text>> \in index
    BY <2>1, <2>2 DEF Posted
  <2>3. CASE \E q \in Process : pc[q] = "written" /\ target[q] = i
    <3>1. PICK q \in Process : pc[q] = "written" /\ target[q] = i
      BY <2>3
    <3>2. CASE q = p
      <4>1. pc[p] = "written" /\ target[p] = i
        BY <3>1, <3>2
      <4>2. \/ pc'[p] = "written" /\ target'[p] = i
            \/ ~Live(i)' \/ i \in stale' \/ <<i, rows'[i].text>> \in index'
        BY <4>1 DEF Posted, Live
      <4> QED
        BY <4>2 DEF Live
    <3>3. CASE q # p
      BY <3>1, <3>3 DEF Frame
    <3> QED
      BY <3>2, <3>3
  <2> QED
    BY <2>1, <2>2, <2>3 DEF Findable
<1> QED
  BY <1>1, <1>2, Records DEF TypeOK

LEMMA Combine ==
    ASSUME Inv, NEW p \in Process, TypeOK', Frame(p), Noted(p), Ages, Posted(p),
           OneRowPerTopic', Facts(p)', Awaited(p)'
    PROVE  Inv'
<1>1. ASSUME NEW q \in Process
      PROVE  Facts(q)' /\ Awaited(q)'
  <2>1. CASE q = p
    BY <2>1
  <2>2. CASE q # p
    BY <2>2, OthersKeepFacts, OthersAwait DEF Inv
  <2> QED
    BY <2>1, <2>2
<1> QED
  BY <1>1, StillFindable DEF Inv

(* Steps that change neither rows nor postings.                            *)
LEMMA QuietStep ==
    ASSUME Inv, NEW p \in Process, TypeOK', Frame(p),
           rows' = rows, seq' = seq, index' = index, stale' = stale, pc[p] # "written",
           \A q \in Process : q # p => touched'[q] = touched[q],
           Facts(p)', Awaited(p)'
    PROVE  Inv' /\ Ages
<1>1. Noted(p) /\ Ages /\ OneRowPerTopic'
  BY Records DEF Noted, Ages, Inv, OneRowPerTopic, Live, TypeOK
<1>2. Posted(p)
  BY Existing, Records DEF Posted, Inv, TypeOK, Live
<1> QED
  BY <1>1, <1>2, Combine

-----------------------------------------------------------------------------
(* The steps one by one: saving.                                           *)
LEMMA SaveStep ==
    ASSUME Inv, NEW p \in Process, NEW x \in Text, NEW t \in Topic \cup {None},
           NEW life \in {"active", "proposed"}, Save(p, x, t, life)
    PROVE  Inv' /\ Ages
<1>1. TypeOK'
  BY TypeSave DEF Inv
<1>2. /\ rows' = rows /\ seq' = seq /\ index' = index /\ stale' = stale /\ touched' = touched
      /\ found' = found /\ new' = new /\ target' = target /\ todo' = todo
      /\ pc[p] = "idle"
  BY DEF Save, Ready, store
<1>3. CASE Holding(x) # {}
  <2>1. PICK i \in Holding(x) : Begin(p, "bump", [text |-> x, topic |-> t, life |-> life, id |-> i])
    BY <1>3 DEF Save
  <2>2. i \in Id /\ Live(i) /\ rows[i].text = x
    BY DEF Holding
  <2>3. pc'[p] = "bump" /\ call'[p].id = i /\ call'[p].text = x /\ Frame(p)
    BY <2>1, <1>2 DEF Begin, Frame, Inv, TypeOK
  <2>4. Facts(p)' /\ Awaited(p)'
    BY <1>2, <2>2, <2>3 DEF Facts, Awaited, Still, Live, Inv
  <2> QED
    BY <1>1, <1>2, <2>3, <2>4, QuietStep
<1>4. CASE Holding(x) = {}
  <2>1. PICK c \in Call : Begin(p, IF t = None THEN "insert" ELSE "probe", c)
    <3>1. [text |-> x, topic |-> t, life |-> life, id |-> 0] \in Call
      BY CallFacts DEF Life
    <3> QED
      BY <1>4, <3>1 DEF Save
  <2>2. pc'[p] \in {"insert", "probe"} /\ Frame(p)
    BY <2>1, <1>2 DEF Begin, Frame, Inv, TypeOK
  <2>3. Facts(p)' /\ Awaited(p)'
    BY <1>2, <2>2 DEF Facts, Awaited, Inv
  <2> QED
    BY <1>1, <1>2, <2>2, <2>3, QuietStep
<1> QED
  BY <1>3, <1>4

(* A call that ends knows nothing any more.                                *)
LEMMA ReturnStep ==
    ASSUME Inv, NEW p \in Process, TypeOK', Return(p), pc[p] # "written",
           rows' = rows, seq' = seq, index' = index, stale' = stale,
           \A q \in Process : q # p => touched'[q] = touched[q]
    PROVE  Inv' /\ Ages
<1>1. Frame(p) /\ pc'[p] = "idle" /\ found'[p] = 0
  BY DEF Return, Goto, Frame, Inv, TypeOK
<1>2. Facts(p)' /\ Awaited(p)'
  BY <1>1 DEF Facts, Awaited
<1> QED
  BY <1>1, <1>2, QuietStep

LEMMA BumpStep == ASSUME Inv, NEW p \in Process, Bump(p) PROVE Inv' /\ Ages
<1>1. \A q \in Process : q # p => touched'[q] = touched[q]
  BY DEF Bump, Inv, TypeOK
<1> QED
  BY <1>1, TypeBump, ReturnStep DEF Inv, Bump, store

LEMMA SavedStep == ASSUME Inv, NEW p \in Process, Saved(p) PROVE Inv' /\ Ages
<1>1. \A q \in Process : q # p => touched'[q] = touched[q]
  BY DEF Saved, Inv, TypeOK
<1> QED
  BY <1>1, TypeSaved, ReturnStep DEF Inv, Saved, store

LEMMA CompactedStep == ASSUME Inv, NEW p \in Process, Compacted(p) PROVE Inv' /\ Ages
<1>1. \A q \in Process : q # p => touched'[q] = touched[q]
  BY DEF Compacted, Inv, TypeOK
<1> QED
  BY <1>1, TypeCompacted, ReturnStep DEF Inv, Compacted, store

LEMMA PurgeSessionsStep == ASSUME Inv, NEW p \in Process, PurgeSessions(p) PROVE Inv' /\ Ages
<1>1. \A q \in Process : q # p => touched'[q] = touched[q]
  BY DEF PurgeSessions, Inv, TypeOK
<1> QED
  BY <1>1, TypePurgeSessions, ReturnStep DEF Inv, PurgeSessions

LEMMA ProbeStep == ASSUME Inv, NEW p \in Process, Probe(p) PROVE Inv' /\ Ages
<1>1. /\ rows' = rows /\ seq' = seq /\ index' = index /\ stale' = stale /\ touched' = touched
      /\ call' = call /\ pc[p] = "probe" /\ pc'[p] = "insert" /\ Frame(p)
  BY DEF Probe, Goto, Frame, store, Inv, TypeOK
<1>2. \/ found'[p] = 0
      \/ \E i \in OnTopic(call[p].topic) : found'[p] = i
  <2>1. found[p] = 0
    BY <1>1 DEF Inv, Facts
  <2>2. \/ found' = found
        \/ \E i \in OnTopic(call[p].topic) : found' = [found EXCEPT ![p] = i]
    BY DEF Probe
  <2>3. found \in [Process -> Id \cup {0}]
    BY DEF Inv, TypeOK
  <2> QED
    BY <2>1, <2>2, <2>3
<1>3. Facts(p)' /\ Awaited(p)'
  BY <1>1, <1>2 DEF Facts, Awaited, Still, OnTopic, Live
<1> QED
  BY <1>1, <1>3, TypeProbe, QuietStep DEF Inv

(* An upsert writes a row, fresh or on its topic.                          *)
LEMMA InsertFreshStep == ASSUME Inv, NEW p \in Process, InsertFresh(p) PROVE Inv' /\ Ages
<1> DEFINE n == seq + 1
           r == Written(call[p])
<1>1. /\ n \in Id /\ n \in Nat /\ seq \in Nat /\ seq < n /\ call[p] \in Call
      /\ r \in Row /\ r.status = "live" /\ r.text = call[p].text /\ r.topic = call[p].topic
  <2>1. seq \in Nat /\ seq < Rows /\ call[p] \in Call
    BY Records DEF InsertFresh, Inv, TypeOK
  <2>2. n \in Id /\ n \in Nat /\ seq < n
    BY <2>1, Records
  <2> QED
    BY <2>1, <2>2, RowFacts
<1>2. /\ WritesRow(n, r) /\ seq' = n /\ index' = index /\ stale' = stale
      /\ pc[p] = "insert" /\ pc'[p] = "written" /\ new'[p] = n /\ target'[p] = n
      /\ call' = call /\ found' = found /\ Frame(p) /\ Touch(p, {n})
      /\ OnTopic(call[p].topic) = {}
  BY <1>1, RowWritten DEF InsertFresh, Goto, Frame, Inv, TypeOK
<1> HIDE DEF n, r
<1>3. TypeOK'
  BY TypeInsertFresh DEF Inv
<1>4. Ages /\ Posted(p)
  <2>1. \A i \in Id : i # n => rows'[i] = rows[i]
    BY <1>2 DEF WritesRow
  <2>2. \A i \in Id : i <= seq => i # n
    BY <1>1, Records
  <2>3. \A i \in Id : i > seq /\ i # n => ~Live(i)
    BY DEF Inv, TypeOK, Live
  <2>4. Ages
    BY <1>1, <1>2, <2>1, <2>2 DEF Ages, Live
  <2> QED
    BY <1>2, <2>1, <2>3, <2>4 DEF Posted, Live
<1>5. Noted(p)
  BY <1>1, <1>2, Touches DEF Noted, WritesRow, Inv
<1>6. OneRowPerTopic'
  <2>1. \A j \in Id : (Live(j) /\ call[p].topic # None) => rows[j].topic # call[p].topic
    BY <1>2 DEF OnTopic
  <2>2. rows'[n] = r /\ \A j \in Id : j # n => rows'[j] = rows[j]
    BY <1>2 DEF WritesRow
  <2> QED
    BY <1>1, <2>1, <2>2 DEF OneRowPerTopic, Live, Inv
<1>7. Facts(p)' /\ Awaited(p)'
  <2>1. touched'[p] = touched[p]
    BY <1>1, <1>2, Touches DEF Inv
  <2>2. found[p] = 0 \/ found[p] \in touched[p]
    BY <1>2 DEF Facts, Still, OnTopic, Inv, TypeOK
  <2>3. rows'[n] = r /\ n <= seq'
    BY <1>1, <1>2 DEF WritesRow
  <2> QED
    BY <1>1, <1>2, <2>1, <2>2, <2>3 DEF Facts, Awaited, Still, Live
<1> QED
  BY <1>2, <1>3, <1>4, <1>5, <1>6, <1>7, Combine

LEMMA InsertUpdatesStep == ASSUME Inv, NEW p \in Process, InsertUpdates(p) PROVE Inv' /\ Ages
<1>0. PICK i \in OnTopic(call[p].topic) :
          /\ rows' = [rows EXCEPT ![i] = Written(call[p])]
          /\ target' = [target EXCEPT ![p] = i]
          /\ stale' = stale \cup {i}
          /\ Touch(p, {i})
  BY DEF InsertUpdates
<1> DEFINE r == Written(call[p])
<1>1. /\ i \in Id /\ Live(i) /\ rows[i].topic = call[p].topic /\ call[p].topic # None
      /\ call[p] \in Call
      /\ r \in Row /\ r.status = "live" /\ r.text = call[p].text /\ r.topic = call[p].topic
  BY RowFacts DEF Inv, TypeOK, OnTopic
<1>2. /\ WritesRow(i, r) /\ seq' = seq + 1 /\ index' = index /\ stale' = stale \cup {i}
      /\ pc[p] = "insert" /\ pc'[p] = "written" /\ target'[p] = i
      /\ call' = call /\ found' = found /\ Frame(p) /\ Touch(p, {i})
  BY <1>0, <1>1, RowWritten DEF InsertUpdates, Goto, Frame, Inv, TypeOK
<1> HIDE DEF r
<1>3. TypeOK'
  BY TypeInsertUpdates DEF Inv
<1>4. Ages /\ Posted(p)
  <2>1. \A j \in Id : j # i => rows'[j] = rows[j]
    BY <1>2 DEF WritesRow
  <2>2. \A j \in Id : j > seq => ~Live(j)
    BY DEF Inv, TypeOK, Live
  <2>3. seq \in Nat
    BY Records DEF Inv, TypeOK
  <2>4. Ages
    BY <1>1, <1>2, <2>1, <2>3 DEF Ages, Live
  <2> QED
    BY <1>1, <1>2, <2>1, <2>2, <2>4 DEF Posted, Live
<1>5. Noted(p)
  BY <1>1, <1>2, Touches DEF Noted, WritesRow, Inv
<1>6. OneRowPerTopic'
  BY <1>1, <1>2 DEF OneRowPerTopic, WritesRow, Live, Inv
<1>7. Facts(p)' /\ Awaited(p)'
  <2>1. touched'[p] = touched[p]
    BY <1>1, <1>2, Touches DEF Inv
  <2>2. found[p] \in {0, i} \cup touched[p]
    BY <1>1, <1>2 DEF Facts, Still, OneRowPerTopic, Inv, TypeOK
  <2>3. rows'[i] = r /\ i <= seq' /\ i \in stale'
    <3>1. rows'[i] = r /\ i \in stale'
      BY <1>2 DEF WritesRow
    <3>2. i \in Nat /\ i <= seq /\ seq \in Nat
      BY <1>1, Existing, Counter DEF Inv
    <3>3. i <= seq'
      BY <1>2, <3>2
    <3> QED
      BY <3>1, <3>3
  <2> QED
    BY <1>1, <1>2, <2>1, <2>2, <2>3 DEF Facts, Awaited, Still, Live
<1> QED
  BY <1>2, <1>3, <1>4, <1>5, <1>6, <1>7, Combine

LEMMA MirrorStep == ASSUME Inv, NEW p \in Process, Mirror(p) PROVE Inv' /\ Ages
<1>1. /\ rows' = rows /\ seq' = seq /\ stale' = stale /\ touched' = touched /\ call' = call
      /\ target' = target /\ found' = found
      /\ index' = index \cup {<<new[p], call[p].text>>}
      /\ pc[p] = "written" /\ pc'[p] = "search" /\ Frame(p)
  BY DEF Mirror, Goto, Frame, Inv, TypeOK
<1>2. TypeOK'
  BY TypeMirror DEF Inv
<1>3. Noted(p) /\ Ages /\ OneRowPerTopic'
  BY <1>1, Records DEF Noted, Ages, Inv, OneRowPerTopic, Live, TypeOK
<1>4. Posted(p)
  <2>1. \A i \in Id : i > seq => ~Live(i)'
    BY <1>1 DEF Inv, TypeOK, Live
  <2>2. \A i \in Id : i = target[p] =>
            ~Live(i)' \/ i \in stale' \/ <<i, rows'[i].text>> \in index'
    BY <1>1 DEF Awaited, Inv, Live
  <2> QED
    BY <1>1, <2>1, <2>2 DEF Posted
<1>5. Facts(p)' /\ Awaited(p)'
  BY <1>1 DEF Facts, Awaited, Still, Live, Inv
<1> QED
  BY <1>1, <1>2, <1>3, <1>4, <1>5, Combine

(* Without a lastrowid nothing is mirrored: the row was updated in place.  *)
LEMMA ReadBackStep == ASSUME Inv, NEW p \in Process, ReadBack(p) PROVE Inv' /\ Ages
<1>1. /\ rows' = rows /\ seq' = seq /\ index' = index /\ stale' = stale
      /\ pc[p] = "written" /\ new[p] = 0
  BY DEF ReadBack, store
<1>2. TypeOK'
  BY TypeReadBack DEF Inv
<1>3. Ages /\ OneRowPerTopic'
  BY <1>1, Records DEF Ages, Inv, OneRowPerTopic, Live, TypeOK
<1>4. Posted(p)
  <2>1. \A i \in Id : i > seq => ~Live(i)'
    BY <1>1 DEF Inv, TypeOK, Live
  <2>2. \A i \in Id : i = target[p] => ~Live(i)' \/ i \in stale'
    BY <1>1, Records DEF Awaited, Inv, Live
  <2> QED
    BY <1>1, <2>1, <2>2 DEF Posted
<1>5. CASE Return(p) /\ touched' = [touched EXCEPT ![p] = {}]
  <2>1. Frame(p) /\ pc'[p] = "idle" /\ found'[p] = 0
    BY <1>5 DEF Return, Goto, Frame, Inv, TypeOK
  <2>2. Facts(p)' /\ Awaited(p)'
    BY <2>1 DEF Facts, Awaited
  <2>3. Noted(p)
    BY <1>1, <1>5 DEF Noted, Inv, TypeOK
  <2> QED
    BY <1>2, <1>3, <1>4, <2>1, <2>2, <2>3, Combine
<1>6. CASE /\ Goto(p, "search") /\ UNCHANGED <<call, found, target, todo, touched>>
           /\ \E i \in OnTopic(call[p].topic) : new' = [new EXCEPT ![p] = i]
  <2>1. Frame(p) /\ pc'[p] = "search" /\ touched' = touched
    BY <1>6 DEF Goto, Frame, Inv, TypeOK
  <2>2. Facts(p)' /\ Awaited(p)'
    BY <1>1, <1>6, <2>1 DEF Facts, Awaited, Still, Live, Inv
  <2>3. Noted(p)
    BY <1>1, <2>1 DEF Noted
  <2> QED
    BY <1>2, <1>3, <1>4, <2>1, <2>2, <2>3, Combine
<1> QED
  BY <1>5, <1>6 DEF ReadBack

LEMMA SearchStep == ASSUME Inv, NEW p \in Process, Search(p) PROVE Inv' /\ Ages
<1>1. /\ rows' = rows /\ seq' = seq /\ index' = index /\ stale' = stale /\ touched' = touched
      /\ call' = call /\ target' = target /\ found' = found
      /\ pc[p] = "search" /\ pc'[p] = "relate" /\ Frame(p)
  BY DEF Search, Goto, Frame, store, Inv, TypeOK
<1>2. Facts(p)' /\ Awaited(p)'
  BY <1>1 DEF Facts, Awaited, Still, Live, Inv
<1> QED
  BY <1>1, <1>2, TypeSearch, QuietStep DEF Inv

LEMMA RelateStep == ASSUME Inv, NEW p \in Process, Relate(p) PROVE Inv' /\ Ages
<1>1. /\ rows' = rows /\ seq' = seq /\ index' = index /\ stale' = stale /\ touched' = touched
      /\ call' = call /\ target' = target /\ found' = found /\ pc' = pc
      /\ pc[p] = "relate" /\ Frame(p)
  BY DEF Relate, Frame, Inv, TypeOK
<1>2. Facts(p)' /\ Awaited(p)'
  BY <1>1 DEF Facts, Awaited, Still, Live, Inv
<1> QED
  BY <1>1, <1>2, TypeRelate, QuietStep DEF Inv

-----------------------------------------------------------------------------
(* Steps that write one row that is there already and keep its text, or    *)
(* note that they do not.                                                  *)
LEMMA RowStep ==
    ASSUME Inv, NEW p \in Process, TypeOK', Frame(p), NEW i \in Id, NEW r,
           WritesRow(i, r), i <= seq, seq' = seq, index' = index,
           stale' \in {stale, stale \cup {i}}, pc[p] # "written",
           r.status = "live" => /\ Live(i) /\ (r.text = rows[i].text \/ i \in stale')
                                /\ r.topic = rows[i].topic \/ OnTopic(r.topic) = {},
           \A q \in Process : q # p =>
               pc[q] = "idle" \/ (touched[q] \subseteq touched'[q] /\ i \in touched'[q]),
           Facts(p)', Awaited(p)'
    PROVE  Inv' /\ Ages
<1>1. rows'[i] = r /\ \A j \in Id : j # i => rows'[j] = rows[j]
  BY DEF WritesRow
<1>2. Ages
  <2>1. seq <= seq'
    BY Records DEF Inv, TypeOK
  <2>2. stale \subseteq stale'
    OBVIOUS
  <2> QED
    BY <1>1, <2>1, <2>2 DEF Ages, Live
<1>3. Posted(p)
  BY <1>1, Existing, Records DEF Posted, Live, Inv, TypeOK
<1>4. Noted(p)
  BY <1>1 DEF Noted
<1>5. OneRowPerTopic'
  BY <1>1 DEF OneRowPerTopic, OnTopic, Live, Inv
<1> QED
  BY <1>2, <1>3, <1>4, <1>5, Combine

LEMMA LookStep ==
    ASSUME Inv, NEW p \in Process, NEW i \in Id, NEW what \in {"approve", "review", "reject"},
           Look(p, i, what)
    PROVE  Inv' /\ Ages
<1>1. /\ rows' = rows /\ seq' = seq /\ index' = index /\ stale' = stale /\ touched' = touched
      /\ found' = found /\ pc[p] = "idle" /\ pc'[p] = what /\ call'[p].id = i /\ Live(i)
      /\ Frame(p)
  BY CallFacts DEF Look, Begin, Ready, Frame, store, Inv, TypeOK
<1>2. Facts(p)' /\ Awaited(p)'
  BY <1>1 DEF Facts, Awaited, Still, Live
<1> QED
  BY <1>1, <1>2, TypeLook, QuietStep DEF Inv

LEMMA DecideStep == ASSUME Inv, NEW p \in Process, Decide(p) PROVE Inv' /\ Ages
<1> DEFINE i == call[p].id
           r == IF pc[p] = "reject"
                THEN [rows[i] EXCEPT !.life = "rejected", !.status = "deleted"]
                ELSE [rows[i] EXCEPT !.life = "active"]
<1>1. i \in Id /\ pc[p] # "written"
  BY DEF Decide, Facts, Inv
<1>2. TypeOK'
  BY <1>1, TypeDecide DEF Inv
<1>3. /\ Frame(p) /\ pc'[p] = "idle" /\ found'[p] = 0
      /\ seq' = seq /\ index' = index /\ stale' = stale
      /\ \A q \in Process : q # p =>
             pc[q] = "idle" \/ (touched[q] \subseteq touched'[q] /\ i \in touched'[q])
  BY DEF Decide, Return, Goto, Frame, Inv, TypeOK
<1>4. Facts(p)' /\ Awaited(p)'
  BY <1>3 DEF Facts, Awaited
<1>5. r \in Row /\ r.status \in {rows[i].status, "deleted"} /\ r.topic = rows[i].topic
      /\ r.text = rows[i].text
  <2>1. rows[i] \in Row
    BY <1>1 DEF Inv, TypeOK
  <2>2. CASE pc[p] = "reject"
    BY <2>1, <2>2 DEF Row, Life
  <2>3. CASE pc[p] # "reject"
    BY <2>1, <2>3 DEF Row, Life
  <2> QED
    BY <2>2, <2>3
<1>6. CASE rows[i].status = "absent"
  <2>1. rows' = rows
    BY <1>6 DEF Decide
  <2>2. Noted(p) /\ Ages /\ OneRowPerTopic'
    BY <1>3, <2>1, Records DEF Noted, Ages, Inv, OneRowPerTopic, Live, TypeOK
  <2>3. Posted(p)
    BY <1>1, <1>3, <2>1, Existing, Records DEF Posted, Inv, TypeOK, Live
  <2> QED
    BY <1>2, <1>3, <1>4, <2>2, <2>3, Combine
<1>7. CASE rows[i].status # "absent"
  <2>1. rows' = [rows EXCEPT ![i] = r]
    BY <1>7 DEF Decide
  <2>2. WritesRow(i, r) /\ i <= seq
    BY <1>1, <1>5, <1>7, <2>1, RowWritten, Existing DEF Inv
  <2>3. r.status = "live" => Live(i)
    BY <1>5 DEF Live
  <2> HIDE DEF r, i
  <2> QED
    BY <1>1, <1>2, <1>3, <1>4, <1>5, <2>2, <2>3, RowStep
<1> QED
  BY <1>6, <1>7

(* A call of one statement leaves its process idle.                        *)
LEMMA IdleStep ==
    ASSUME Inv, NEW p \in Process, OneStatement(p)
    PROVE  Frame(p) /\ Facts(p)' /\ Awaited(p)' /\ pc[p] = "idle"
BY DEF OneStatement, Ready, Frame, Facts, Awaited, Inv

LEMMA DeleteStep ==
    ASSUME Inv, NEW p \in Process, NEW i \in Id, NEW hard \in BOOLEAN, Delete(p, i, hard)
    PROVE  Inv' /\ Ages
<1>1. PICK r \in Row : r.status # "live" /\ rows' = [rows EXCEPT ![i] = r]
  <2>1. NoRow \in Row /\ NoRow.status # "live"
    BY Records
  <2>2. /\ [rows[i] EXCEPT !.status = "deleted"] \in Row
        /\ [rows[i] EXCEPT !.status = "deleted"].status # "live"
    <3>1. rows[i] \in Row
      BY DEF Inv, TypeOK
    <3> QED
      BY <3>1 DEF Row
  <2>3. rows' = [rows EXCEPT ![i] = IF hard THEN NoRow ELSE [rows[i] EXCEPT !.status = "deleted"]]
    BY DEF Delete, Inv, TypeOK
  <2> QED
    BY <2>1, <2>2, <2>3
<1>2. WritesRow(i, r) /\ i <= seq
  BY <1>1, RowWritten, Existing DEF Inv, Delete, Live
<1>3. Frame(p) /\ Facts(p)' /\ Awaited(p)' /\ pc[p] # "written"
  BY IdleStep DEF Delete
<1>4. \A q \in Process : q # p =>
          pc[q] = "idle" \/ (touched[q] \subseteq touched'[q] /\ i \in touched'[q])
  BY Touches DEF Delete, Inv
<1>5. seq' = seq /\ index' = index /\ stale' = stale /\ TypeOK'
  BY TypeDelete DEF Delete, Inv
<1> QED
  BY <1>1, <1>2, <1>3, <1>4, <1>5, RowStep

LEMMA ReviseStep ==
    ASSUME Inv, NEW p \in Process, NEW i \in Id, NEW x \in Text, Revise(p, i, x)
    PROVE  Inv' /\ Ages
<1> DEFINE r == [rows[i] EXCEPT !.text = x]
<1>1. /\ r \in Row /\ r.status = rows[i].status /\ r.topic = rows[i].topic
      /\ Live(i) /\ rows' = [rows EXCEPT ![i] = r]
  <2>1. rows[i] \in Row /\ rows \in [Id -> Row]
    BY DEF Inv, TypeOK
  <2>2. r \in Row /\ r.status = rows[i].status
    BY <2>1 DEF Row
  <2>3. r.topic = rows[i].topic
    BY <2>1 DEF Row
  <2>4. rows' = [rows EXCEPT ![i] = r] /\ Live(i)
    BY <2>1 DEF Revise
  <2> HIDE DEF r
  <2> QED
    BY <2>2, <2>3, <2>4
<1> HIDE DEF r
<1>2. WritesRow(i, r) /\ i <= seq
  BY <1>1, RowWritten, Existing DEF Inv
<1>3. Frame(p) /\ Facts(p)' /\ Awaited(p)' /\ pc[p] # "written"
  BY IdleStep DEF Revise
<1>4. \A q \in Process : q # p =>
          pc[q] = "idle" \/ (touched[q] \subseteq touched'[q] /\ i \in touched'[q])
  BY Touches DEF Revise, Inv
<1>5. seq' = seq /\ index' = index /\ stale' = stale \cup {i} /\ TypeOK'
  BY TypeRevise DEF Revise, Inv
<1> QED
  BY <1>1, <1>2, <1>3, <1>4, <1>5, RowStep

LEMMA RetopicStep ==
    ASSUME Inv, NEW p \in Process, NEW i \in Id, NEW t \in Topic, Retopic(p, i, t)
    PROVE  Inv' /\ Ages
<1> DEFINE r == [rows[i] EXCEPT !.topic = t]
<1>1. /\ r \in Row /\ r.status = rows[i].status /\ r.text = rows[i].text
      /\ OnTopic(r.topic) = {} /\ Live(i) /\ rows' = [rows EXCEPT ![i] = r]
  <2>1. rows[i] \in Row /\ rows \in [Id -> Row]
    BY DEF Inv, TypeOK
  <2>2. r \in Row /\ r.status = rows[i].status
    BY <2>1 DEF Row
  <2>3. r.text = rows[i].text /\ r.topic = t
    BY <2>1 DEF Row
  <2>4. rows' = [rows EXCEPT ![i] = r] /\ Live(i)
    BY <2>1 DEF Retopic
  <2>5. OnTopic(t) = {}
    BY DEF Retopic
  <2> HIDE DEF r
  <2> QED
    BY <2>2, <2>3, <2>4, <2>5
<1> HIDE DEF r
<1>2. WritesRow(i, r) /\ i <= seq
  BY <1>1, RowWritten, Existing DEF Inv
<1>3. Frame(p) /\ Facts(p)' /\ Awaited(p)' /\ pc[p] # "written"
  BY IdleStep DEF Retopic
<1>4. \A q \in Process : q # p =>
          pc[q] = "idle" \/ (touched[q] \subseteq touched'[q] /\ i \in touched'[q])
  BY Touches DEF Retopic, Inv
<1>5. seq' = seq /\ index' = index /\ stale' = stale /\ TypeOK'
  BY TypeRetopic DEF Retopic, Inv
<1> QED
  BY <1>1, <1>2, <1>3, <1>4, <1>5, RowStep

LEMMA PinStep ==
    ASSUME Inv, NEW p \in Process, NEW i \in Id, NEW b \in BOOLEAN, Pin(p, i, b)
    PROVE  Inv' /\ Ages
<1> DEFINE r == [rows[i] EXCEPT !.pinned = b]
<1>1. /\ r \in Row /\ r.status = rows[i].status /\ r.text = rows[i].text
      /\ r.topic = rows[i].topic /\ Live(i) /\ rows' = [rows EXCEPT ![i] = r]
  <2>1. rows[i] \in Row /\ rows \in [Id -> Row]
    BY DEF Inv, TypeOK
  <2>2. r \in Row /\ r.status = rows[i].status
    BY <2>1 DEF Row
  <2>3. r.text = rows[i].text /\ r.topic = rows[i].topic
    BY <2>1 DEF Row
  <2>4. rows' = [rows EXCEPT ![i] = r] /\ Live(i)
    BY <2>1 DEF Pin
  <2> HIDE DEF r
  <2> QED
    BY <2>2, <2>3, <2>4
<1> HIDE DEF r
<1>2. WritesRow(i, r) /\ i <= seq
  BY <1>1, RowWritten, Existing DEF Inv
<1>3. Frame(p) /\ Facts(p)' /\ Awaited(p)' /\ pc[p] # "written"
  BY IdleStep DEF Pin
<1>4. \A q \in Process : q # p =>
          pc[q] = "idle" \/ (touched[q] \subseteq touched'[q] /\ i \in touched'[q])
  BY Touches DEF Pin, Inv
<1>5. seq' = seq /\ index' = index /\ stale' = stale /\ TypeOK'
  BY TypePin DEF Pin, Inv
<1> QED
  BY <1>1, <1>2, <1>3, <1>4, <1>5, RowStep

-----------------------------------------------------------------------------
(* What compaction decides when it has read the rows.                      *)
LEMMA CompactStep == ASSUME Inv, NEW p \in Process, Compact(p) PROVE Inv' /\ Ages
<1>1. /\ rows' = rows /\ seq' = seq /\ index' = index /\ stale' = stale /\ touched' = touched
      /\ found' = found /\ new' = new /\ target' = target
      /\ todo' = [todo EXCEPT ![p] = Duplicates]
      /\ pc[p] = "idle" /\ pc'[p] = "compact" /\ Frame(p)
  BY Records DEF Compact, Begin, Ready, Frame, store, Inv, TypeOK
<1>2. todo'[p] = Duplicates
  BY <1>1 DEF Inv, TypeOK
<1>3. ASSUME NEW d \in Duplicates
      PROVE  /\ d \in Id \X Id /\ Live(d[1]) /\ ~Protected(d[1])
             /\ Live(d[2]) /\ rows[d[2]].text = rows[d[1]].text
             /\ \A e \in Duplicates : d[1] # e[2] /\ (d[1] = e[1] => d = e)
  <2>1. /\ d \in Id \X Id /\ d[1] \in Id /\ d[2] \in Id /\ Live(d[1]) /\ ~Protected(d[1])
        /\ d[2] < d[1] /\ Live(d[2]) /\ rows[d[2]].text = rows[d[1]].text
        /\ \A j \in Holding(rows[d[1]].text) : d[2] <= j
    BY DEF Duplicates, Holding
  <2>2. ASSUME NEW e \in Duplicates
        PROVE  d[1] # e[2] /\ (d[1] = e[1] => d = e)
    <3>1. /\ e \in Id \X Id /\ e[1] \in Id /\ e[2] \in Id
          /\ e[2] < e[1] /\ Live(e[2]) /\ rows[e[2]].text = rows[e[1]].text
          /\ \A j \in Holding(rows[e[1]].text) : e[2] <= j
      BY DEF Duplicates, Holding
    <3>2. d[1] # e[2]
      <4> SUFFICES ASSUME d[1] = e[2] PROVE FALSE
        OBVIOUS
      <4>1. d[2] \in Holding(rows[e[1]].text)
        BY <2>1, <3>1 DEF Holding
      <4>2. e[2] <= d[2] /\ d[2] < e[2]
        BY <2>1, <3>1, <4>1
      <4> QED
        BY <2>1, <3>1, <4>2, Records
    <3>3. ASSUME d[1] = e[1] PROVE d = e
      <4>1. d[2] \in Holding(rows[d[1]].text) /\ e[2] \in Holding(rows[d[1]].text)
        BY <2>1, <3>1, <3>3 DEF Holding
      <4>2. d[2] <= e[2] /\ e[2] <= d[2]
        BY <2>1, <3>1, <3>3, <4>1
      <4>3. d[2] = e[2]
        BY <2>1, <3>1, <4>2, Records
      <4> QED
        BY <2>1, <3>1, <3>3, <4>3
    <3> QED
      BY <3>2, <3>3
  <2> QED
    BY <2>1, <2>2
<1>4. Facts(p)' /\ Awaited(p)'
  <2>1. \A d \in Duplicates :
            /\ d \in Id \X Id
            /\ Still(p, d[1], ~Protected(d[1]))'
            /\ d[2] \in touched'[p] \/ d[1] \in touched'[p]
                   \/ (Live(d[2])' /\ rows'[d[2]].text = rows'[d[1]].text)
            /\ \A e \in Duplicates : d[1] # e[2] /\ (d[1] = e[1] => d = e)
    BY <1>1, <1>3 DEF Still, Live, Protected
  <2> QED
    BY <1>1, <1>2, <2>1 DEF Facts, Awaited
<1> QED
  BY <1>1, <1>4, TypeCompact, QuietStep DEF Inv

(* One duplicate is dropped; the others and the keepers are other rows.    *)
LEMMA CompactRowStep == ASSUME Inv, NEW p \in Process, CompactRow(p) PROVE Inv' /\ Ages
<1>0. PICK d \in todo[p] :
          /\ rows' = IF rows[d[1]].status = "absent" THEN rows
                     ELSE [rows EXCEPT ![d[1]] =
                               [@ EXCEPT !.status = "deleted", !.life = "compacted"]]
          /\ Touch(p, {d[1]})
          /\ todo' = [todo EXCEPT ![p] = @ \ {d}]
  BY DEF CompactRow
<1> DEFINE i == d[1]
           r == [rows[i] EXCEPT !.status = "deleted", !.life = "compacted"]
<1>1. /\ seq' = seq /\ index' = index /\ stale' = stale /\ pc' = pc /\ Frame(p)
      /\ pc[p] = "compact" /\ todo'[p] = todo[p] \ {d}
  BY <1>0 DEF CompactRow, Frame, Inv, TypeOK
<1>2. /\ i \in Id
      /\ \A e \in todo[p] :
             /\ e \in Id \X Id
             /\ Still(p, e[1], ~Protected(e[1]))
             /\ e[2] \in touched[p] \/ e[1] \in touched[p]
                    \/ (Live(e[2]) /\ rows[e[2]].text = rows[e[1]].text)
             /\ \A f \in todo[p] : e[1] # f[2] /\ (e[1] = f[1] => e = f)
  <2>1. Facts(p)
    BY DEF Inv
  <2>2. \A e \in todo[p] :
             /\ e \in Id \X Id
             /\ Still(p, e[1], ~Protected(e[1]))
             /\ e[2] \in touched[p] \/ e[1] \in touched[p]
                    \/ (Live(e[2]) /\ rows[e[2]].text = rows[e[1]].text)
             /\ \A f \in todo[p] : e[1] # f[2] /\ (e[1] = f[1] => e = f)
    BY <1>1, <2>1 DEF Facts
  <2>3. d \in Id \X Id
    BY <2>2
  <2> QED
    BY <2>2, <2>3
<1>3. TypeOK'
  BY TypeCompactRow DEF Inv
<1>4. /\ touched'[p] = touched[p]
      /\ \A q \in Process : q # p =>
             pc[q] = "idle" \/ (touched[q] \subseteq touched'[q] /\ i \in touched'[q])
  BY <1>0, <1>2, Touches DEF Inv
<1>5. \A j \in Id : j # i => rows'[j] = rows[j]
  BY <1>0 DEF Inv, TypeOK
<1>6. Facts(p)' /\ Awaited(p)'
  <2>1. ASSUME NEW e \in todo[p] \ {d}
        PROVE  /\ e \in Id \X Id
               /\ Still(p, e[1], ~Protected(e[1]))'
               /\ e[2] \in touched'[p] \/ e[1] \in touched'[p]
                      \/ (Live(e[2])' /\ rows'[e[2]].text = rows'[e[1]].text)
               /\ \A f \in todo[p] \ {d} : e[1] # f[2] /\ (e[1] = f[1] => e = f)
    <3>1. e[1] \in Id /\ e[2] \in Id /\ e[1] # i /\ e[2] # i
      BY <1>2
    <3>2. rows'[e[1]] = rows[e[1]] /\ rows'[e[2]] = rows[e[2]]
      BY <1>5, <3>1
    <3> QED
      BY <1>2, <1>4, <3>2 DEF Still, Live, Protected
  <2> QED
    BY <1>1, <2>1 DEF Facts, Awaited
<1>7. CASE rows[i].status = "absent"
  <2>1. rows' = rows
    BY <1>0, <1>7
  <2>2. Noted(p) /\ Ages /\ OneRowPerTopic'
    BY <1>1, <1>4, <2>1, Records DEF Noted, Ages, Inv, OneRowPerTopic, Live, TypeOK
  <2>3. Posted(p)
    BY <1>1, <2>1, Existing, Records DEF Posted, Inv, TypeOK, Live
  <2> QED
    BY <1>1, <1>3, <1>6, <2>2, <2>3, Combine
<1>8. CASE rows[i].status # "absent"
  <2>1. rows' = [rows EXCEPT ![i] = r]
    BY <1>0, <1>8
  <2>2. r \in Row /\ r.status = "deleted"
    <3>1. rows[i] \in Row
      BY <1>2 DEF Inv, TypeOK
    <3> QED
      BY <3>1 DEF Row, Life
  <2> HIDE DEF r
  <2>3. WritesRow(i, r) /\ i <= seq
    BY <1>2, <1>8, <2>1, <2>2, RowWritten, Existing DEF Inv
  <2> HIDE DEF i
  <2> QED
    BY <1>1, <1>2, <1>3, <1>4, <1>6, <2>2, <2>3, RowStep
<1> QED
  BY <1>7, <1>8

-----------------------------------------------------------------------------
(* Purge.                                                                  *)
LEMMA PurgeStep == ASSUME Inv, NEW p \in Process, Purge(p) PROVE Inv' /\ Ages
<1>1. /\ rows' = rows /\ seq' = seq /\ index' = index /\ stale' = stale /\ touched' = touched
      /\ pc[p] = "idle" /\ pc'[p] = "purge rows" /\ Frame(p)
  BY DEF Purge, Begin, Ready, Frame, store, Inv, TypeOK
<1>2. Facts(p)' /\ Awaited(p)'
  BY <1>1 DEF Facts, Awaited
<1> QED
  BY <1>1, <1>2, TypePurge, QuietStep DEF Inv

LEMMA PurgeRowsStep == ASSUME Inv, NEW p \in Process, PurgeRows(p) PROVE Inv' /\ Ages
<1>1. /\ seq' = seq /\ index' = index /\ stale' = stale
      /\ pc[p] = "purge rows" /\ pc'[p] = "purge index" /\ Frame(p)
  BY DEF PurgeRows, Goto, Frame, Inv, TypeOK
<1>2. \A i \in Id : ~Live(i)'
  BY Records DEF PurgeRows, Live
<1>3. TypeOK'
  BY TypePurgeRows DEF Inv
<1>4. Noted(p)
  <2>1. Id \in SUBSET Id
    OBVIOUS
  <2> QED
    BY <2>1, Touches DEF Noted, PurgeRows, Inv
<1>5. Ages /\ OneRowPerTopic' /\ Posted(p)
  <2>0. seq <= seq' /\ stale \subseteq stale'
    <3>1. seq \in Nat
      BY Records DEF Inv, TypeOK
    <3>2. seq <= seq'
      BY <3>1, \A n \in Nat : n <= n, <1>1
    <3>3. stale \subseteq stale'
      BY <1>1
    <3> QED
      BY <3>2, <3>3
  <2>1. Ages
    BY <1>2, <2>0 DEF Ages
  <2>2. OneRowPerTopic' /\ Posted(p)
    BY <1>1, <1>2 DEF OneRowPerTopic, Posted, Live
  <2> QED
    BY <2>1, <2>2
<1>6. Facts(p)' /\ Awaited(p)'
  BY <1>1 DEF Facts, Awaited
<1> QED
  BY <1>1, <1>3, <1>4, <1>5, <1>6, Combine

LEMMA PurgeIndexStep == ASSUME Inv, NEW p \in Process, PurgeIndex(p) PROVE Inv' /\ Ages
<1>1. /\ rows' = rows /\ seq' = seq /\ touched' = touched
      /\ stale' = stale \cup {i \in Id : Live(i)}
      /\ pc[p] = "purge index" /\ pc'[p] = "purge relations" /\ Frame(p)
  BY DEF PurgeIndex, Goto, Frame, Inv, TypeOK
<1>2. \A i \in Id : Live(i)' => i \in stale'
  BY <1>1 DEF Live
<1>3. Noted(p) /\ Ages /\ OneRowPerTopic' /\ Posted(p)
  <2>0. seq <= seq' /\ stale \subseteq stale'
    <3>1. seq \in Nat
      BY Records DEF Inv, TypeOK
    <3>2. seq <= seq'
      BY <3>1, \A n \in Nat : n <= n, <1>1
    <3>3. stale \subseteq stale'
      BY <1>1
    <3> QED
      BY <3>2, <3>3
  <2>1. Noted(p) /\ Ages /\ OneRowPerTopic'
    BY <1>1, <2>0 DEF Noted, Ages, OneRowPerTopic, Live, Inv
  <2>2. Posted(p)
    BY <1>1, <1>2 DEF Posted, Live
  <2> QED
    BY <2>1, <2>2
<1>4. Facts(p)' /\ Awaited(p)'
  BY <1>1 DEF Facts, Awaited
<1> QED
  BY <1>1, <1>3, <1>4, TypePurgeIndex, Combine DEF Inv

LEMMA PurgeRelationsStep == ASSUME Inv, NEW p \in Process, PurgeRelations(p) PROVE Inv' /\ Ages
<1>1. /\ rows' = rows /\ seq' = seq /\ index' = index /\ stale' = stale /\ touched' = touched
      /\ pc[p] = "purge relations" /\ pc'[p] = "purge sessions" /\ Frame(p)
  BY DEF PurgeRelations, Goto, Frame, Inv, TypeOK
<1>2. Facts(p)' /\ Awaited(p)'
  BY <1>1 DEF Facts, Awaited
<1> QED
  BY <1>1, <1>2, TypePurgeRelations, QuietStep DEF Inv

-----------------------------------------------------------------------------
(* Sessions, judgments, connections and crashes.                           *)
LEMMA SessionStartStep == ASSUME Inv, NEW p \in Process, SessionStart(p) PROVE Inv' /\ Ages
<1>1. rows' = rows /\ seq' = seq /\ index' = index /\ stale' = stale /\ touched' = touched
  BY DEF SessionStart
<1>2. Frame(p) /\ Facts(p)' /\ Awaited(p)' /\ pc[p] # "written"
  BY IdleStep DEF SessionStart
<1> QED
  BY <1>1, <1>2, TypeSessionStart, QuietStep DEF Inv

LEMMA JudgeStep ==
    ASSUME Inv, NEW p \in Process, NEW r \in relations, Judge(p, r)
    PROVE  Inv' /\ Ages
<1>1. rows' = rows /\ seq' = seq /\ index' = index /\ stale' = stale /\ touched' = touched
  BY DEF Judge
<1>2. Frame(p) /\ Facts(p)' /\ Awaited(p)' /\ pc[p] # "written"
  BY IdleStep DEF Judge
<1> QED
  BY <1>1, <1>2, TypeJudge, QuietStep DEF Inv

LEMMA OpenStep == ASSUME Inv, NEW p \in Process, Open(p) PROVE Inv' /\ Ages
<1>1. /\ rows' = rows /\ seq' = seq /\ index' = index /\ stale' = stale /\ touched' = touched
      /\ found' = found /\ pc' = pc /\ pc[p] = "idle" /\ Frame(p)
  BY DEF Open, store, locals, Frame
<1>2. Facts(p)' /\ Awaited(p)'
  BY <1>1 DEF Facts, Awaited, Inv
<1> QED
  BY <1>1, <1>2, TypeOpen, QuietStep DEF Inv

LEMMA CrashStep == ASSUME Inv, NEW p \in Process, Crash(p) PROVE Inv' /\ Ages
<1>1. /\ rows' = rows /\ seq' = seq /\ index' = index /\ stale \subseteq stale'
      /\ pc[p] = "written" => stale' = stale \cup {target[p]}
      /\ \A q \in Process : q # p => touched'[q] = touched[q]
      /\ pc'[p] = "idle" /\ found'[p] = 0 /\ Frame(p)
  BY DEF Crash, Return, Goto, Frame, Inv, TypeOK
<1>2. TypeOK'
  BY TypeCrash DEF Inv, Awaited
<1>3. Noted(p) /\ Ages /\ OneRowPerTopic'
  BY <1>1, Records DEF Noted, Ages, OneRowPerTopic, Live, Inv, TypeOK
<1>4. Posted(p)
  BY <1>1, Existing, Records DEF Posted, Live, Inv, TypeOK
<1>5. Facts(p)' /\ Awaited(p)'
  BY <1>1 DEF Facts, Awaited
<1> QED
  BY <1>1, <1>2, <1>3, <1>4, <1>5, Combine

-----------------------------------------------------------------------------
LEMMA InitInv == Init => Inv
<1> SUFFICES ASSUME Init PROVE Inv
  OBVIOUS
<1>1. TableType /\ RestType
  BY Records DEF Init, TableType, RestType
<1>2. CallType
  BY Records DEF Init, CallType, Location
<1>3. OneRowPerTopic /\ Findable
  BY Records DEF Init, OneRowPerTopic, Findable, Live
<1>4. \A p \in Process : Facts(p) /\ Awaited(p)
  BY DEF Init, Facts, Awaited
<1> QED
  BY <1>1, <1>2, <1>3, <1>4, TypeParts DEF Inv

LEMMA SavingStep == ASSUME Inv, NEW p \in Process, Saving(p) PROVE Inv' /\ Ages
BY SaveStep, BumpStep, ProbeStep, InsertFreshStep, InsertUpdatesStep, MirrorStep,
   ReadBackStep, SearchStep, RelateStep, SavedStep DEF Saving

LEMMA EditingStep == ASSUME Inv, NEW p \in Process, Editing(p) PROVE Inv' /\ Ages
BY DeleteStep, ReviseStep, RetopicStep, PinStep DEF Editing

LEMMA NextStep == Inv /\ [Next]_vars => Inv' /\ (Ages \/ UNCHANGED vars)
<1> SUFFICES ASSUME Inv, [Next]_vars PROVE Inv' /\ (Ages \/ UNCHANGED vars)
  OBVIOUS
<1>1. CASE Next
  <2>1. PICK p \in Process :
            \/ Saving(p) \/ Deciding(p) \/ Editing(p) \/ Compacting(p) \/ Purging(p)
            \/ SessionStart(p) \/ (\E r \in relations : Judge(p, r))
            \/ Open(p) \/ Crash(p)
    BY <1>1 DEF Next
  <2>2. CASE Deciding(p)
    BY <2>2, LookStep, DecideStep DEF Deciding
  <2>3. CASE Compacting(p)
    BY <2>3, CompactStep, CompactRowStep, CompactedStep DEF Compacting
  <2>4. CASE Purging(p)
    BY <2>4, PurgeStep, PurgeRowsStep, PurgeIndexStep, PurgeRelationsStep, PurgeSessionsStep
    DEF Purging
  <2> QED
    BY <2>1, <2>2, <2>3, <2>4, SavingStep, EditingStep, SessionStartStep, JudgeStep,
       OpenStep, CrashStep
<1>2. CASE UNCHANGED vars
  <2>1. TypeOK'
    BY <1>2 DEF vars, store, locals, Inv, TypeOK
  <2>2. OneRowPerTopic' /\ Findable'
    BY <1>2 DEF vars, store, locals, Inv, OneRowPerTopic, Findable, Live
  <2>3. \A p \in Process : Facts(p)' /\ Awaited(p)'
    BY <1>2 DEF vars, store, locals, Inv, Facts, Awaited, Still, Live, Protected
  <2> QED
    BY <1>2, <2>1, <2>2, <2>3 DEF Inv
<1> QED
  BY <1>1, <1>2

(* The columns and the local variables of the calls hold values of their   *)
(* types, whatever the size of the store and however many processes call.  *)
THEOREM TypeCorrect == Spec => []TypeOK
<1>1. Inv => TypeOK
  BY DEF Inv
<1> QED
  BY <1>1, InitInv, NextStep, PTL DEF Spec

LEMMA FactsSuffice == Inv => ActsOnFacts
<1> SUFFICES ASSUME Inv, NEW p \in Process
             PROVE
        /\ pc[p] = "bump" => Still(p, call[p].id, rows[call[p].id].text = call[p].text)
        /\ pc[p] \in {"approve", "review", "reject"} => Still(p, call[p].id, TRUE)
        /\ pc[p] \in {"written", "search", "relate"} =>
               Still(p, target[p], /\ rows[target[p]].text = call[p].text
                                   /\ rows[target[p]].topic = call[p].topic)
        /\ (pc[p] \in {"search", "relate"} /\ Upserted(p)) =>
               (new[p] = target[p] \/ new[p] \in touched[p])
        /\ pc[p] = "compact" =>
               \A d \in todo[p] :
                   /\ Still(p, d[1], ~Protected(d[1]))
                   /\ d[2] \in touched[p] \/ d[1] \in touched[p]
                          \/ (Live(d[2]) /\ rows[d[2]].text = rows[d[1]].text)
  BY DEF ActsOnFacts, Still
<1>1. Facts(p)
  BY DEF Inv
<1> QED
  BY <1>1 DEF Facts, Upserted

(* What a call of the memory tools goes on with after its first look still *)
(* holds, but for rows that other processes have written to since: the     *)
(* row a save is absorbed in, the row a decision is about, the row an      *)
(* upsert wrote, the rows compaction drops and those it keeps.             *)
THEOREM CallsActOnFacts == Spec => []ActsOnFacts
BY FactsSuffice, InitInv, NextStep, PTL DEF Spec

(* Search finds a live row under its text unless the posting is known to   *)
(* be out of date or its writer has still to mirror it.                    *)
THEOREM RowsFindable == Spec => []Findable
<1>1. Inv => Findable
  BY DEF Inv
<1> QED
  BY <1>1, InitInv, NextStep, PTL DEF Spec

(* A row that is gone stays gone and its id is not given out again: no     *)
(* update, decision or compaction brings it back.                          *)
THEOREM RowsStayGone == Spec => NoResurrection
<1>1. Inv /\ [Next]_vars =>
          [\A i \in Id : (i <= seq /\ ~Live(i)) => ~Live(i)']_vars
  BY NextStep DEF Ages
<1> QED
  BY <1>1, InitInv, NextStep, PTL DEF Spec, NoResurrection
=============================================================================
