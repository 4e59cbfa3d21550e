--------------------------- MODULE MCMemoryStore ---------------------------
(* The store for TLC: calls begin on an empty store, or on one where two   *)
(* saves have been made before, and perhaps the second row revised to the  *)
(* text of the first.                                                      *)
EXTENDS MemoryStore, TLC

CONSTANTS Old, Fresh, Topic1

First(life) ==
    [status |-> "live", text |-> Old, topic |-> Topic1, life |-> life, pinned |-> FALSE]
Second(x) ==
    [status |-> "live", text |-> x, topic |-> None, life |-> "active", pinned |-> FALSE]

Filled ==
    /\ \E life \in {"active", "proposed"}, x \in {Old, Fresh} :
           /\ rows = [i \in Id |-> CASE i = 1 -> First(life)
                                     [] i = 2 -> Second(x)
                                     [] OTHER -> NoRow]
           /\ stale = IF x = Old THEN {2} ELSE {}
    /\ seq = 2
    /\ index = {<<1, Old>>, <<2, Fresh>>}
    /\ relations = {} /\ relSeq = 0 /\ sessions = 0
    /\ last \in [Process -> {0, 2}]
    /\ pc = [p \in Process |-> "idle"]
    /\ call = [p \in Process |-> NoCall]
    /\ found = [p \in Process |-> 0]
    /\ new = [p \in Process |-> 0]
    /\ target = [p \in Process |-> 0]
    /\ todo = [p \in Process |-> {}]
    /\ touched = [p \in Process |-> {}]
    /\ left = Calls

MCSpec == (Init \/ Filled) /\ [][Next]_vars

Processes == Permutations(Process)
=============================================================================
