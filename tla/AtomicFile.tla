----------------------------- MODULE AtomicFile -----------------------------
(***************************************************************************)
(* What callers of SessionStore may rely on (runtime/session_store.py),    *)
(* without temporary files and open inodes: a save takes effect at once or *)
(* not at all, with the text it was called with, until two saves meet and  *)
(* break the file.                                                         *)
(***************************************************************************)
CONSTANTS
    Writer,
    Text,       \* what the file may hold
    Readable,   \* what a writer may save
    Nothing     \* no save under way

VARIABLES
    text,       \* what a reader finds
    draft,      \* the text that each writer is saving
    broken

vars == <<text, draft, broken>>

Init == text \in Readable /\ draft = [w \in Writer |-> Nothing] /\ broken = FALSE

Begin(w) ==
    /\ draft[w] = Nothing
    /\ \E t \in Readable : draft' = [draft EXCEPT ![w] = t]
    /\ UNCHANGED <<text, broken>>

End(w) ==
    /\ draft[w] # Nothing
    /\ draft' = [draft EXCEPT ![w] = Nothing]
    /\ UNCHANGED broken

Publish(w) == End(w) /\ text' = draft[w]

(* The writer dies, or its save raises.                                    *)
Abandon(w) == End(w) /\ UNCHANGED text

(* Two saves at the same time may break the file.                          *)
Break(v, w) ==
    /\ v # w /\ draft[v] # Nothing /\ draft[w] # Nothing
    /\ broken' = TRUE
    /\ UNCHANGED <<text, draft>>

(* A broken file may hold anything, as each write leaves it.               *)
Garble(w) ==
    /\ broken /\ UNCHANGED broken
    /\ draft[w] # Nothing
    /\ draft' \in {draft, [draft EXCEPT ![w] = Nothing]}
    /\ text' \in Text

Next ==
    \/ \E w \in Writer : Begin(w) \/ Publish(w) \/ Abandon(w) \/ Garble(w)
    \/ \E v, w \in Writer : Break(v, w)

Spec == Init /\ [][Next]_vars
=============================================================================
