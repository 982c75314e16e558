------------------------------ MODULE Transcript ------------------------------
(***************************************************************************)
(* What the stream promises a reader of one turn.  The stored text only    *)
(* grows, and not after the turn has ended.  The reader never sees more    *)
(* than is stored, may be set back by an answer that is older than what    *)
(* was seen live, learns of the end once it has happened, and then rests.  *)
(***************************************************************************)
EXTENDS Naturals

CONSTANTS
    Length          \* the longest text

VARIABLES
    stored,         \* how much of the text is durable
    ended,          \* the turn has ended
    read,           \* how much of it the reader has seen
    informed        \* the reader knows that the turn has ended

transcriptVars == <<stored, ended, read, informed>>

Init ==
    /\ stored = 0
    /\ ended = FALSE
    /\ read = 0
    /\ informed = FALSE

Grow ==
    /\ ~ended
    /\ stored' \in (stored + 1)..Length
    /\ UNCHANGED <<ended, read, informed>>

End ==
    /\ ~ended
    /\ ended' = TRUE
    /\ stored' \in stored..Length
    /\ UNCHANGED <<read, informed>>

Read ==
    /\ ~informed
    /\ read' \in 0..stored
    /\ UNCHANGED <<stored, ended, informed>>

Learn ==
    /\ ended /\ ~informed
    /\ informed' = TRUE
    /\ read' \in 0..stored
    /\ UNCHANGED <<stored, ended>>

Next == Grow \/ End \/ Read \/ Learn

Spec == Init /\ [][Next]_transcriptVars
=============================================================================
