---------------------------- MODULE TurnLifecycle ----------------------------
(***************************************************************************)
(* What the worker path promises the user about one turn.  It waits, is    *)
(* worked on and may go back to waiting as long as no answer has begun;    *)
(* the model is asked at most once, and only while the turn is answering;  *)
(* the turn closes once and for all: as completed only if the model was    *)
(* asked and nobody wanted to stop, as cancelled only if somebody did, and *)
(* as failed only if nobody did.                                           *)
(***************************************************************************)
EXTENDS Naturals

VARIABLES
    phase,      \* "waiting", "working", "answering" or "closed"
    outcome,    \* how it closed, "open" before
    asked,      \* the user asked to stop while the turn could still hear it
    answers     \* how often the model was asked

lifecycleVars == <<phase, outcome, asked, answers>>

Init ==
    /\ phase = "waiting"
    /\ outcome = "open"
    /\ asked = FALSE
    /\ answers = 0

Start ==
    /\ phase = "waiting"
    /\ phase' = "working"
    /\ UNCHANGED <<outcome, asked, answers>>

GoBack ==
    /\ phase = "working" /\ ~asked
    /\ phase' = "waiting"
    /\ UNCHANGED <<outcome, asked, answers>>

BeginAnswer ==
    /\ phase = "working" /\ ~asked
    /\ phase' = "answering"
    /\ UNCHANGED <<outcome, asked, answers>>

AskModel ==
    /\ phase = "answering"
    /\ answers = 0
    /\ answers' = 1
    /\ UNCHANGED <<phase, outcome, asked>>

StopWhileWaiting ==
    /\ phase = "waiting"
    /\ phase' = "closed"
    /\ outcome' = "cancelled"
    /\ asked' = TRUE
    /\ UNCHANGED answers

StopWhileWorking ==
    /\ phase \in {"working", "answering"} /\ ~asked
    /\ asked' = TRUE
    /\ UNCHANGED <<phase, outcome, answers>>

MayClose(result) ==
    \/ result = "cancelled" /\ asked
    \/ result = "failed" /\ ~asked
    \/ result = "completed" /\ ~asked /\ phase = "answering" /\ answers = 1

Close ==
    /\ phase \in {"working", "answering"}
    /\ \E result \in {"completed", "failed", "cancelled"} :
         MayClose(result) /\ outcome' = result
    /\ phase' = "closed"
    /\ UNCHANGED <<asked, answers>>

Next ==
    \/ Start
    \/ GoBack
    \/ BeginAnswer
    \/ AskModel
    \/ StopWhileWaiting
    \/ StopWhileWorking
    \/ Close

Spec == Init /\ [][Next]_lifecycleVars
=============================================================================
