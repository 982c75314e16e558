----------------------------- MODULE StalledSweep -----------------------------
(***************************************************************************)
(* AgenticChatStalledRecoverySweep: every process looks for a processing   *)
(* job whose updated_at is older than the stalled timeout, borrows the     *)
(* token it finds in the row, and drives the turn to an end: claim (to     *)
(* learn the generation), recover, load a snapshot, finalize, and again,   *)
(* for at most MaxConvergence rounds.  One sweep per process at a time.    *)
(***************************************************************************)
EXTENDS ControlPlane

CONSTANTS
    MaxConvergence  \* MAX_CONVERGENCE_STEPS

ASSUME MaxConvergenceAssumption == MaxConvergence \in Nat \ {0}

VARIABLES
    sweep           \* the sweep of each process

SweepLocation == {"idle", "claim", "recover", "snapshot", "finalize"}

SweepRecord == [
    pc    : SweepLocation,
    tok   : Nat,            \* candidate.processingToken
    gen   : Nat,            \* claim.executionGeneration
    class : {None} \cup FailureClass,
    want  : {None, "failed", "cancelled"},  \* the status to finalize with
    round : 0..(MaxConvergence - 1)]

SweepResting == [pc |-> "idle", tok |-> NoToken, gen |-> 0, class |-> None,
                 want |-> None, round |-> 0]

SweepTypeOK == sweep \in [Processes -> SweepRecord]

SweepInit == sweep = [p \in Processes |-> SweepResting]

-----------------------------------------------------------------------------
SweepCall(p, name, arg) == Call(name, sweep[p].tok, sweep[p].gen, arg, None)

Settled(p) == sweep' = [sweep EXCEPT ![p] = SweepResting]

Decided(p, want) == sweep' = [sweep EXCEPT ![p] = [@ EXCEPT !.pc = "snapshot",
                                                            !.want = want]]

(* The next round of converge, under the given class; the last one gives up. *)
NextRound(p, class) ==
    \/ /\ sweep[p].round + 1 = MaxConvergence
       /\ Settled(p)
    \/ /\ sweep[p].round + 1 < MaxConvergence
       /\ sweep' = [sweep EXCEPT ![p] = [@ EXCEPT !.pc = "recover",
                                                  !.class = class,
                                                  !.want = None,
                                                  !.round = sweep[p].round + 1]]

SameRound(p) == NextRound(p, sweep[p].class)

(* claimFailureClass *)
ClaimedClass(out) ==
    CASE out = "cancel_requested" -> "cancelled"
      [] out = "already_terminal" -> TerminalClass(status)
      [] out = "claimed"          -> "timeout_pre_start"
      [] out = "matching_current_claim" ->
            IF started THEN "timeout_post_start" ELSE "timeout_pre_start"

(* Mutants of SweepStart: terminal turns, or queued ones, are passed over. *)
SweepStart_unlessTerminal(p) ==
    /\ sweep[p].pc = "idle"
    /\ jobStatus = "processing" /\ stalled /\ status \notin Terminal
    /\ sweep' = [sweep EXCEPT ![p] = [@ EXCEPT !.pc = "claim", !.tok = token]]
    /\ UNCHANGED <<storeVars, netVars>>

SweepStart_ifClaimed(p) ==
    /\ sweep[p].pc = "idle"
    /\ jobStatus = "processing" /\ stalled /\ status # "queued"
    /\ sweep' = [sweep EXCEPT ![p] = [@ EXCEPT !.pc = "claim", !.tok = token]]
    /\ UNCHANGED <<storeVars, netVars>>

(* The candidate query: its answer is read before anything is done about it. *)
SweepStart(p) ==
    /\ sweep[p].pc = "idle"
    /\ jobStatus = "processing" /\ stalled
    /\ sweep' = [sweep EXCEPT ![p] = [@ EXCEPT !.pc = "claim", !.tok = token]]
    /\ UNCHANGED <<storeVars, netVars>>

SweepClaim(p) ==
    /\ sweep[p].pc = "claim"
    /\ \/ /\ UNCHANGED netVars
          /\ \E out \in ClaimOutcome :
               /\ ClaimTurn(sweep[p].tok, out)
               /\ \/ out = "raised" /\ Settled(p)
                  \/ /\ out # "raised" /\ gen' < 1
                     /\ Settled(p)
                  \/ /\ out # "raised" /\ gen' >= 1
                     /\ sweep' = [sweep EXCEPT ![p] =
                          [@ EXCEPT !.pc = "recover", !.gen = gen',
                                    !.class = ClaimedClass(out)]]
       \/ GiveUp(SweepCall(p, "claim", None)) /\ Settled(p)

SweepRecover(p) ==
    /\ sweep[p].pc = "recover"
    /\ \/ /\ UNCHANGED netVars
          /\ \E out \in RecoverOutcome :
               /\ RecoverTurn(sweep[p].tok, sweep[p].gen, sweep[p].class, out)
               /\ \/ out = "finalize_failed" /\ Decided(p, "failed")
                  \/ out = "finalize_cancelled" /\ Decided(p, "cancelled")
                  \/ /\ out \notin {"finalize_failed", "finalize_cancelled"}
                     /\ Settled(p)
       \/ GiveUp(SweepCall(p, "recover", sweep[p].class)) /\ Settled(p)

(***************************************************************************)
(* The snapshot of the generation it holds: the load may fail, and does    *)
(* when the generation has moved on.                                       *)
(***************************************************************************)
SweepSnapshot(p) ==
    /\ sweep[p].pc = "snapshot"
    /\ UNCHANGED storeVars
    /\ \/ /\ UNCHANGED netVars
          /\ gen = sweep[p].gen
          /\ \/ status \in Terminal /\ NextRound(p, TerminalClass(status))
             \/ status = "queued" /\ Settled(p)
             \/ /\ status = "running"
                /\ sweep' = [sweep EXCEPT ![p].pc = "finalize"]
       \/ UNCHANGED netVars /\ gen # sweep[p].gen /\ SameRound(p)
       \/ /\ faults < MaxFaults /\ faults' = faults + 1 /\ UNCHANGED late
          /\ SameRound(p)

SweepFinalize(p) ==
    /\ sweep[p].pc = "finalize"
    /\ \/ /\ UNCHANGED netVars
          /\ \E out \in FinalizeOutcome :
               /\ FinalizeTurn(sweep[p].tok, sweep[p].gen, sweep[p].want, out)
               /\ \/ out = "raised" /\ SameRound(p)
                  \/ out = "stale_generation" /\ Settled(p)
                  \/ out = "cancel_requested" /\ NextRound(p, "cancelled")
                  \/ /\ out \in {"finalized", "already_terminal"}
                     /\ NextRound(p, TerminalClass(status'))
       \/ GiveUp(SweepCall(p, "finalize", sweep[p].want)) /\ SameRound(p)

(* A sweep under way; the timer that starts one is SweepStart. *)
SweepStep(p) ==
    \/ SweepClaim(p)
    \/ SweepRecover(p)
    \/ SweepSnapshot(p)
    \/ SweepFinalize(p)
=============================================================================
