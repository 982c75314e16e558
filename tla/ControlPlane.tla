----------------------------- MODULE ControlPlane -----------------------------
(***************************************************************************)
(* How workers reach the store: RPCs over HTTP.  A call either answers its *)
(* caller, or the caller gives up on it (a deadline, an abort signal or a  *)
(* dropped connection) and the request stays under way: it may take effect *)
(* at any later time, or never.  A lost response is a call that takes      *)
(* effect right after its caller gave up.  The clients do not resend.      *)
(***************************************************************************)
EXTENDS TurnStore

CONSTANTS
    Processes,      \* worker processes
    MaxFaults       \* bound: how many calls are given up on

ASSUME MaxFaultsAssumption == MaxFaults \in Nat

VARIABLES
    late,           \* the calls given up on that the store may still receive
    faults          \* how many calls have been given up on

netVars == <<late, faults>>

None == "none"

CallName == {"claim", "begin", "recover", "finalize", "complete", "reserve",
             "beginEffect", "settle"}

CallArg == {None} \cup FailureClass \cup Terminal \cup TargetState

(* A request; arg is its class, status or target state, tool its effect. *)
Call(name, t, g, arg, tool) ==
    [name |-> name, tok |-> t, gen |-> g, arg |-> arg, tool |-> tool]

CallRecord == [name : CallName, tok : Nat, gen : Nat, arg : CallArg,
               tool : Effects \cup {None}]

(* The failure class that goes with a terminal status. *)
TerminalClass(s) ==
    CASE s = "cancelled" -> "cancelled"
      [] s = "failed"    -> "permanent"
      [] OTHER           -> "unknown"

NetTypeOK ==
    /\ late \subseteq CallRecord
    /\ faults \in 0..MaxFaults

NetInit ==
    /\ late = {}
    /\ faults = 0

(* The caller gives up on the call c; what it does next is its own business. *)
GiveUp(c) ==
    /\ faults < MaxFaults
    /\ faults' = faults + 1
    /\ late' = late \cup {c}
    /\ UNCHANGED storeVars

(* The store serves a call nobody waits for. *)
Serve(c) ==
    \/ c.name = "claim" /\ \E out \in ClaimOutcome : ClaimTurn(c.tok, out)
    \/ /\ c.name = "begin"
       /\ \E out \in BeginOutcome : BeginExecution(c.tok, c.gen, out)
    \/ /\ c.name = "recover"
       /\ \E out \in RecoverOutcome : RecoverTurn(c.tok, c.gen, c.arg, out)
    \/ /\ c.name = "finalize"
       /\ \E out \in FinalizeOutcome : FinalizeTurn(c.tok, c.gen, c.arg, out)
    \/ c.name = "complete" /\ \E out \in BOOLEAN : CompleteQueueJob(c.tok, out)
    \/ /\ c.name = "reserve"
       /\ \E out \in ReserveOutcome : ReserveEffect(c.tool, c.tok, c.gen, out)
    \/ /\ c.name = "beginEffect"
       /\ \E out \in BeginEffOutcome : BeginEffect(c.tool, c.tok, c.gen, out)
    \/ /\ c.name = "settle"
       /\ \E out \in SettleOutcome :
            ReconcileEffect(c.tool, c.tok, c.gen, c.arg, out)

LateArrival ==
    \E c \in late :
        /\ late' = late \ {c}
        /\ UNCHANGED faults
        /\ Serve(c)
=============================================================================
