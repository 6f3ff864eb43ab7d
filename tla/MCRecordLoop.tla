----------------------------- MODULE MCRecordLoop -----------------------------
(* MPNetInsertion.cfg: the insertion graph of MCMPNet with an arbitrary       *)
(* caller ("net") and with the recording script ("record").                   *)
(* RecordEveryPrimitive.cfg: the recording script with a patient operator.    *)
EXTENDS MCMPNet, RecordLoop

VARIABLE live

InsertionRecorded == {"approach", "insert"}

\* demonstrations, rollouts, corrections of a policy, a run that ends at a terminal
AllModes ==
    { [policy |-> FALSE, corrections |-> FALSE, stop_after_terminal |-> FALSE],
      [policy |-> TRUE, corrections |-> FALSE, stop_after_terminal |-> TRUE],
      [policy |-> TRUE, corrections |-> TRUE, stop_after_terminal |-> FALSE] }

Demonstrations == {[policy |-> FALSE, corrections |-> FALSE, stop_after_terminal |-> FALSE]}

ProgramsInit == live \in {"net", "record"} /\ RecordInit

ProgramsNext ==
    \/ live = "net" /\ Next /\ UNCHANGED <<live, recordVars>>
    \/ live = "record" /\ RecordNext /\ UNCHANGED live
    \/ Recording("finished") /\ UNCHANGED <<live, vars, recordVars>>     \* the program has ended

\* fairness as in FairSpec, of the walk inside reset() alone
ProgramsSpec ==
    /\ ProgramsInit /\ [][ProgramsNext]_<<live, vars, recordVars>>
    /\ WF_vars(ResetPathStep({})) /\ WF_vars(FinishReset)

PatientSpec ==
    ProgramsInit /\ live = "record" /\ [][ProgramsNext]_<<live, vars, recordVars>> /\ PatientOperator
=============================================================================
