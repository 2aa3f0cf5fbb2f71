------------------------------- MODULE MCMtd -------------------------------
(* Values for the constants of MtdPrograms.                                *)
EXTENDS MtdPrograms

AllPrograms == ProgramKinds
AllFaults == FaultKinds

\* Less than a block, and a block and a unit.
ShortImage == <<11, 12>>
OddImage   == <<21, 22, 23, 24>>
SomeImages == {ShortImage, OddImage}

TwoValues == {1, 2}
=============================================================================
