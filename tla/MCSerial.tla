------------------------------ MODULE MCSerial ------------------------------
(***************************************************************************)
(* Small workflows for SerialExecutor.                                     *)
(***************************************************************************)
EXTENDS SerialExecutor

CONSTANTS a, b, c, d

Loose == [s \in Steps |-> {}]
Side  == [Loose EXCEPT ![c] = {a}]
Chain == [Side EXCEPT ![b] = {c}]
Fork  == [Side EXCEPT ![b] = {a}]
Join  == [Loose EXCEPT ![c] = {a, b}]

Shapes == {Loose, Side, Chain, Fork, Join}

\* d is either skipped or cannot be made.
BrokenD == [s \in Steps |-> IF s = d THEN "errorJob" ELSE "none"]

EveryEnd == [s \in Steps |-> IF s = c THEN {"success", "temporaryFail", "raise"}
                             ELSE Results]
=============================================================================
