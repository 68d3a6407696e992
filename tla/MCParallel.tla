----------------------------- MODULE MCParallel -----------------------------
(***************************************************************************)
(* Small workflows for ParallelExecutor.  a, b, c and d are the steps;   *)
(* d is missing from the workflows of three.                               *)
(***************************************************************************)
EXTENDS ParallelExecutor

CONSTANTS a, b, c, d

\* Who feeds whom.
Loose  == [s \in Steps |-> {}]
Side   == [Loose EXCEPT ![c] = {a}]
Chain  == [Side EXCEPT ![b] = {c}]
Fork   == [Side EXCEPT ![b] = {a}]
Join   == [Loose EXCEPT ![c] = {a, b}]
Ladder == [Join EXCEPT ![b] = {a}]

\* Every way to connect three steps, up to renaming.
AllShapes   == {Loose, Side, Chain, Fork, Join, Ladder}
JustSide   == {Side}
LooseOrJoin == {Loose, Join}

NoErrors == [s \in Steps |-> "none"]
CrashC   == [NoErrors EXCEPT ![c] = "crashJob"]

AllSucceed == [s \in Steps |-> {"success"}]
Failing    == [AllSucceed EXCEPT
                  ![a] = {"success", "temporaryFail", "raise"},
                  ![b] = {"success", "permanentFail", "partial", "missing"}]
FailD      == [AllSucceed EXCEPT ![d] = {"success", "permanentFail"}]
RaiseA     == [AllSucceed EXCEPT ![a] = {"raise"}]

Ask(ram, cores, cuda) == [ram |-> ram, cores |-> cores, cuda |-> cuda]
OneEach   == [s \in Commands |-> Ask(1, 1, 0)]
BigB      == [OneEach EXCEPT ![b] = Ask(9, 1, 0)]
\* No two of them fit into 3.
TightRam  == [s \in Commands |-> Ask(2, 1, 0)]
=============================================================================
