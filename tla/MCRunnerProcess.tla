---------------------------- MODULE MCRunnerProcess ----------------------------
(* A small instance of RunnerProcess for TLC.                              *)
EXTENDS RunnerProcess

SomeSizes == [s \in Streams |-> IF s = Stdout THEN 2 ELSE 1]
================================================================================
