---------------------------- MODULE MCPipelineRun ----------------------------
(***************************************************************************)
(* PipelineRun for TLC.                                                    *)
(***************************************************************************)
EXTENDS PipelineRun

CONSTANTS
    Shared,     \* whether one input reads all sources, or each has its own
    MaxLength,  \* length of the sources
    Short       \* sources of one unit

MCInputs == IF Shared THEN {"input"} ELSE Sources

MCInputOf == [s \in Sources |-> IF Shared THEN "input" ELSE s]

MCLength == [s \in Sources |-> IF s \in Short THEN 1 ELSE MaxLength]

MCCheckpoints == 0 .. MaxLength
=============================================================================
