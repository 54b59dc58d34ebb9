--------------------------- MODULE MCServiceExecution ---------------------------
(* A program of three processes; one chunk is within the limit of one      *)
(* stream and beyond that of the other.                                    *)
EXTENDS ServiceExecution

MCLimit == [s \in {"stdout", "stderr"} |-> IF s = "stdout" THEN 1 ELSE 0]
================================================================================
