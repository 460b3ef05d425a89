---------------------------- MODULE MCMlperfRunner ----------------------------
(* Model-checking instance of MlperfRunner: the argument values and the    *)
(* measured numbers each cfg enumerates.                                   *)
EXTENDS MlperfRunner

\* --server-target-qps auto, 0 (raised to the 0.1 floor), 2, and text
\* float() rejects.
MCQpsArgs == {[kind |-> "auto"], [kind |-> "num", val |-> 0],
              [kind |-> "num", val |-> 2], [kind |-> "bad"]}

AllModes == {"accuracy", "performance", "both"}
====
