----------------------------- MODULE MCManager -----------------------------
(* Manager for TLC: intervals of every kind, and queue URLs with and without *)
(* a SAS token, one of which does not parse for what it takes for a port.    *)
EXTENDS Manager

SAS     == [parses |-> TRUE, parts |-> Parts, quoted |-> {}]
Garbled == [parses |-> FALSE, parts |-> Parts, quoted |-> {"userinfo"}]

\* Every combination of intervals without a queue, and every combination of
\* queue URLs with the default interval.
MCArguments ==
    [env : {Unset, Unparsable, -1, 5}, flag : {Unset, 0},
     queueEnv : {SAS}, queueFlag : {NoURL}]
    \cup
    [env : {Unset}, flag : {Unset},
     queueEnv : {NoURL, SAS}, queueFlag : {Unset, NoURL, Garbled}]
=============================================================================
