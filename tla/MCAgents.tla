------------------------------- MODULE MCAgents -------------------------------
(* Instances of the agent tree for TLC.                                    *)
EXTENDS AgentsProps

(* A sequence of a leaf, a loop over two leaves, and a parallel agent over *)
(* a sequence and a leaf.                                                  *)
Tree == [s |-> <<"x", "l", "p">>, l |-> <<"y", "z">>, p |-> <<"q", "w">>, q |-> <<"u", "v">>]
Twice == [l |-> 2]
MixedAnswers ==
    [x |-> {"write", "ask"}, y |-> {"write", "ask"}, z |-> {"say", "ask", "escalate"},
     u |-> {"write", "ask"}, v |-> {"say", "ask", "fail"}, w |-> {"write", "ask", "escalate"}]
=============================================================================
