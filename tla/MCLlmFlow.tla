------------------------------ MODULE MCLlmFlow ------------------------------
(* Instances of the turn loop for TLC.                                       *)
EXTENDS LlmFlowProps

ToolKinds == [p |-> "plain", g |-> "guarded", k |-> "login", t |-> "transfer", s |-> "answer"]
ToSub == [t |-> "a"]
TwoAgents == [r |-> {<<>>, <<"g", "g">>, <<"p", "g">>, <<"k", "k">>, <<"t">>, <<"s">>},
              a |-> {<<>>, <<"k", "p">>}]
=============================================================================
