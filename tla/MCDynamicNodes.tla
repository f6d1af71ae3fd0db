--------------------------- MODULE MCDynamicNodes ---------------------------
(* Instances of the dynamic scheduler for TLC.                             *)
EXTENDS DynamicNodesProps

Call(n, id) == [node |-> n, id |-> id]
For(f(_)) == [n \in DynNodes |-> f(n)]

(* p runs c and then d; q runs e.                                          *)
TwoBodies == For(LAMBDA n : IF n = "p" THEN <<Call("c", AutoId), Call("d", "x")>>
                            ELSE IF n = "q" THEN <<Call("e", AutoId)>> ELSE <<>>)
(* p runs c, which runs d.                                                 *)
Nested == For(LAMBDA n : IF n = "p" THEN <<Call("c", AutoId)>>
                         ELSE IF n = "c" THEN <<Call("d", AutoId)>> ELSE <<>>)
BodiesAsk == For(LAMBDA n : IF n = "d" THEN {"out", "none"}
                            ELSE IF n = "q" THEN {"out", "err"}
                            ELSE IF n \in Dynamic THEN {"out", "int"} ELSE {"out"})
AllOut == For(LAMBDA n : {"out"})

Once == For(LAMBDA n : 1)
PTwice == For(LAMBDA n : IF n = "p" THEN 2 ELSE 1)
AnyError == For(LAMBDA n : {"NodeError", "NodeTimeoutError"})

(* Bound: error events in the session.                                     *)
FewErrors == Cardinality({i \in DOMAIN log : log[i].kind = "err"}) <= 2
=============================================================================
