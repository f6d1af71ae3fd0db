------------------------------ MODULE MCHistory ------------------------------
(* Instances of the history for TLC.                                         *)
EXTENDS HistoryProps

Setting(tokens, keep, sliding, interval, overlap, include) ==
    [tokens |-> tokens, keep |-> keep, sliding |-> sliding, interval |-> interval,
     overlap |-> overlap, include |-> include]

AllConfigs == {Setting(TRUE, 0, TRUE, 1, 0, "default"), Setting(TRUE, 1, FALSE, 0, 0, "default"),
               Setting(TRUE, 2, TRUE, 2, 1, "default"), Setting(FALSE, 0, TRUE, 1, 1, "default"),
               Setting(TRUE, 1, TRUE, 1, 0, "none")}
AllReplies == {"final", "interim", "asking", "nothing"}
=============================================================================
