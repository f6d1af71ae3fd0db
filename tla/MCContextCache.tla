--------------------------- MODULE MCContextCache ---------------------------
(* Instances of the context cache for TLC.                                   *)
EXTENDS ContextCacheProps
=============================================================================
