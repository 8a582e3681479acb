----------------------------- MODULE MCOverseer -----------------------------
(* Two tasks of one wave; each may be called again by the retry pass.       *)
EXTENDS Overseer

CONSTANTS t1, t2

MCTask == {t1, t2}

=============================================================================
