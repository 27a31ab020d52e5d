----------------------------- MODULE MCRollback -----------------------------
(***************************************************************************)
(* Instances of Rollback: two files, one of them new.                      *)
(***************************************************************************)
EXTENDS Rollback

CONSTANTS old, new

TwoPaths == {old, new}
JustOld  == {old}

\* The instance in which the only file is a new one (README, further
\* divergences).
JustNew  == {new}
NoFiles  == {}
=============================================================================
