---------------------------- MODULE MCCommitLog -----------------------------
(***************************************************************************)
(* CommitLog for TLC.                                                      *)
(***************************************************************************)
EXTENDS CommitLog

=============================================================================
