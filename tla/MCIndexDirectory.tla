-------------------------- MODULE MCIndexDirectory --------------------------
(* Bounds for checking IndexDirectory with TLC.                            *)
EXTENDS IndexDirectory

Settings2 == {[merged |-> "a", kept |-> "a"], [merged |-> "b", kept |-> "b"]}
=============================================================================
