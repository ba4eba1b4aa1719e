---------------------------- MODULE MCSyncClient ----------------------------
(* A package of two frames, and after it one that is as long or shorter. *)
EXTENDS SyncClient

TwoThenUpToTwo == <<{2}, {1, 2}>>
=============================================================================
