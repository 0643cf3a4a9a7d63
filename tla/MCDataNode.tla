----------------------------- MODULE MCDataNode -----------------------------
(* DataNode for TLC: both kinds of platform, and three sizes of frames. *)
EXTENDS DataNode
=============================================================================
