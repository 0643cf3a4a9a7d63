----------------------------- MODULE MCDesktopCom -----------------------------
(* DesktopCom for TLC: frames of a command and of a read request, which arrive in any parts. *)
EXTENDS DesktopCom
=============================================================================
