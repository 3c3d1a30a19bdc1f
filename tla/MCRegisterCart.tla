---------------------------- MODULE MCRegisterCart ----------------------------
(* Two line requests and one handler at a time, three adds and one edit.      *)
EXTENDS RegisterCart
=============================================================================
