---------------------------- MODULE MCAuthSession ----------------------------
(***************************************************************************)
(* Two tabs that restore, sign in and sign out, each with the request of a *)
(* restore or sign-in and the polling of the page.                         *)
(***************************************************************************)
EXTENDS AuthSession

CONSTANTS t1, t2, p1
=============================================================================
