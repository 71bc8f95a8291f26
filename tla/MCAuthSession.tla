--------------------------- MODULE MCAuthSession ----------------------------
(* Instances of AuthSession for TLC: one unit is the timeout of a login. *)
EXTENDS AuthSession
=============================================================================
