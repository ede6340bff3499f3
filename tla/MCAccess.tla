------------------------------ MODULE MCAccess ------------------------------
(***************************************************************************)
(* An instance of Access for TLC: the login, a route that only needs a     *)
(* token, and one that needs either of two permissions and writes.         *)
(***************************************************************************)
EXTENDS Access, TLC

CONSTANTS u1, p1, p2, login, me, review

NeededHere == login :> {} @@ me :> {} @@ review :> {p1, p2}
=============================================================================
