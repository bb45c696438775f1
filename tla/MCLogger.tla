------------------------------ MODULE MCLogger ------------------------------
(***************************************************************************)
(* A small instance of Logger: two records for one file, one for the       *)
(* other.                                                                  *)
(***************************************************************************)
EXTENDS Logger

MCLevelOf == <<2, 3, 2>>
=============================================================================
