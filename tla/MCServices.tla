------------------------------ MODULE MCServices ------------------------------
(***************************************************************************)
(* One fault makes two connections, the old and the new, overlap; two      *)
(* events can be split between them; and one request meets every step of   *)
(* the shutdown.                                                           *)
(***************************************************************************)
EXTENDS Services

CONSTANTS q1

MCConnection == {q1}
=============================================================================
