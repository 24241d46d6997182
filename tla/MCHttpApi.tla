------------------------------ MODULE MCHttpApi -----------------------------
(***************************************************************************)
(* Small instances of HttpApi for TLC.                                     *)
(***************************************************************************)
EXTENDS HttpApi

CONSTANTS r1, r2, c1

TwoRequests == {r1, r2}

OneConn == {c1}
=============================================================================
