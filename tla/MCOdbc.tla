------------------------------- MODULE MCOdbc -------------------------------
(* Three result sets, one of them empty.                                   *)
EXTENDS Odbc

MCSets == <<3, 0, 2>>
=============================================================================
