----------------------------- MODULE MCChannel ------------------------------
(* Channel with fields of one or two binary digits: payloads of one and of   *)
(* two bytes, and nonces that wrap around.                                   *)
EXTENDS Channel

MCPayloads == {<<1>>, <<0, 1>>}
=============================================================================
