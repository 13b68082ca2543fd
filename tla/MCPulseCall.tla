---------------------------- MODULE MCPulseCall ----------------------------
(* Instances of PulseCall for TLC: topics for up to three calls. *)
EXTENDS PulseCall

\* Two calls of one kind and one of another.
MCReq == [c \in Calls |-> IF c = "c3" THEN "req2" ELSE "req1"]
MCRes == [c \in Calls |-> IF c = "c3" THEN "res2" ELSE "res1"]

\* Nothing subscribed by the application before the first call, or the
\* response topic, as lobby_runner subscribes to auth_syn_login_b2f.
NoSubs  == {}
ResSubs == {"res1"}
=============================================================================
