---------------------------- MODULE FrameChannel ----------------------------
(***************************************************************************)
(* What a connection between two ends promises to the code above it: each  *)
(* end hears what the other one sent, in the order of sending, nothing     *)
(* twice and nothing else, and only while it is up.  How handshakes,       *)
(* framing, encryption and the segments of the socket achieve that is the  *)
(* business of Channel, which implements this specification.               *)
(***************************************************************************)
EXTENDS Integers, Sequences

CONSTANTS Ends,       \* the two ends
          Other(_),   \* the end at the far side
          Unit        \* what can be sent

VARIABLES up,         \* the ends that may send and hear
          down,       \* the ends that are closed for good
          sent,       \* what each end sent, in order
          got         \* what each end heard, in order

vars == <<up, down, sent, got>>

Init ==
  /\ up = {} /\ down = {}
  /\ sent = [e \in Ends |-> <<>>]
  /\ got = [e \in Ends |-> <<>>]

Send(e) ==
  /\ e \in up
  /\ \A o \in Ends \ {e} : sent'[o] = sent[o]
  /\ SubSeq(sent'[e], 1, Len(sent[e])) = sent[e]
  /\ \A i \in DOMAIN sent'[e] : sent'[e][i] \in Unit
  /\ UNCHANGED <<up, down, got>>

\* An end comes up, hears some more of what was sent to it, or both.
Receive(e) ==
  /\ e \notin down
  /\ up' = up \union {e}
  /\ \E n \in Len(got[e])..Len(sent[Other(e)]) :
       got' = [got EXCEPT ![e] = SubSeq(sent[Other(e)], 1, n)]
  /\ UNCHANGED <<down, sent>>

Close(e) ==
  /\ down' = down \union {e}
  /\ up' = up \ {e}
  /\ UNCHANGED <<sent, got>>

Next == \E e \in Ends : Send(e) \/ Receive(e) \/ Close(e)

Spec == Init /\ [][Next]_vars

\* What was sent is heard, unless one of the ends is closed first.
Delivered ==
  \A e \in Ends :
    (sent[Other(e)] # got[e]) ~> (sent[Other(e)] = got[e] \/ down # {})
=============================================================================
