------------------------------- MODULE MCBot --------------------------------
(* Flows for Bot: a serial act, a parallel act with a serial act in it, and  *)
(* an end, with every combination of the signals below, each played by a bot *)
(* alone; and one flow of the tests of ensure, played beside two more users  *)
(* of the timer service.                                                     *)
EXTENDS Bot

None == [abs |-> FALSE, parts |-> <<>>]
Act(type, kids, cmd, target) == [type |-> type, kids |-> kids, cmd |-> cmd, target |-> target]
Composite(type, kids) == Act(type, kids, "none", None)

\* What a leaf signals, or that its type is unknown to act_factory.
Next_   == Act("act_message", <<>>, "next", None)
Exit_   == Act("act_message", <<>>, "exit", None)
Idle    == Act("act_message", <<>>, "none", None)
Unknown == Act("act_unknown", <<>>, "none", None)
To(parts)    == Act("act_message", <<>>, "jump", [abs |-> TRUE, parts |-> parts])
Within(name) == Act("act_message", <<>>, "jump", [abs |-> FALSE, parts |-> <<name>>])

Signals ==
  [ser1 : {Next_, To(<<"flow", "par">>)},
   ser2 : {Next_, To(<<"flow", "par">>), To(<<"flow", "end">>)},
   left : {Idle, Exit_, To(<<"flow", "end">>), To(<<"flow", "ser">>), To(<<"flow", "par">>)},
   right1 : {Next_, Within("right2"), To(<<"flow", "ser">>)},
   right2 : {Idle, Exit_, To(<<"flow", "end">>), Unknown},
   end : {Exit_, To(<<"flow", "ser">>), Within("par")}]

\* "ensure - bot": two messages, the second exits.
TwoMessages == [top1 |-> Next_, top2 |-> Exit_]

AllSignals == Signals \union {TwoMessages}

Flows ==
  [sc \in AllSignals |->
    IF sc = TwoMessages
    THEN [n \in {"flow"} \union DOMAIN sc |->
           IF n = "flow" THEN Composite("act_serial", <<"top1", "top2">>) ELSE sc[n]]
    ELSE [n \in {"flow", "ser", "par", "right"} \union DOMAIN sc |->
           CASE n = "flow" -> Composite("act_serial", <<"ser", "par", "end">>)
             [] n = "ser" -> Composite("act_serial", <<"ser1", "ser2">>)
             [] n = "par" -> Composite("act_parallel", <<"left", "right">>)
             [] n = "right" -> Composite("act_serial", <<"right1", "right2">>)
             [] OTHER -> sc[n]]]
=============================================================================
