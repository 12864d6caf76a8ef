---------------------------- MODULE MCRelayClient ----------------------------
(***************************************************************************)
(* Instances of RelayClient for TLC: one call among two relays, with and   *)
(* without an address both managers share, a preferred relay listed twice, *)
(* and a relay that is too expensive; and two calls of one client at a     *)
(* single relay that left and came back.                                   *)
(***************************************************************************)
EXTENDS RelayClient

CONSTANTS c1, c2, m1, m2, u1, u2

MCCalls    == {c1, c2}
MCManagers == {m1, m2}
MCUrls     == {u1, u2}
MCCheap    == {m1}

Apart    == [m \in MCManagers |-> IF m = m1 THEN u1 ELSE u2]
Swapped  == [m \in MCManagers |-> IF m = m1 THEN u2 ELSE u1]
Together == [m \in MCManagers |-> u1]

MCWorlds ==
    [managers : {{m1, m2}}, accepted : {{m1, m2}}, calls : {{c1}},
     site : {Apart, Swapped, Together},
     log : {<<>>, <<Registered(m2), Registered(m1)>>},
     preferred : {<<>>, <<u2>>, <<u1, u1>>}]
      \cup
    [managers : {{m1, m2}}, accepted : {{m2}}, calls : {{c1}}, site : {Apart},
     log : {<<Registered(m1), Registered(m2)>>}, preferred : {<<>>, <<u1>>}]
      \cup
    [managers : {{m1}}, accepted : {{m1}}, calls : {{c1, c2}},
     site : {Together},
     log : {<<>>, <<Registered(m1), Exited(m1), Registered(m1)>>}, preferred : {<<>>}]

MCMaxHubEvents == [w \in MCWorlds |-> IF w.accepted = {m2} THEN 3 ELSE 1]
=============================================================================
