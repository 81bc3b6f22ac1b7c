------------------------ MODULE MCConvertGovernance ------------------------
EXTENDS ConvertGovernance

(* A log line: the fields the three regular expressions capture.          *)
Line(kind, epoch, gov, vs, value, stat, committee) ==
  [kind |-> kind, epoch |-> epoch, gov |-> gov, votes |-> vs, value |-> value,
   stat |-> stat, committee |-> committee]
Vote(type, hash, v) == [type |-> type, hash |-> hash, vote |-> v]

(* Votes reported at the start of epochs 2 and 3 (the votes of 1 and 2),  *)
(* and at the start of 4, outside the range, by a DRep that votes nowhere *)
(* else.                                                                   *)
V1 == Line("vote", 2, "g1", <<Vote("DRepKey", "h1", "Yes"), Vote("StakePoolKey", "h2", "No")>>, "", 0, 0)
V2 == Line("vote", 3, "g2", <<Vote("DRepKey", "h1", "Abstain")>>, "", 0, 0)
V3 == Line("vote", 2, "g2", <<Vote("StakePoolKey", "h2", "Yes")>>, "", 0, 0)
V4 == Line("vote", 4, "g1", <<Vote("DRepScript", "h3", "Yes")>>, "", 0, 0)
(* Two NPPX lines for the same epoch and one for another, and pool statistics out of order.   *)
P1 == Line("nppx", 1, "", <<>>, "p1", 0, 0)
P2 == Line("nppx", 1, "", <<>>, "p2", 0, 0)
P3 == Line("nppx", 0, "", <<>>, "p3", 0, 0)
S1 == Line("stats", 1, "", <<>>, "", 5, 7)
S2 == Line("stats", 0, "", <<>>, "", 3, 7)
S3 == Line("stats", 1, "", <<>>, "", 4, 6)

MCLogs ==
  {<<>>} \cup {<<a>> : a \in {V1, V4, S3}} \cup
  {<<a, b>> : a \in {V1, V2, V3, V4}, b \in {V1, V2, V3, P1, S1}} \cup
  {<<a, b, c>> : a \in {V1, V3, P1}, b \in {V2, V4, P2, P3, S2}, c \in {V3, P2, S1, S3}}

Dump(e, entries) == [epoch |-> e, entries |-> entries]
D1 == Dump(1, <<[cred |-> "AddrKeyHash", hash |-> "h1", stake |-> 10],
                [cred |-> "ScriptHash", hash |-> "h3", stake |-> 5],
                [cred |-> "AddrKeyHash", hash |-> "h5", stake |-> 7]>>)
D2 == Dump(2, <<[cred |-> "AddrKeyHash", hash |-> "h1", stake |-> 11]>>)
Q1 == Dump(1, <<[hash |-> "h2", active |-> 1, live |-> 2], [hash |-> "h4", active |-> 3, live |-> 4]>>)
Q2 == Dump(2, <<[hash |-> "h2", active |-> 2, live |-> 2]>>)

MCDRepDumps == {(1 :> D1 @@ 2 :> D2), (1 :> D1 @@ 2 :> Missing)}
MCPoolDumps == {(1 :> Q1 @@ 2 :> Q2), (1 :> Q1 @@ 2 :> Missing)}
=============================================================================
