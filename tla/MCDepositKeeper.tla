-------------------------- MODULE MCDepositKeeper --------------------------
(* Model values for DepositKeeper: two members of a vault and two       *)
(* tokens, so that a failing one has a neighbour.                          *)
EXTENDS DepositKeeper, TLC

CONSTANTS club, ann, ben, usdt, dai, one, two, nobody

MCVaultOf == [s \in Seats |-> club]
MCFirstAccepted == {dai}
MCTokenOrder == <<usdt, dai>>

\* One instance with everything around it going wrong; and two instances that
\* meet at one deposit.
MCBounds ==
    {[instances |-> {one}, deposits |-> {<<ann, usdt>>, <<ann, dai>>, <<ben, dai>>},
      movers |-> {ann}, pending |-> 1, userCalls |-> 1, faults |-> 1, purse |-> 1],
     [instances |-> {one, two}, deposits |-> {<<ann, dai>>},
      movers |-> {ann}, pending |-> 2, userCalls |-> 0, faults |-> 0, purse |-> 2]}
=============================================================================
