--------------------------- MODULE DepositKeeper ---------------------------
(***************************************************************************)
(* The keeper: a loop that finds tokens on members' deposit addresses and  *)
(* pays for the two calls that bring them into the vault - deploying the   *)
(* address and sweeping it.  Anybody may make the same calls at any time,  *)
(* so every answer the keeper has read may be out of date when it acts.    *)
(*                                                                         *)
(* A seat is a (vault, member) pair and has one deposit address.  Of the   *)
(* tokens on an address only their presence is kept.  Every await of the   *)
(* loop is a step of its own.  Several instances run with the same key,    *)
(* so they share its coin and its nonces; nonces are kept relative: what   *)
(* counts is whether another transaction of the key was sent since the     *)
(* nonce was read.                                                         *)
(***************************************************************************)
EXTENDS Naturals, Sequences, FiniteSets

CONSTANTS
    Vaults, Seats,       \* vaults, and (vault, member) pairs
    VaultOf,             \* the vault of a seat
    TokenOrder,          \* the watched tokens in the order of the config
    FirstAccepted,       \* what every vault takes when it is created
    Keepers,             \* instances of the keeper, all with the same key
    Nobody,              \* no seat, no token, the sender of a disowned transaction
    MinGas,              \* MIN_BALANCE_ETH, in transactions
    Bounds               \* the bounds a behaviour may be under:
                         \* instances  the keepers that run
                         \* deposits   the (seat, token) pairs that are ever paid
                         \* movers     the seats that leave and join again
                         \* pending    transactions waiting to be mined
                         \* userCalls  deployments and sweeps by anybody else
                         \* faults     failing reads
                         \* purse      the transactions a full purse pays for

Tokens == {TokenOrder[i] : i \in DOMAIN TokenOrder}

VARIABLES
    joined,      \* the seats that are members now
    accepted,    \* accepted[v]: the tokens the vault takes
    holding,     \* holding[s]: the tokens sitting on the seat's address
    deployed,    \* the seats whose address has its contract
    mempool,     \* the keepers' transactions that are not mined, in nonce order
    gas,         \* how many transactions the key can still pay for
    keeper,      \* keeper[k]: where instance k is in its loop
    userCalls, faults,
    bound        \* the bounds of this behaviour, chosen once

chainVars == <<joined, accepted, holding, deployed>>
boundVars == <<userCalls, faults, bound>>
keeperVars == <<chainVars, mempool, gas, keeper, boundVars>>

Idle(pc) == [pc |-> pc, unread |-> {}, todo |-> {}, seat |-> Nobody,
             queue |-> <<>>, nonce |-> "unread"]

KeeperInit ==
    /\ bound \in Bounds
    /\ joined = Seats
    /\ accepted = [v \in Vaults |-> FirstAccepted]
    /\ holding = [s \in Seats |-> {}]
    /\ deployed = {}
    /\ mempool = <<>>
    /\ gas = bound.purse
    /\ keeper = [k \in Keepers |-> Idle(IF k \in bound.instances THEN "asleep" ELSE "off")]
    /\ userCalls = 0 /\ faults = 0

-----------------------------------------------------------------------------
(* The two calls, VaultDepositAddressModule and SavingsVaultDepositProxy.  *)

Deploy(s) == [kind |-> "deploy", seat |-> s, token |-> Nobody]
Sweep(s, t) == [kind |-> "sweep", seat |-> s, token |-> t]

\* _deployDepositAddress, and sweep with the vault's depositFor behind it.
Succeeds(call) ==
    /\ call.seat \in joined
    /\ IF call.kind = "deploy"
       THEN call.seat \notin deployed
       ELSE /\ call.seat \in deployed
            /\ call.token \in holding[call.seat]
            /\ call.token \in accepted[VaultOf[call.seat]]

Effect(call) ==
    IF call.kind = "deploy"
    THEN deployed' = deployed \cup {call.seat} /\ UNCHANGED holding
    ELSE holding' = [holding EXCEPT ![call.seat] = @ \ {call.token}] /\ UNCHANGED deployed

\* isRace: the reverts "Already deployed" and "Nothing to sweep".
IsRace(call) ==
    IF call.kind = "deploy" THEN call.seat \in joined /\ call.seat \in deployed
    ELSE call.token \notin holding[call.seat]

-----------------------------------------------------------------------------
(* One instance.                                                           *)

At(k, pc) == keeper[k].pc = pc

\* Mutant: a failing member ends the cycle.
AbandonedCycle(k) == Idle("asleep")

\* The catch around one member: logged, counted, next member.
Abandoned(k) == [Idle("walking") EXCEPT !.todo = keeper[k].todo]

\* main and hasGas: a cycle begins unless the purse is nearly empty.
HasGas == gas >= MinGas

WakeUp(k) ==
    /\ At(k, "asleep") /\ HasGas
    /\ keeper' = [keeper EXCEPT ![k] = [Idle("listing") EXCEPT !.unread = Vaults]]
    /\ UNCHANGED <<chainVars, mempool, gas, boundVars>>

\* listMemberships: the members of one vault after the other, in any order.
ListVault(k, v) ==
    /\ At(k, "listing") /\ v \in keeper[k].unread
    /\ keeper' = [keeper EXCEPT
         ![k].unread = @ \ {v},
         ![k].todo = @ \cup {s \in joined : VaultOf[s] = v},
         ![k].pc = IF keeper[k].unread = {v} THEN "walking" ELSE "listing"]
    /\ UNCHANGED <<chainVars, mempool, gas, boundVars>>

\* Mutant: every member is deployed and swept, money or not.
FundedTokensAll(seen) == TokenOrder

\* fundedTokens: what the balances say; a token that cannot be read is empty.
FundedTokens(seen) == SelectSeq(TokenOrder, LAMBDA t : t \in seen)

Look(k, s, seen) ==
    /\ At(k, "walking") /\ s \in keeper[k].todo
    /\ seen = holding[s] \/ faults < bound.faults
    /\ faults' = IF seen = holding[s] THEN faults ELSE faults + 1
    /\ keeper' = [keeper EXCEPT
         ![k].todo = @ \ {s},
         ![k].seat = IF FundedTokens(seen) = <<>> THEN Nobody ELSE s,
         ![k].queue = FundedTokens(seen),
         ![k].pc = IF FundedTokens(seen) = <<>> THEN "walking" ELSE "ensuring"]
    /\ UNCHANGED <<chainVars, mempool, gas, userCalls, bound>>

EndCycle(k) ==
    /\ At(k, "walking") /\ keeper[k].todo = {}
    /\ keeper' = [keeper EXCEPT ![k] = Idle("asleep")]
    /\ UNCHANGED <<chainVars, mempool, gas, boundVars>>

\* ensureDepositAddress, up to its send.
Ensure(k) ==
    /\ At(k, "ensuring")
    /\ keeper' = [keeper EXCEPT ![k].pc =
                     IF keeper[k].seat \in deployed THEN "sweeping" ELSE "deploying"]
    /\ UNCHANGED <<chainVars, mempool, gas, boundVars>>

\* sweepToken, up to its send: the balance is read again.
NextToken(k) ==
    /\ At(k, "sweeping")
    /\ LET r == keeper[k] IN
       keeper' = [keeper EXCEPT ![k] =
           IF r.queue = <<>> THEN Abandoned(k)
           ELSE IF Head(r.queue) \in holding[r.seat] THEN [r EXCEPT !.pc = "paying"]
           ELSE [r EXCEPT !.queue = Tail(@)]]
    /\ UNCHANGED <<chainVars, mempool, gas, boundVars>>

Call(k) ==
    IF At(k, "deploying") THEN Deploy(keeper[k].seat)
    ELSE Sweep(keeper[k].seat, Head(keeper[k].queue))

\* What the callers of send do when the call is done, by them or another.
Settled(k, call) ==
    [keeper[k] EXCEPT !.pc = "sweeping", !.nonce = "unread",
                      !.queue = IF call.kind = "sweep" THEN Tail(@) ELSE @]

\* Sender._sendNow: the nonce is read ...
ReadNonce(k) ==
    /\ keeper[k].pc \in {"deploying", "paying"} /\ keeper[k].nonce = "unread"
    /\ keeper' = [keeper EXCEPT ![k].nonce = "fresh"]
    /\ UNCHANGED <<chainVars, mempool, gas, boundVars>>

\* ... and the transaction is simulated, signed and sent with it.  A nonce
\* that another instance has used since is refused.
Send(k) ==
    /\ keeper[k].pc \in {"deploying", "paying"} /\ keeper[k].nonce = "fresh"
    /\ Succeeds(Call(k)) /\ gas > Len(mempool)
    /\ Len(mempool) < bound.pending
    /\ mempool' = Append(mempool, [by |-> k, call |-> Call(k)])
    /\ keeper' = [j \in Keepers |->
         IF j = k THEN [keeper[k] EXCEPT !.pc = "waiting"]
         ELSE IF keeper[j].nonce = "fresh" THEN [keeper[j] EXCEPT !.nonce = "stale"]
         ELSE keeper[j]]
    /\ UNCHANGED <<chainVars, gas, boundVars>>

Refused(k) ==
    /\ keeper[k].pc \in {"deploying", "paying"} /\ keeper[k].nonce # "unread"
    /\ ~Succeeds(Call(k)) \/ keeper[k].nonce = "stale" \/ gas <= Len(mempool)
    /\ keeper' = [keeper EXCEPT ![k] =
                     IF IsRace(Call(k)) THEN Settled(k, Call(k)) ELSE Abandoned(k)]
    /\ UNCHANGED <<chainVars, mempool, gas, boundVars>>

-----------------------------------------------------------------------------
(* The chain, the people and the failures around it.                       *)

\* The receipt: a transaction that reverts on chain carries no reason, so it
\* is a failure even when the race was lost after sending.
Mine ==
    /\ mempool # <<>>
    /\ LET tx == Head(mempool)
       IN  /\ IF Succeeds(tx.call) THEN Effect(tx.call) ELSE UNCHANGED <<deployed, holding>>
           /\ keeper' = IF tx.by = Nobody THEN keeper
                        ELSE [keeper EXCEPT ![tx.by] =
                                 IF Succeeds(tx.call) THEN Settled(tx.by, tx.call)
                                 ELSE Abandoned(tx.by)]
    /\ mempool' = Tail(mempool)
    /\ gas' = gas - 1
    /\ UNCHANGED <<joined, accepted, boundVars>>

\* Nobody waits for the transactions of an instance that has gone.
Disowned(k) ==
    [i \in DOMAIN mempool |-> IF mempool[i].by = k THEN [mempool[i] EXCEPT !.by = Nobody]
                              ELSE mempool[i]]

\* A read fails: inside a member's turn the member is skipped, outside it the
\* cycle is (main never dies of it).
Fault(k) ==
    /\ faults < bound.faults
    /\ ~At(k, "off")
    /\ faults' = faults + 1
    /\ \/ /\ keeper[k].pc \in {"asleep", "listing"}
          /\ keeper' = [keeper EXCEPT ![k] = Idle("asleep")]
       \/ /\ At(k, "walking")
          /\ \E s \in keeper[k].todo : keeper' = [keeper EXCEPT ![k].todo = @ \ {s}]
       \/ /\ keeper[k].pc \in {"ensuring", "sweeping", "deploying", "paying", "waiting"}
          /\ keeper' = [keeper EXCEPT ![k] = Abandoned(k)]
    /\ mempool' = Disowned(k)
    /\ UNCHANGED <<chainVars, gas, userCalls, bound>>

\* Killed anywhere, or stopped by a signal between two cycles.
Stop(k) ==
    /\ ~At(k, "off")
    /\ keeper' = [keeper EXCEPT ![k] = Idle("off")]
    /\ mempool' = Disowned(k)
    /\ UNCHANGED <<chainVars, gas, boundVars>>

Start(k) ==
    /\ At(k, "off") /\ k \in bound.instances
    /\ keeper' = [keeper EXCEPT ![k] = Idle("asleep")]
    /\ UNCHANGED <<chainVars, mempool, gas, boundVars>>

TopUp ==
    /\ gas < bound.purse
    /\ gas' = bound.purse
    /\ UNCHANGED <<chainVars, mempool, keeper, boundVars>>

\* An exchange or a card pays to the address, deployed or not.
Arrive(s, t) ==
    /\ <<s, t>> \in bound.deposits /\ t \notin holding[s]
    /\ holding' = [holding EXCEPT ![s] = @ \cup {t}]
    /\ UNCHANGED <<joined, accepted, deployed, mempool, gas, keeper, boundVars>>

\* Anybody makes the keeper's calls.
UserCall(call) ==
    /\ userCalls < bound.userCalls
    /\ Succeeds(call)
    /\ Effect(call)
    /\ userCalls' = userCalls + 1
    /\ UNCHANGED <<joined, accepted, mempool, gas, keeper, faults, bound>>

\* joinVault, and leaveVault; only movers do.
Join(s) ==
    /\ s \in bound.movers \ joined
    /\ joined' = joined \cup {s}
    /\ UNCHANGED <<accepted, holding, deployed, mempool, gas, keeper, boundVars>>

Leave(s) ==
    /\ s \in bound.movers \cap joined
    /\ joined' = joined \ {s}
    /\ UNCHANGED <<accepted, holding, deployed, mempool, gas, keeper, boundVars>>

AddAcceptedToken(v, t) ==
    /\ t \notin accepted[v]
    /\ accepted' = [accepted EXCEPT ![v] = @ \cup {t}]
    /\ UNCHANGED <<joined, holding, deployed, mempool, gas, keeper, boundVars>>

KeeperStep(k) ==
    \/ WakeUp(k)
    \/ \E v \in Vaults : ListVault(k, v)
    \/ \E s \in Seats : \E seen \in SUBSET holding[s] : Look(k, s, seen)
    \/ EndCycle(k) \/ Ensure(k) \/ NextToken(k)
    \/ ReadNonce(k) \/ Send(k) \/ Refused(k)

World ==
    \/ Mine \/ TopUp
    \/ \E k \in Keepers : Fault(k) \/ Stop(k) \/ Start(k)
    \/ \E s \in Seats :
          \/ Join(s) \/ Leave(s) \/ UserCall(Deploy(s))
          \/ \E t \in Tokens : Arrive(s, t) \/ UserCall(Sweep(s, t))
    \/ \E v \in Vaults, t \in Tokens : AddAcceptedToken(v, t)

KeeperNext == World \/ \E k \in Keepers : KeeperStep(k)

\* A running instance goes on by itself and the chain mines what was sent.
\* Nobody is obliged to restart an instance, to fill the purse, to join, to
\* sweep or to accept a token.
KeeperSpec ==
    /\ KeeperInit /\ [][KeeperNext]_keeperVars
    /\ WF_keeperVars(Mine)
    /\ \A k \in Keepers : WF_keeperVars(KeeperStep(k))

-----------------------------------------------------------------------------
(* Properties.                                                             *)

\* The purse is never spent on an address with nothing on it: when a keeper's
\* deployment takes effect the money that made it worth paying for is still
\* there, whatever was read, raced, lost or restarted in between ("An address
\* is only deployed when something is actually sitting on it").
DeployPaysOff ==
    [][ \A s \in Seats :
           (Len(mempool') < Len(mempool) /\ s \in deployed' \ deployed) => holding[s] # {}
      ]_keeperVars

\* What a seat's own tokens may wait for: a token the vault does not take that
\* comes before t in the config throws the member's turn away.
Blocked(s, t) ==
    \E i, j \in DOMAIN TokenOrder :
        /\ TokenOrder[j] = t /\ i <= j
        /\ TokenOrder[i] \in holding[s] \ accepted[VaultOf[s]]

KeeperIsOut == gas < MinGas \/ \E k \in bound.instances : At(k, "off")

\* Self-healing: a deposit lands however it came about - before or after its
\* address was deployed, while no instance was running, in the middle of a
\* cycle, with reads that fail and lost races - unless its owner has left, the
\* vault does not take it or the keeper is out of gas or off.  Nobody else's
\* deposit, and no token behind it, can stop it (reconcileOnce).
DepositsLand ==
    \A s \in Seats, t \in Tokens :
        (t \in holding[s]) ~>
            (t \notin holding[s] \/ s \notin joined \/ Blocked(s, t) \/ KeeperIsOut)

=============================================================================
