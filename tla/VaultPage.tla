----------------------------- MODULE VaultPage -----------------------------
(***************************************************************************)
(* The page below the vault cards, on an EVM chain: which vault it works   *)
(* on, what it reads of that vault and shows, and what its buttons send.   *)
(*                                                                         *)
(* Selecting a card changes the vault of the transaction manager at once   *)
(* and what is on screen with the next render.  Reads, deposits,           *)
(* withdrawals and earning switches are asynchronous, ask the manager for  *)
(* the vault when they come to it, and outlive the section that began      *)
(* them.  Of what is read only the vault it is of is kept, and whether it  *)
(* was read after the page's own last transaction on that vault.           *)
(***************************************************************************)
EXTENDS Naturals, Sequences, Functions

CONSTANTS
    Vaults, Own,        \* the user's vaults; the savings vault among them
    Takes,              \* Takes[v]: the coins of v, in order
    Coins,
    Switchable,         \* the vaults whose earning this user may switch
    Deployed,           \* the vaults whose deposit address has its contract
    Picky,              \* coins that reject raising an allowance, like USDT
    Nothing,            \* no vault
    Slots,              \* handlers that may be running at a time
    Bounds              \* the bounds a behaviour may be under:
                        \* acts    what the user does, moves how often
                        \* amounts what is typed, wallet what there is of a coin
                        \* slots   the handlers that may run at a time
                        \* reads   the reads that are followed: of sections, of balances
                        \* arrivals (vault, coin) pairs that are paid in
                        \* faults  reads that fail and transactions refused

ASSUME PageAssumption ==
    /\ Own \in Vaults /\ Switchable \subseteq Vaults /\ Nothing \notin Vaults
    /\ \A v \in Vaults : Takes[v] \in Seq(Coins) \ {<<>>}
    /\ \A b \in Bounds : b.amounts \subseteq Nat /\ b.wallet \in Nat

VARIABLES
    active,      \* getActiveVaultAddress
    page,        \* what the page shows, and its busy flags
    local,       \* what the mounted sections are reading
    refreshes,   \* getAllBalances, while it is sweeping
    asked,       \* reads of limits and balances in flight, as they were asked
    ops,         \* handlers running
    wallet, allowance,   \* per coin
    arrived,     \* arrived[v]: the coins sitting on the deposit address
    earning,     \* earning[v]: the coins set to earn
    spoiled,     \* the coins of which a deposit broke off on its way
    moves, faults,
    bound        \* the bounds of this behaviour, chosen once

chainVars == <<wallet, allowance, arrived, earning>>
boundVars == <<moves, faults, bound>>
pageVars == <<active, page, local, refreshes, asked, ops, chainVars, spoiled, boundVars>>

NoOp == [kind |-> "none", pc |-> "none"]
Sections == {"address", "tokens", "earning", "requests"}

-----------------------------------------------------------------------------
(* What is on screen.                                                      *)

\* The sections of a vault, mounted afresh: the page keys them by the vault.
Mounted(p, v) ==
    [p EXCEPT !.screen = v, !.sections = [x \in Sections |-> Nothing], !.busy = {}]

\* Their effects; the deposit address waits for the wallet's address first.
MountReads(v) ==
    {[what |-> x, of |-> IF x = "address" THEN Nothing ELSE v] : x \in bound.reads \cap Sections}

\* checkAndSweepVaultProxy begins, for the vault that is active now.
Refresh(v) ==
    [of |-> v, pc |-> "look", todo |-> Takes[v], whole |-> v \in Deployed,
     owed |-> arrived[v] \cap Range(Takes[v])]

\* More refreshes, if the balances are followed.
With(rs, v) == IF "balances" \in bound.reads THEN rs \cup {Refresh(v)} ELSE rs

\* Handlers of a section that is gone run on, and set no state any more.
Unmounted(os) ==
    [s \in Slots |-> IF os[s] = NoOp THEN NoOp ELSE [os[s] EXCEPT !.alive = FALSE]]

PageInit ==
    /\ bound \in Bounds
    /\ active = Own
    /\ arrived = [v \in Vaults |-> {c \in Coins : <<v, c>> \in bound.arrivals}]
    /\ page = Mounted([screen |-> Own, committed |-> TRUE, sections |-> {}, busy |-> {},
                       limits |-> [of |-> Own, fresh |-> TRUE],
                       balances |-> [of |-> Nothing, fresh |-> TRUE],
                       disordered |-> FALSE, blind |-> FALSE], Own)
    /\ local = MountReads(Own)
    /\ refreshes = With({}, Own)
    /\ asked = <<>>
    /\ ops = [s \in Slots |-> NoOp]
    /\ wallet = [c \in Coins |-> bound.wallet]
    /\ allowance = [c \in Coins |-> 0]
    /\ earning = [v \in Vaults |-> {}]
    /\ spoiled = {}
    /\ moves = 0 /\ faults = 0

\* A call that may fail costs a fault.
MayFail(failed) ==
    /\ failed => faults < bound.faults
    /\ faults' = IF failed THEN faults + 1 ELSE faults

\* Mutant: the sections are not keyed by the vault.
KeptMounted(p, v) == [p EXCEPT !.screen = v]

Remounted(p, v) == Mounted(p, v)

\* The next render after a selection; the clock ticks every second.
Render ==
    /\ page.screen # active /\ page.committed
    /\ page' = Remounted(page, active)
    /\ local' = MountReads(active)
    /\ refreshes' = With(refreshes, active)
    /\ ops' = Unmounted(ops)
    /\ UNCHANGED <<active, asked, chainVars, spoiled, boundVars>>

\* checkProxyStatus: the wallet's address, then the active vault's, twice.  The
\* first answer only says that there is one, as there is for every vault: what
\* will be shown is asked for the vault that is active the second time.
AskAddress ==
    /\ [what |-> "address", of |-> Nothing] \in local
    /\ local' = (local \ {[what |-> "address", of |-> Nothing]})
                    \cup {[what |-> "address", of |-> active]}
    /\ UNCHANGED <<active, page, refreshes, asked, ops, chainVars, spoiled, boundVars>>

\* A failed read leaves the section empty, and any read before the last one may
\* fail.
AnswerSection(r, failed) ==
    /\ r \in local /\ (r.of = Nothing => failed)
    /\ MayFail(failed)
    /\ page' = [page EXCEPT !.sections[r.what] = IF failed THEN Nothing ELSE r.of]
    /\ local' = local \ {r}
    /\ UNCHANGED <<active, refreshes, asked, ops, chainVars, spoiled, moves, bound>>

-----------------------------------------------------------------------------
(* getAllBalances: sweep the deposit address, then read.                   *)

\* Mutant: only the first coin is swept.
FirstOnly(r) == [r EXCEPT !.todo = <<>>]

\* The coin is dealt with.
NextCoin(r) == [r EXCEPT !.todo = Tail(@), !.pc = "look"]

\* The catch: whatever fails ends the sweep, and not the refresh.
Aborted(r) == [r EXCEPT !.todo = <<>>, !.pc = "look", !.whole = FALSE]

Sweeping(r) == r.todo # <<>> /\ r.of \in Deployed

Replaced(r, q) == (refreshes \ {r}) \cup {q}

Look(r, failed) ==
    /\ r.pc = "look" /\ Sweeping(r)
    /\ MayFail(failed)
    /\ refreshes' = Replaced(r,
         IF failed THEN Aborted(r)
         ELSE IF Head(r.todo) \in arrived[r.of] THEN [r EXCEPT !.pc = "prompt"] ELSE NextCoin(r))
    /\ UNCHANGED <<active, page, local, asked, ops, chainVars, spoiled, moves, bound>>

SweepPrompt(r, yes) ==
    /\ r.pc = "prompt"
    /\ refreshes' = Replaced(r, IF yes THEN [r EXCEPT !.pc = "mine"] ELSE Aborted(r))
    /\ UNCHANGED <<active, page, local, asked, ops, chainVars, spoiled, boundVars>>

\* What was read of the vault before is out of date.
StaleIf(x, what, v) == [x EXCEPT !.fresh = @ /\ ~(what /\ x.of = v)]

Touch(p, v, limitsToo) ==
    /\ page' = [p EXCEPT !.balances = StaleIf(@, TRUE, v), !.limits = StaleIf(@, limitsToo, v)]
    /\ asked' = [i \in DOMAIN asked |->
                    StaleIf(asked[i], limitsToo \/ asked[i].what = "balances", v)]

\* The address is empty of c, by whoever's call.
Gone(rs, v, c) == {IF r.of = v THEN [r EXCEPT !.owed = @ \ {c}] ELSE r : r \in rs}

\* "Nothing to sweep" when somebody else was faster.
SweepMined(r) ==
    /\ r.pc = "mine"
    /\ LET c == Head(r.todo) IN
       IF c \in arrived[r.of]
       THEN /\ arrived' = [arrived EXCEPT ![r.of] = @ \ {c}]
            /\ refreshes' = Gone(Replaced(r, NextCoin(r)), r.of, c)
            /\ Touch(page, r.of, FALSE)
       ELSE /\ refreshes' = Replaced(r, Aborted(r))
            /\ UNCHANGED <<arrived, page, asked>>
    /\ UNCHANGED <<active, local, ops, wallet, allowance, earning, spoiled, boundVars>>

Question(what, s) == [what |-> what, of |-> active, fresh |-> TRUE, late |-> FALSE, op |-> s]

\* getActiveMembership, of the vault that is active by now.
AskBalances(r) ==
    /\ r.pc = "look" /\ ~Sweeping(r)
    /\ refreshes' = refreshes \ {r}
    /\ asked' = Append(asked, Question("balances", 0))
    /\ UNCHANGED <<active, page, local, ops, chainVars, spoiled, boundVars>>

\* An answer is in; the questions asked before it are late.
Answered(i) ==
    [j \in 1 .. Len(asked) - 1 |->
        IF j < i THEN [asked[j] EXCEPT !.late = @ \/ asked[j].what = asked[i].what]
                 ELSE asked[j + 1]]

Disorder(p, q, failed) ==
    [p EXCEPT !.disordered = @ \/ q.late, !.blind = @ \/ failed]

NoBalances == [of |-> Nothing, fresh |-> TRUE]

AnswerBalances(i, failed) ==
    /\ asked[i].what = "balances"
    /\ MayFail(failed)
    /\ page' = [Disorder(page, asked[i], failed) EXCEPT
                  !.balances = IF failed THEN NoBalances
                               ELSE [of |-> asked[i].of, fresh |-> asked[i].fresh]]
    /\ asked' = Answered(i)
    /\ UNCHANGED <<active, local, refreshes, ops, chainVars, spoiled, moves, bound>>

-----------------------------------------------------------------------------
(* The handlers.                                                           *)

Acts(what) == what \in bound.acts /\ moves < bound.moves /\ moves' = moves + 1

Free(s) == s \in bound.slots /\ ops[s] = NoOp /\ \A i \in bound.slots : i < s => ops[i] # NoOp
At(s, pc) == ops[s].pc = pc

\* A handler that was called when the page showed page.screen; it has an
\* excuse to work on another vault if the page had not caught up.
Op(kind, pc, v, coin, amount) ==
    [kind |-> kind, pc |-> pc, of |-> v, on |-> page.screen, excused |-> page.screen # active,
     coin |-> coin, amount |-> amount, txs |-> <<>>, alive |-> TRUE,
     crossed |-> FALSE]

\* isDepositing, isLoading, savingToken and saving.
FlagOf(kind) ==
    IF kind \in {"withdraw", "penalty", "bypass", "execute"} THEN "withdrawing" ELSE kind

Busy(p, kind) == [p EXCEPT !.busy = @ \cup {FlagOf(kind)}]

\* Mutant: nothing is cleared when a handler gives up.
FlagKept(p, o) == p

Finally(p, o) == IF o.alive THEN [p EXCEPT !.busy = @ \ {FlagOf(o.kind)}] ELSE p

\* A handler gives up: declined, refused or not to be done.
GivesUp(s) ==
    /\ page' = Finally(page, ops[s])
    /\ ops' = [ops EXCEPT ![s] = NoOp]

\* fetchWithdrawalData, when a handler of that section has succeeded; its
\* answer is not waited for here.
LastReads(o) ==
    IF o.alive /\ FlagOf(o.kind) = "withdrawing" /\ "requests" \in bound.reads
    THEN {[what |-> "requests", of |-> active]} ELSE {}

\* handleSelectVault, by a card that is not the current one.
SelectVault(s, v) ==
    /\ Acts("select") /\ page.committed
    /\ v # page.screen /\ Free(s)
    /\ active' = v
    /\ ops' = [i \in Slots |->
                 IF i = s THEN Op("select", "who", v, Nothing, 0)
                 ELSE IF ops[i] # NoOp /\ ops[i].kind = "deposit" /\ ops[i].pc = "network"
                 THEN [ops[i] EXCEPT !.excused = TRUE] ELSE ops[i]]
    /\ UNCHANGED <<page, local, refreshes, asked, chainVars, spoiled, faults, bound>>

\* The balances' own button.
PressRefresh ==
    /\ Acts("refresh") /\ page.committed
    /\ refreshes' = With(refreshes, active)
    /\ UNCHANGED <<active, page, local, asked, ops, chainVars, spoiled, faults, bound>>

\* deposit: any coin of the network, the section is not told the vault's.
PressDeposit(s, c, a) ==
    /\ Acts("deposit") /\ page.committed /\ "deposit" \notin page.busy /\ Free(s)
    /\ page' = Busy(page, "deposit")
    /\ ops' = [ops EXCEPT ![s] = Op("deposit", "network", Nothing, c, a)]
    /\ UNCHANGED <<active, local, refreshes, asked, chainVars, spoiled, faults, bound>>

\* Mutant: the savings vault whatever is selected.
SavingsVault == Own

RequireActiveVault == active

\* isCorrectNetwork and isConnected, and only then the vault.
Network(s, ok) ==
    /\ At(s, "network")
    /\ MayFail(~ok)
    /\ IF ok THEN /\ ops' = [ops EXCEPT ![s].of = RequireActiveVault, ![s].pc = "check"]
                  /\ UNCHANGED page
             ELSE GivesUp(s)
    /\ UNCHANGED <<active, local, refreshes, asked, chainVars, spoiled, moves, bound>>

\* The withdrawal section's buttons; only the penalty one heeds isLoading.
PressWithdrawal(s, kind, c) ==
    /\ Acts(kind) /\ page.committed /\ Free(s)
    /\ kind \in {"withdraw", "penalty", "bypass", "execute"}
    /\ kind = "penalty" => "withdrawing" \notin page.busy
    /\ page' = Busy(page, kind)
    /\ ops' = [ops EXCEPT ![s] = Op(kind, "check", RequireActiveVault, c, 0)]
    /\ UNCHANGED <<active, local, refreshes, asked, chainVars, spoiled, faults, bound>>

\* The dialog of one coin, or of the earning section: every coin of the vault.
PressEarning(s, kind, c, on) ==
    /\ Acts(kind) /\ page.committed /\ Free(s)
    /\ kind \in {"mode", "modes"} \ page.busy
    /\ "earning" \in bound.reads => page.sections["earning"] # Nothing
    /\ page' = Busy(page, kind)
    /\ ops' = [ops EXCEPT ![s] = Op(kind, "check", RequireActiveVault, c, on)]
    /\ UNCHANGED <<active, local, refreshes, asked, chainVars, spoiled, faults, bound>>

\* _resolveVaultToken: named and held, or the only one.
Resolves(o) ==
    CASE o.kind = "penalty" -> Len(Takes[o.of]) = 1
      [] o.kind \in {"execute", "modes"} -> TRUE
      [] OTHER -> o.coin \in Range(Takes[o.of])

Tx(call, o, c) == [call |-> call, coin |-> c, amount |-> o.amount]

\* setYieldMode without a coin means all of them.
Targets(o) == IF o.kind = "mode" THEN <<o.coin>> ELSE Takes[o.of]

Transactions(o) ==
    CASE o.kind \in {"mode", "modes"} ->
            [i \in DOMAIN Targets(o) |-> Tx("mode", o, Targets(o)[i])]
      [] OTHER -> <<Tx(o.kind, o, o.coin)>>

\* getVaultInfo, and the balance the adapter checks beforehand.
Check(s, failed) ==
    /\ At(s, "check")
    /\ MayFail(failed)
    /\ LET o == ops[s]
           good == Resolves(o) /\ (o.kind = "deposit" => wallet[o.coin] >= o.amount)
       IN  IF failed \/ ~good THEN GivesUp(s)
           ELSE /\ ops' = [ops EXCEPT
                       ![s].pc = IF o.kind = "deposit" THEN "allowance" ELSE "prompt",
                       ![s].txs = IF o.kind = "deposit" THEN <<>> ELSE Transactions(o)]
                /\ UNCHANGED page
    /\ UNCHANGED <<active, local, refreshes, asked, chainVars, spoiled, moves, bound>>

\* Mutant: more than this deposit needs is approved.
ApprovesSpare(o) == o.amount + 1

ApprovedFor(o) == o.amount

\* The allowance is read, and what it takes to deposit follows from it.
ReadAllowance(s) ==
    /\ At(s, "allowance")
    /\ LET o == ops[s]
           enough == allowance[o.coin]
           reset == IF enough > 0 THEN <<[call |-> "approve", coin |-> o.coin, amount |-> 0]>>
                    ELSE <<>>
           approve == <<[call |-> "approve", coin |-> o.coin, amount |-> ApprovedFor(o)]>>
       IN ops' = [ops EXCEPT ![s].pc = "prompt",
                    ![s].txs = (IF enough < o.amount THEN reset \o approve ELSE <<>>)
                               \o <<Tx("deposit", o, o.coin)>>]
    /\ UNCHANGED <<active, page, local, refreshes, asked, chainVars, spoiled, boundVars>>

\* A deposit that ends before its last transaction landed.
Spoils(o) == spoiled' = IF o.kind = "deposit" THEN spoiled \cup {o.coin} ELSE spoiled

Prompt(s, yes) ==
    /\ At(s, "prompt")
    /\ IF yes THEN ops' = [ops EXCEPT ![s].pc = "mine"] /\ UNCHANGED <<page, spoiled>>
              ELSE GivesUp(s) /\ Spoils(ops[s])
    /\ UNCHANGED <<active, local, refreshes, asked, chainVars, boundVars>>

\* What the chain refuses whatever the day.
Lands(o, tx) ==
    CASE tx.call = "approve" -> tx.amount = 0 \/ allowance[tx.coin] = 0 \/ tx.coin \notin Picky
      [] tx.call = "deposit" -> wallet[tx.coin] >= tx.amount /\ allowance[tx.coin] >= tx.amount
      [] tx.call = "mode" -> o.of \in Switchable
      [] OTHER -> TRUE

\* Withdrawals change what is read of the vault, and leave through the rules
\* that the other modules are about: here the chain takes them or refuses.
Effect(o, tx) ==
    /\ allowance' = CASE tx.call = "approve" -> [allowance EXCEPT ![tx.coin] = tx.amount]
                      [] tx.call = "deposit" -> [allowance EXCEPT ![tx.coin] = @ - tx.amount]
                      [] OTHER -> allowance
    /\ wallet' = IF tx.call = "deposit" THEN [wallet EXCEPT ![tx.coin] = @ - tx.amount] ELSE wallet
    /\ earning' = IF tx.call # "mode" THEN earning
                  ELSE [earning EXCEPT ![o.of] = IF o.amount > 0 THEN @ \cup {tx.coin}
                                                 ELSE @ \ {tx.coin}]
    /\ IF tx.call \in {"deposit", "withdraw", "penalty", "execute"}
       THEN Touch(page, o.of, TRUE) ELSE UNCHANGED <<page, asked>>

\* Mutant: a deposit does not tell the page.
AfterTransactionsSilent(o) == IF o.kind \in {"mode", "modes"} THEN "saved" ELSE "end"

AfterTransactions(o) ==
    CASE o.kind \in {"mode", "modes"} -> "saved"
      [] o.kind = "bypass" -> "end"
      [] OTHER -> "who"

Mined(s, refused) ==
    /\ At(s, "mine")
    /\ LET o == ops[s]
           tx == Head(o.txs)
           more == Tail(o.txs)
           next == IF more # <<>> THEN "prompt" ELSE AfterTransactions(o)
           crossed == tx.call = "mode"
       IN  /\ MayFail(refused)
           /\ IF refused \/ ~Lands(o, tx)
              THEN /\ GivesUp(s) /\ Spoils(o)
                   /\ UNCHANGED <<local, asked, wallet, allowance, earning>>
              ELSE /\ Effect(o, tx)
                   /\ ops' = [i \in Slots |->
                        IF i = s
                        THEN IF next = "end" THEN NoOp ELSE [o EXCEPT !.txs = more, !.pc = next]
                        ELSE IF crossed /\ ops[i] # NoOp /\ ops[i].of = o.of
                        THEN [ops[i] EXCEPT !.crossed = TRUE] ELSE ops[i]]
                   /\ local' = IF next = "end" THEN local \cup LastReads(o) ELSE local
                   /\ UNCHANGED spoiled
    /\ UNCHANGED <<active, refreshes, arrived, moves, bound>>

\* The earning status is read again, of the vault that is active by then.
Reload(s) ==
    /\ At(s, "saved")
    /\ ops' = [ops EXCEPT ![s].pc = "reload", ![s].of = active]
    /\ UNCHANGED <<active, page, local, refreshes, asked, chainVars, spoiled, boundVars>>

\* The dialog of one coin has the balances read again too.
Reloaded(s, failed) ==
    /\ At(s, "reload")
    /\ MayFail(failed)
    /\ LET o == ops[s] IN
       /\ page' = IF o.alive
                   THEN [Finally(page, o) EXCEPT
                            !.sections["earning"] = IF failed THEN Nothing ELSE o.of]
                   ELSE page
       /\ ops' = [ops EXCEPT ![s] = IF o.kind = "mode" THEN [o EXCEPT !.pc = "who"] ELSE NoOp]
    /\ UNCHANGED <<active, local, refreshes, asked, chainVars, spoiled, moves, bound>>

\* fetchSpendingLimits: the wallet's address, then the active vault's limits.
AskLimits(s) ==
    /\ At(s, "who") \/ At(s, "who2")
    /\ asked' = Append(asked, Question("limits", s))
    /\ ops' = [ops EXCEPT ![s].pc = IF @ = "who" THEN "limits" ELSE "limits2"]
    /\ UNCHANGED <<active, page, local, refreshes, chainVars, spoiled, boundVars>>

\* Whoever asked for the limits has the balances read next; a withdrawal then
\* asks for the limits once more.
Again(o) == o.pc = "limits" /\ o.kind \in {"withdraw", "penalty", "execute"}

\* A failed read means no limits and, for the page, not locked in: the cards
\* and sections go, until another read brings them back.
AnswerLimits(i, failed) ==
    /\ asked[i].what = "limits"
    /\ MayFail(failed)
    /\ LET s == asked[i].op
           o == ops[s]
           back == ~failed /\ ~page.committed
           hidden == failed /\ page.committed
           p == [Disorder(page, asked[i], failed) EXCEPT
                   !.committed = ~failed,
                   !.limits = IF failed THEN [of |-> Nothing, fresh |-> TRUE]
                              ELSE [of |-> asked[i].of, fresh |-> asked[i].fresh]]
           now == [ops EXCEPT ![s] = IF Again(o) THEN [o EXCEPT !.pc = "who2"] ELSE NoOp]
       IN  /\ page' = IF back \/ hidden THEN Mounted(p, active)
                      ELSE IF Again(o) THEN p ELSE Finally(p, o)
           /\ local' = IF back THEN MountReads(active) ELSE IF hidden THEN {}
                       ELSE IF Again(o) THEN local ELSE local \cup LastReads(o)
           /\ refreshes' = IF ~failed /\ (back \/ o.pc = "limits")
                           THEN With(refreshes, active) ELSE refreshes
           /\ ops' = IF back \/ hidden THEN Unmounted(now) ELSE now
    /\ asked' = Answered(i)
    /\ UNCHANGED <<active, chainVars, spoiled, moves, bound>>

\* The keeper, or anybody, empties a deposit address.
Keeper(v, c) ==
    /\ Acts("keeper") /\ v \in Deployed /\ c \in arrived[v]
    /\ arrived' = [arrived EXCEPT ![v] = @ \ {c}]
    /\ refreshes' = Gone(refreshes, v, c)
    /\ UNCHANGED <<active, page, local, asked, ops, wallet, allowance, earning, spoiled, faults, bound>>

-----------------------------------------------------------------------------

\* What the page and the chain do by themselves.
PageWorks ==
    \/ Render \/ AskAddress
    \/ \E r \in refreshes : SweepMined(r) \/ AskBalances(r)
    \/ \E s \in Slots : ReadAllowance(s) \/ Reload(s) \/ AskLimits(s)
    \/ \E failed \in BOOLEAN :
          \/ \E r \in local : AnswerSection(r, failed)
          \/ \E r \in refreshes : Look(r, failed)
          \/ \E i \in DOMAIN asked : AnswerBalances(i, failed) \/ AnswerLimits(i, failed)
          \/ \E s \in Slots : \/ Network(s, failed) \/ Check(s, failed)
                              \/ Mined(s, failed) \/ Reloaded(s, failed)

Others ==
    \/ PressRefresh
    \/ \E r \in refreshes, yes \in BOOLEAN : SweepPrompt(r, yes)
    \/ \E s \in Slots :
          \/ \E yes \in BOOLEAN : Prompt(s, yes)
          \/ \E v \in Vaults : SelectVault(s, v)
          \/ \E c \in Coins :
                \/ \E a \in bound.amounts : PressDeposit(s, c, a)
                \/ \E k \in {"withdraw", "penalty", "bypass", "execute"} : PressWithdrawal(s, k, c)
                \/ \E k \in {"mode", "modes"}, on \in {0, 1} : PressEarning(s, k, c, on)
    \/ \E v \in Vaults, c \in Coins : Keeper(v, c)

PageNext == PageWorks \/ Others

\* Answers come and transactions are mined; nobody has to press or to sign.
PageSpec == PageInit /\ [][PageNext]_pageVars /\ WF_pageVars(PageWorks)

-----------------------------------------------------------------------------
(* Properties.                                                             *)

PageTypeOK ==
    /\ active \in Vaults /\ page.screen \in Vaults
    /\ \A x \in Sections : page.sections[x] \in Vaults \cup {Nothing}
    /\ \A c \in Coins : wallet[c] \in Nat /\ allowance[c] \in Nat
    /\ \A i \in DOMAIN asked : asked[i].what = "limits" => At(asked[i].op, "limits") \/ At(asked[i].op, "limits2")

\* What the app may pull from the wallet is no more than deposits on their way
\* will take: of an approval nothing is left unless a deposit of that coin
\* broke off, however many deposits share the allowance (depositToVault).
DepositOnItsWay(s, c) ==
    ops[s].kind = "deposit" /\ ops[s].pc \in {"prompt", "mine"} /\ ops[s].coin = c

NothingLeftApproved ==
    \A c \in Coins : allowance[c] > 0 => c \in spoiled \/ \E s \in Slots : DepositOnItsWay(s, c)

\* Once the page has rendered, what its sections hold - the deposit address
\* first of all - is of the vault on screen, however slow an answer was and
\* however often the selection changed ("The key remounts these sections on
\* vault switch so each one refetches its data", App.js).
SectionsFollowTheVault ==
    /\ PageTypeOK
    /\ page.screen = active /\ page.committed =>
          \A x \in Sections : page.sections[x] \in {Nothing, page.screen}

\* When nothing is under way, limits and balances are of the selected vault
\* and not older than the page's own last transaction on it, and the page
\* knows that it is locked in, unless a read failed or answers came in another
\* order than their questions.
AtRest ==
    /\ asked = <<>> /\ refreshes = {} /\ page.screen = active
    /\ \A s \in Slots : ops[s] = NoOp

RestsOnTheSelectedVault ==
    "balances" \in bound.reads /\ AtRest /\ ~page.disordered /\ ~page.blind =>
        /\ page.committed
        /\ page.limits = [of |-> active, fresh |-> TRUE]
        /\ page.balances = [of |-> active, fresh |-> TRUE]

\* What a wallet is asked to sign concerns the vault that was on screen when
\* the button was pressed, unless the page had not caught up with a selection
\* or the selection changed before the deposit came to look.
ActsOnWhatWasPressed ==
    \A s \in Slots :
        ops[s].pc \in {"prompt", "mine"} => ops[s].of = ops[s].on \/ ops[s].excused

\* Switching the earning of a whole vault leaves no coin behind: when the
\* handler has succeeded every coin of that vault is set as asked, unless
\* another switch crossed it ("with no coin named this applies to all of
\* them", setYieldMode).
SwitchedForEveryCoin ==
    \A s \in Slots :
        ops[s].pc = "saved" /\ ops[s].kind = "modes" /\ ~ops[s].crossed =>
            earning[ops[s].of] = IF ops[s].amount > 0 THEN Range(Takes[ops[s].of]) ELSE {}

\* A refresh whose sweep was not cut short leaves no coin of the vault on the
\* deposit address that was there when it began, whoever else sweeps
\* ("sweeping only the first would strand the rest", checkAndSweepVaultProxy).
SweepsEveryCoin ==
    \A r \in refreshes : r.todo = <<>> /\ r.whole => r.owed = {}

\* What is done coin by coin, in a loop that may break off and that others
\* cross, is done for every coin or is known not to be (checkAndSweepVaultProxy,
\* setYieldMode).
EveryCoin == SwitchedForEveryCoin /\ SweepsEveryCoin

\* The deposit button comes back by itself, whatever fails on the way, unless
\* a signature is still asked for.
DepositComesBack ==
    "deposit" \in page.busy ~> ("deposit" \notin page.busy \/ \E s \in Slots : At(s, "prompt"))
=============================================================================
