# Verification of LockIn Wallet

LockIn Wallet is a savings wallet whose rules are enforced by contracts. A user
picks spending limits per period, locks them in, and from then on can loosen
them only through proposals that wait, leave early only by a bypass that waits,
and recover from a stolen key without getting out of the limits. Around the
contracts are a keeper that brings deposits home, a page that runs in a browser,
and a second implementation for Solana. This directory models all four in TLA+,
checks the models with TLC on small instances and proves with TLAPS, for every
instance, the central facts about the spending rules, the recovery keys, the
approved destinations and the account composed of them, and about the Solana
program, the wallet session and the page.

`tlc -workers 2 -config <run>.cfg <module>` repeats a run, `tlapm <module>.tla`
a proof; `PROJECT.json` lists runs, theorems and, for every definition, the
lines of code it stands for.

## 1. The system

### The contracts

Every contract call is a transaction: the chain runs it to the end or reverts it
altogether, and calls of different users interleave in any order. Time passes
between transactions (`block.timestamp`). There are no messages to lose and no
crashes. What is hard is the *sequence* of legal calls - of the account key, the
recovery key, other members, and passers-by, for many calls are permissionless -
over state that is spread over eight contracts and changes meaning with time.

| Component (`src/ethereum/contracts/`) | State | Operations | Talks to |
|---|---|---|---|
| `TimePeriodLimitsModule` | per scope: periods with limit, duration, counter, start of the window; waits; percentage flag | write one or many periods, check and spend, check and spend around a bypassed period, copy to another address, remove, change | `ProposalSystemModule` (is it locked in, refresh the locked value) |
| `ProposalSystemModule` | per scope: locked in or not, total locked value, proposals | lock in, propose (limit, wait, removal), execute, cancel, hand on | the limits |
| `RecoverySystemModule` | recovery key, pending key, pending change, frozen, recovered, recovered to | propose, accept, rotate, timelocked change, veto, freeze, unfreeze, recover | core (balances), limits and proposals (hand on the rules) |
| `ApprovalSystemModule` | approved destinations, requests | request, add before lock-in, execute, cancel, remove | lock-in and freeze are read |
| `BypassSystemModule` | bypass requests | request, execute, cancel, consume for a vault | limits, core |
| `SavingsCore` | balances, the tokens, the module registry | deposit, withdraw, withdrawTo, credit and debit for modules | all of the above |
| `SavingsVaultModule` | vaults, members, balances, totals, penalty accumulator, the tokens | create, join, leave, deposit, withdraw, withdraw with penalty, claim, bypass, earn | limits and proposals under the scope of a member, bypass, yield |
| `VaultRulesModule` | none | proposals for a personal vault | proposals |
| `VaultYieldModule` | per vault and token: shares, principal, owed yield, fees, deficit, accumulator | invest, bring back, accrue, settle, divest, realise and sweep fees | vaults (balances), strategy |
| `AaveV3Strategy` | shares | deposit, withdraw, redeem | the lending pool |

A *scope* is an address the limits are kept under: an account, or one member of
one vault (a hash of both, `SavingsVaultModule._scope`).

### Around the contracts

| Component | State | Operations | Talks to |
|---|---|---|---|
| deposit addresses (`VaultDepositAddressModule`, `SavingsVaultDepositProxy`) | deployed or not, the tokens on them | deploy, sweep; both by anybody | the vaults |
| the keeper (`src/keeper`) | where it is in its loop; one key with its nonce and purse; nothing persisted | list members, read balances, deploy, sweep, wait for the receipt | the chain, over calls that may fail |
| `savings-core` (`src/solana/programs`) | vault, members, a rule proposal, bypasses, destinations | create, join, deposit, three ways of withdrawing, claim, leave, change rules | - |
| the wallet session (`App.js`, `walletProvider.js`, `passkeyWallet.js`, `useNetworkManager.js`, `TransactionManager.js`) | the wallets, `localStorage`, the page, the connections in flight | reconnect, connect, sign in, log out, switch network, lock in, remember and select a vault | extension and hosted wallet, the chain |
| the vault page (`DepositInterface.js`, `BalanceDisplay.js`, `WithdrawalInterface.js`, `YieldSection.js`, `EVMAdapter.js`) | the selection, what is shown, handlers and reads in flight, allowances | select, refresh and sweep, deposit, withdraw, request and execute a bypass, switch earning | the session's manager, the chain |

Here things run concurrently and fail. The keeper acts on what it read a moment
ago, beside other sweepers, and may be killed anywhere. The page is a set of
asynchronous handlers that outlive the section that started them, ask which vault
is selected whenever they come to need it, and whose answers overtake each other;
wallets emit events, prompts stay open, timers fire with values of an earlier
render.

The other parts of the repository - referrals, the governance timelock, the
account's own deposit proxies, the earlier vault module with prize savings, the
Solana adapter and its deposit proxy, forms and static pages - are in section 6,
and in `PROJECT.json` with the reason.

What makes each correct, in a sentence:

- *Spending rules*: after lock-in nothing makes more room but a proposal that
  has served its wait, and no rewrite, refresh, bypass or move forgives what was
  spent in a window that has not run out.
- *Recovery keys*: recovery is final; an active recovery key falls only to
  itself or to a served timelock; a frozen account key is powerless.
- *Account*: whatever leaves is metered or waited for; the core holds what it
  owes; a recovery is no way out of the limits.
- *Destinations*: after lock-in only a request that waited makes one valid.
- *Vaults*: everything owed is covered; rewards come from those who left early;
  nothing leaves without a reason; members share the creator's terms.
- *Keeper*: what sits on an address lands, whatever fails for somebody else; gas
  is spent only where money is.
- *Solana vault*: it can pay what it owes; two limits per stretch at the most,
  and one more for each account opened in it; leaving forfeits nothing; the rules
  in force are rules that may be created.
- *Session*: logged out stays logged out; the personal vault it calls yours is
  yours, and the one it acts on exists, on the chain it reads; reconnecting ends.
- *Page*: what is on screen and what is signed is of the vault on screen; an
  approval does not outlive its deposit; what is done coin by coin is done for
  every coin; buttons come back.

## 2. The modules

| Module | Models | Composes |
|---|---|---|
| `SpendingRules` | `TimePeriodLimitsModule` and `ProposalSystemModule` | - |
| `SpendingWindows` | the same, with a ledger of what was metered and when | extends `SpendingRules` |
| `RecoveryKeys` | `RecoverySystemModule` without the funds | - |
| `RecoveryKeysHistory` | the same, with two history variables | extends `RecoveryKeys` |
| `WithdrawalAddresses` | `ApprovalSystemModule` (destinations) | - |
| `SavingsAccount` | `SavingsCore`, `BypassSystemModule`, `recoverOwnership` | extends `SpendingRules`, instances of `RecoveryKeys` and `WithdrawalAddresses` |
| `VaultLedger` | the books: penalties, `VaultYieldModule`, `AaveV3Strategy` as functions from books to books | - |
| `SavingsVault` | `SavingsVaultModule`, `VaultRulesModule` and its callers | extends `VaultLedger`, an instance of `SpendingRules` |
| `DepositKeeper` | `src/keeper` and the deposit addresses | - |
| `SolanaVault` | the `savings-core` program | - |
| `WalletSession` | wallets, connections, `localStorage`, the transaction manager's vault | - |
| `VaultPage` | the sections below the vault cards and what they send | - |
| `SumTheorems` | lemmas about sums over finite sets, and about meters | used by the proofs of windows, funds and the Solana program |
| `SpendingRules_proofs` | theorems, also of `SpendingWindows` | extends `SpendingWindows`, `SumTheorems` |
| `RecoveryKeysHistory_proofs` | theorems, also of `RecoveryKeys` | extends `RecoveryKeysHistory` |
| `SavingsAccount_proofs` | theorems of `WithdrawalAddresses` and of the composition | extends `SavingsAccount` and `SpendingRules_proofs`, an instance of the keys' proofs |
| `SavingsVault_proofs` | theorems, also of `VaultLedger` | extends `SavingsVault`, `SumTheorems`, an instance of `SpendingRules_proofs` |
| `SolanaVault_proofs`, `VaultPage_proofs`, `WalletSession_proofs` | theorems | extend their modules |
| `MC...` | model values and symmetry for TLC | extend theirs |

In the contracts one action is one transaction, and carries the name of the contract function;
its guard is the conjunction of the function's `require`s and what its callees
require. A call that reverts changes nothing and is no action. Actions of
`SpendingRules` that other contracts call (`CheckAndSpend`,
`UpdateSpendingWithBypass`, `MigratePeriodsTo`, `MigrateSetupTo`, `WriteBatch`,
`Commit`) constrain only the variables they name, so that the caller's action
conjoins them as the caller's function calls them. The other direction is
`AccountStep`, `VaultStep` and `CustodianStep`, which stand for everything a
caller may do to a scope; `ImplementsRules` in `SavingsAccount` and in
`SavingsVault` is the refinement that says they do not do more. In the same way
`WithdrawalAddresses` lets lock-in and freeze change freely (`Elsewhere`) and
`ImplementsAddresses` shows that the real ones fit.

Where the correspondence is not one to one:

- Arrays of periods, members, requests and destinations are functions and sets;
  nothing depends on their order. A destination is the number of its active
  entries, because the contract can hold duplicates.
- The name of a period stays taken after a removal, as in the code
  (`_findPeriodIndex` looks at inactive ones too).
- A proposal or bypass is identified by the fields whose hash is its id, so that
  a second one in the same second is refused or overwrites as in the code.
- A batch of periods is a function from names: of a name mentioned twice the
  last mention wins, which is what writing them in turn does.
- Decimals are the factors `Up` and `Down`, and `ToLimitUnits`, `ToDollars` and
  `FromDollars` divide as the code does. All divisions round as in the code.
- `VaultLedger` steps are pure because a transaction runs several on the same
  books - settle, snapshot, invest - and their order is what matters. Each has
  its revert condition beside it (`CanRedeem`, `CanInvest`, ...).
- Unsigned subtraction that would revert is a guard (`ExecuteLimitProposal`,
  `periodCount[s] > 0`).

- In the keeper and the page one action is one step between two awaits; a read
  answers or fails, a prompt is answered, declined or left open. What a handler
  asks for *when it comes to it* (the active vault, mostly) is read in that step
  and not before.
- A handler of the page is one record: what it is, for which vault, coin and
  amount, the transactions it still has to send, and whether its section is
  still mounted. The different buttons of the withdrawal section share actions,
  because they share their handler's shape; their differences are in `Resolves`,
  `Transactions` and `AfterTransactions`.
- Of what the page has read only the vault it is of and its freshness are kept:
  the properties are about which vault, not about which figure.
- Nonces in `DepositKeeper` are relative: what counts is whether another
  transaction of the key went out since one was read.
- The keeper, the Solana vault, the session and the page are each looked at under
  several *bounds*, a constant set of records from which a behaviour picks one at
  the beginning and keeps it (`bound`, chosen in `Init`, changed by nothing): what
  people do in it, with which amounts, how many handlers and faults. The code is
  the same under all; only its surroundings are smaller.

Assumed of the contracts: development mode is off; tokens revert on failure and
take no fee, as the deployed stablecoins do; no native coin; all modules are
registered. The owner's powers (upgrades, registration, migration setters,
emergency setters) are not part of the models: they can do anything. Assumed of
the page: an EVM chain; reloading or closing it in the middle of a handler is in
`WalletSession` and not in `VaultPage`; whether a withdrawal is allowed is a
choice there, because the other modules are about it.

## 3. What is checked

Every property of a passing run has a mutant in `PROJECT.json`: a definition
of the model, changed as a plausible bug would change it, under which TLC finds
the property violated in the same instance. Each bound is therefore large enough
for the case the property is about to happen. The clock, deposits, proposals and
requests are bounded by `MaxTime`, `MaxHeld`, `MaxProposals`, `MaxBypasses`,
`MaxRequests`, `MaxEntries`, `MaxPenalties`, `MaxInterest` and `MaxLoss`, and what
the lending pool rounds away of supplies by `Roundings` and `RoundedOnce`; the
models stop when these are used up, but time-independent calls keep them from
deadlock, which is checked. Three really stop and are checked without: the page
and the session when their user does, and the Solana vault when everybody has left
it and no visit is left to make (`visits`).

| Run | Instance | Shows |
|---|---|---|
| `rules_recovery` | two accounts, one period two moments long, waits of one moment, of two and too short, a proposal, a ledger | locked rules move only by a served proposal; the counter always holds its window; no stretch as long as a window sees more than twice the limit; lock-in, counters and waits survive recovery; room never grows for free |
| `rules_vault` | a personal vault, a creator and a joiner, percentages on and off | whoever joins is locked in under the creator's terms, and nobody moves the terms of one member |
| `keys_history` | two accounts and a cold key, every address as candidate, a timelock of two | recovery is final; a key falls to itself or to a notice that was asked for, not vetoed and served in full since the last request; a proposal beside a key was made under it; a frozen account key is powerless |
| `account_recovery` | two accounts that are frozen, recovered and pay out, a token with fewer decimals than six, one period, one destination; of limits and destinations one is in use in a behaviour (`LimitsOrAddresses`) | solvency; nothing leaves unmetered or unwaited; freeze; limits across recovery; new destinations wait; implements the spending rules and the withdrawal addresses |
| `account_payout` | one account | the first violation of section 4 |
| `vault_funds` | a community vault of three, two stablecoins, two penalties | books balance; everything owed is covered; rewards come from leavers; implements the spending rules |
| `vault_yield` | a personal vault that earns, loses, pays fees, bypasses, with a proposal; a supply is rounded once (`RoundedOnce`) and an account frozen (`CalmFreeze`) while nothing is about that does not touch it: a proposal, for the freeze a loss | coverage with interest, rounding and losses; every outflow has a reason |
| `vault_shared` | two vaults in one strategy, a loss | the second violation of section 4 |
| `keeper` | one vault, two members, two tokens of which one is not accepted at first; one instance among faults, other sweepers and people who leave; two instances at one deposit | gas is spent where money is; deposits land |
| `solana` | three members who share penalties; windows of each kind and of percentages, with members who leave and join again; rules that change; bypasses, destinations and a treasury | solvency but for the dust of rounded debts, books, limits over any stretch, a reason for each outflow and a receiver for each penalty, leaving, sound rules |
| `session` | an extension with two accounts, a passkey, events of both wallets, two chains with a contract and one without, up to three connections in flight, one failing read | what is remembered, logging out, the vault one calls one's own, no half-connected provider; reconnecting ends |
| `page` | a savings vault of two coins and a pot of one; two handlers at a time; deposits, sections, withdrawals, sweeps, earning each with selections and failures | every coin gets its turn; nothing is left approved; sections, reads and actions follow the selected vault; the deposit button comes back |

The type invariants are checked where they cost no run of their own: as the first
conjunct of `CoreCoversBalances`, `MembersCovered`, `OwedIsCovered`,
`NoHalfConnectedProvider` and `SectionsFollowTheVault`. `RulesTypeOK`,
`KeysTypeOK`, `AddressesTypeOK` and `SpentIsForgottenOnlyByTime` are proved
instead, for all constants.

Why these sizes: the rules of a scope touch another scope only by a copy, so two
scopes show every interaction; the order of windows never matters, so one or two
do; a window of two moments and a clock of three has a middle, an end and a
moment after. Penalties need a payer and two sharers, hence three members, and
amounts for which the division of a penalty does not come out even. The vault
runs hold the precision of the accumulators low, so that rounding is as coarse
as it can be. `vault_yield` has one vault in the strategy, since with several
`MembersCovered` is false after a loss (section 4).

`MembersCovered` allows `Dust`, one unit per sharer and penalty: a share that is
settled late rounds the accumulated sum and not each part. A loss of the lending
pool is missing from the assets exactly once. What the pool rounds away of a supply
stays in the pool but is not among the strategy's assets (`TotalAssets`), and shares
are issued on what was gained and not on what was sent
(`AaveV3Strategy.sol:63-69,108-115`); `vault_yield` has a pool that does.

Why the last four have the size they have: two handlers, two members, two
instances are the least that can cross, and each hazard needs two parties; three
connections are needed once, for a sign-in beside two silent ones. A lost race
needs one other sweeper, a half-done loop two coins, a shared allowance two
amounts. Three moves - select, press, select back - are the longest way in which
a late answer can meet the vault it is not of. Ids of vaults repeat from chain to
chain, hence two chains with the first id taken by a stranger on one.

### Fairness

The contracts promise what happens *if* a call is made; nobody is obliged to
make one. The progress that matters there - a matured bypass can be executed - is
a state property (`MaturedBypassPays`). Liveness is claimed of programs that run:

- `DepositKeeper`: weak fairness of every instance's step (a Node process in
  `while (!stopping)` on a timer) and of mining. Nobody has to restart an
  instance, fill the purse, join or sweep, so `DepositsLand` excepts a keeper that
  is off or out of gas, an owner who left, and a token that the vault does not
  take. Faults are finite: a read that always fails refutes any such property.
- `WalletSession` and `VaultPage`: weak fairness of what the page does by itself
  (callbacks, timers, answers, mined transactions). Pressing, signing, declining
  and answering prompts are nobody's duty, and the properties end at a prompt.
  The disjunction is fair as a whole, which is the least the event loop gives;
  the steps it contains cannot go on for ever without the user.

## 4. Where the code and its documents disagree

Two runs end in a violation, each of a property that a document of the
repository states:

- `account_payout`: `executeBypassWithdrawal` debits the core's balance but pays
  from the bypass module's own tokens. No contract moves tokens there, so a
  matured bypass of an account reverts - or, after somebody sent tokens there,
  pays from those and leaves the core's behind. `SECURITY.md:29-31` calls the
  bypass the guarantee of a full exit. (Vault members' bypasses pay from the
  vault and are not affected.)
- `vault_shared`: `SECURITY.md:153` says that one vault can never spend another's
  funds, because what is available comes from the vault's own recorded balance.
  After a loss of the lending pool the record exceeds what the vault's shares are
  worth. `ensureLiquidity` brings back whatever the record allows, the strategy
  burns as many of everybody's shares as that takes, and the vault gives up only
  the shares it has (`VaultYieldModule.sol:221-225`): with two vaults of four each
  and a loss of four, the first to withdraw gets four and the other's shares are
  worth nothing. Without a loss the same happens with rounded units only.
  It does not end there. If the first vault leaves altogether, the strategy is
  empty and has no shares, while the other vault's position still has its eight.
  The next deposit of four buys four new shares, of which the position's eight
  are worth eight: `_accrue` takes the difference for yield and credits it. Then
  more is owed than there is by more than the loss, so `MembersCovered` does not
  hold of several vaults that earn in one strategy after a loss. (TLC shows it in
  the instance of `vault_shared` with the invariant added and `MaxTime = 1`.)
  The runs that check `MembersCovered` have a single vault in the strategy, or
  none: that is what they show.

Met while modelling, modelled as the code has it, and not stated as properties
(each is a candidate for one):

The contracts:

- `compoundYield` changes a balance after settling the yield but not the
  penalties. The larger balance is later multiplied with the whole penalty
  accumulator, and the difference comes out of what others own: an instance that
  earns and shares penalties at once breaks `RewardsComeFromLeavers`. (The runs
  keep the two apart.)
- Switching earning off brings owed yield home but keeps it in `owedYield`;
  switched on again before it is settled, the position counts it twice over, and
  the identity written above `VaultYieldModule` fails, though what is owed stays
  covered.
- Two removals of one period count `periodCount` down twice; at zero, removals
  of the periods left revert (`TimePeriodLimitsModule.sol:294`).
- The total locked value is not refreshed by executing a proposal.
- The order check of a batch looks at the batch only, not at periods that exist.
- A joiner takes over the creator's counters and window starts.
- A new owner who had proposed a recovery key before the recovery can accept it
  afterwards with no timelock, since `setRecoveryAddress` was legal then; this is
  why `ProposedUnderProtection` leaves such accounts out. A recovery to the
  recovery key itself makes an account its own recovery key.
- Requesting a destination twice and executing both lists it twice; removing it
  once leaves it valid.
- A bypass of an account counts raw token amounts in windows kept in six
  decimals (`BypassSystemModule.sol:185`); in a percentage vault it compares
  with basis points. `MeteredOrBypassed` says exactly what is counted.
- A token left out of a recovery cannot be fetched once the new owner has been
  recovered on. A recovery leaves proposals, requests and bypasses of the old
  address on file; the freeze keeps the ones that pay from running.
- A frozen account's proposals can still be executed.
- After leaving a community vault one cannot come back: the old scope has rules.
- After a loss and a switch-off, `vaultTotals` exceed what is held: switching on
  again reverts, or invests tokens of other vaults if there are any.
- `SECURITY.md:159` names `emergencyExitVault` and `emergencyExitToken`, which
  the unified module does not have.

The keeper and the Solana program:

- A token that the vault does not take throws in every cycle and keeps the same
  member's later tokens on the address for good (`reconcile.js:94`, `Blocked`);
  other members are not touched. A native coin sent to an address before it is
  deployed is not looked for by the keeper at all.
- A race that is lost after broadcasting shows in the receipt without a reason
  and counts as a failure; the wait for a receipt has no limit.
- Leaving and joining again starts fresh windows (`init_member_fields`,
  `state.rs:189`), hence the limit that `TwoLimitsPerStretch` adds for each account
  opened.
- The gas of a deployment that reverts because somebody deployed and swept in the
  meantime is spent for nothing; `DeployPaysOff` is about what was known when it
  was sent.
- `execute_rule_change` does not validate again, and `update_vault_rules` changes
  a personal vault's rules at once, so a proposal may combine with a later change
  into rules that could not be created (`RulesStaySound` names exactly this case).
- Approved destinations are kept but no withdrawal asks for them; a request
  outlives a membership; the penalty of a tiny amount is zero; each change of a
  balance may round a debt down (`dust`); a penalty nobody is left to share stays
  in the vault; a creator can leave a personal vault and cannot come back.

The session:

- A smart wallet whose session expired leaves "Reconnecting..." on screen when no
  extension exists, and so do the early returns of `connectWalletInternal`
  (`ReconnectingEnds` names both).
- A sponsored lock-in that times out and lands makes a vault that this page does
  not know; locking in again makes a second one. `App.js:766` may build a second
  manager that replaces a newer one. Logging out does not stop a connection that
  is past its check.
- The selected vault is remembered per wallet and not per chain, and is checked
  for existence only (`TransactionManager.js:69-85`). Ids begin at one on each
  chain, so a selection made on one becomes active on another where there is a
  vault of that number, somebody else's included. `RemembersRightly` claims of a
  selection that it exists, and only of the personal vault that it is one's own.
- The manager signs and reads on the wallet's chain, with the contract address of
  the network that the page believes active (`App.js:925-957`). The model has the
  wallet's chain for both, since the two networks with a contract have it at the
  same address (`networkConfig.json:101,142`).
- `TransactionManager`'s limit proposals call `proposeRuleChange`,
  `executeRuleChange` and `cancelRuleChange`, which `EVMAdapter` does not have;
  `proposeUnlockDelayChange` addresses the account instead of the vault.

The page:

- `App.js` does not tell the deposit section which vault is selected, so every
  coin of the network is offered although `useVaultTokens` is meant to narrow the
  list; a wrong one is refused by the adapter.
- A failed read of the limits is taken for "not locked in" and shows the setup
  screen until some other read succeeds.
- Limits and balances live above the keyed sections, and nothing cancels a read:
  answers that overtake each other leave the older vault's figures on screen
  (`disordered`). Between a selection and the next render buttons act on the new
  vault (`excused`).
- Two deposits of a coin in flight share one allowance: the second may revert and
  leave an approval behind (`spoiled`).
- `isLoading` is shared by all withdrawal handlers, so one that ends re-enables
  the penalty button while another runs. The penalty button names no coin and is
  always refused in a vault of several. Only the first open bypass request is
  shown. One declined or failed sweep ends the sweep of the coins after it.
  `isProxyDeployed` is true whether the address is deployed or not.

## 5. What is proved

All constants are arbitrary under the named assumptions of the modules: any
number of scopes, names, proposals, users, tokens, members and handlers.

`SumTheorems` is what the sums rest on. `SumFunctionOnSet` of the community
modules is an iteration over an unknown order, so each fact about it is an
induction over finite sets; `SubsetInduct` is that induction for a set of good
subsets, derived from the minimal element of a well-founded ordering, because the
provers cannot instantiate the library's form with an operator. From it come
`SumUpdate`, `SumMove`, `SumLeq` and the rest. The second half is about *meters*,
counters with the start of their window beside a ledger of what was counted when:
`MeterFits` (the counter holds all that was counted since the start) and `CapFits`
(no stretch of one duration holds more than two caps), and that counting keeps
both (`MeterKept`, `CapKept`). The windows of the contracts and those of the
Solana program are both such meters.

`SpendingRules_proofs`:

- `RulesTypeCorrect`: `RulesSpec => []RulesTypeOK`. The type invariant includes
  that every period that exists has a wait of its own within the bounds; it is
  inductive as it stands. One lemma per group of calls (`WriteBatchType`,
  `MigratePeriodsType`, `ExecuteType`, ...), joined by `RulesTypeStep`.
- `LockedRulesProof`: `LockedRulesChangeOnlyByProposal`. It needs more than
  types: a proposal on file has `executeAfter >= filed + MinUnlockDelay`,
  because a matured one must be shown to have *served the shortest wait*. That is
  `WaitsAreServed`, and `RulesInv == RulesTypeOK /\ WaitsAreServed` is the
  inductive invariant (`RulesInvariant`); it holds when a proposal is filed
  because waits are within the bounds by type. The step is then split by what
  became of one period (`Fate`: untouched, metered, written, copied, changed by a
  proposal), which `StepFate` proves exhaustive.
- `SpentProof`: `SpentIsForgottenOnlyByTime`, from the same case split.
- `LockInProof`: `LockInSurvives`. An account counts amounts and no percentages
  (`AccountsHaveAmounts`, an invariant of its own), which is what makes the copy
  at the new address the same terms (`HandedOn`).
- `RoomProof`: `RoomNeverGrowsForFree`, for fixed and percentage limits. An
  active period exists (`ActiveExists`, a second invariant), so lock-in protects
  each window that refuses an amount, and that window still refuses it.
- `CounterProof`: `CounterHoldsTheWindow`. `WindowsInv` adds to the rules what
  `SpendingWindows` records: no window begins later than the clock, and each
  window of a scope that is locked in is a meter of its ledger (`Fits`), through
  metering, proposals, joining and recovery, which takes the ledger along with the
  counters.
- `StretchProof`: `NoStretchSeesThreeLimits`, for any duration and horizon, from
  the same `WindowsInv`, where `Fits` includes the cap as long as no proposal has
  run (`Quiet`).
- `TermsProof`: `MembersShareTheTerms`. The waits of names nobody used must agree
  as well, so `TermsInv` says that a wait of its own is only set on a period that
  exists. The theorem is about the vault of one creator, which is its hypothesis:
  a second founder is another vault with terms of its own, and the property as
  stated is about one.

`RecoveryKeysHistory_proofs`:

- `KeysTypeCorrect`: `KeysTypeOK` is inductive: an account is recovered exactly
  when it has another address to be at, and then has a recovery key.
- `RecoveryFinalProof`: `RecoveryIsFinal` from it, call by call.
- `NoticeProof`, `PowerlessProof`, `ProposedProof`: the three properties with a
  history, from `HistoryInv`. It adds to the types what the contract relies on
  and checks nowhere: a change on file is the one the account key *last* asked for,
  not vetoed and not executed since, and matures one timelock after it was asked for
  (`WaitsFromLastRequest`, over the history `asked`; asking again starts again), a frozen
  account has a recovery key (`FrozenIsProtected`, so that no recovery hands a
  frozen account a key), and `ProposedUnderProtection` itself. `StepCases` splits
  a step by what becomes of one account.

`SavingsAccount_proofs` begins with the destinations: `AddressesTypeCorrect`, whose
types say that every request carries the whole delay, and from it
`NewDestinationProof`, for any natural `AddressDelay` and whatever lock-in and
freeze do meanwhile. The rest is about the composition, for any accounts, tokens and
scales. Each transaction of the account is, for each of the three components, one
of its steps or none:

- `RulesImplemented`: a payout is a `Spend`, the execution of a bypass a
  `SpendWithBypass`, a recovery a `MigrateSpendingRules`. The second needs
  `AccountInv == RulesTypeOK /\ FundsOK /\ BypassOK`: a bypass on file must name
  a window and a sum that the limits know, or its execution would be no step of
  theirs. `KeysHoldInTheAccount` and `AddressesImplemented` do the same for the
  keys and the destinations, whose lock-in and freeze are then the real ones.
- By these, what was proved of the parts holds of the whole:
  `LimitsHoldInTheAccount` (the four properties of the rules),
  `KeysHoldInTheAccount` (recovery is final), `NewDestinationInTheAccount`, and
  `AccountTypeCorrect` (all the types at once).
- `CoreCoversProof`: `CoreCoversBalances`, the solvency of the core for any finite
  set of accounts: a deposit and a payout move one part of the sum and the
  holding by amounts that round in the core's favour (`SumUpdate`), a recovery
  moves one part onto another (`SumMove`).
- `FrozenProof`, `MeteredProof` and `FundsStayBoundProof` are about the
  composition itself: an outflow of an account is a withdrawal or a bypass that
  waited (`LowerBalance`), each counted in limit units by every window it has to
  be (`WithdrawCounts`, `BypassCounts`); a frozen account pays nothing; and where
  the funds go, a window that refuses goes with them (`BoundStep`).

`SavingsVault_proofs` goes up from the ledger. For each of its functions a lemma
says what it changes of the books and what it leaves alone: an accrual promises no
more than the shares are worth (`AccrueShape`), a settlement moves what is pending
and credits one member (`SettleShape`), a movement between the module and the
strategy loses nothing (`Shifted`), what the pool rounds away of a supply included,
which only lowers what shares are worth (`RoundedShape`), and a penalty that stays
is never paid out (`ExitShape`). A member's transaction is then `Transacted`:
one balance changes by x and all there is by y. Each action of the vaults is one of
a few such steps (`Payment`, `Placed`, `EarlyExit`, `Claimed`, `Departed`,
`Arranged`, `Fluctuated`), and every result takes these instead of the functions.
The invariant is `VaultInv`: totals are the sums of balances, whoever is not in a
vault has nothing in it, creators are members, no position was accrued in the
future, and every bypass on file has its whole wait and was measured when it was
requested.

- `VaultTypeCorrect`: `VaultTypeOK`. `VaultInv` needs the types of the rules beside
  it, because a request takes its wait from them.
- `RulesImplemented`: `ImplementsRules`, and by it `RulesHoldInTheVault` and
  `TermsHoldInTheVault`, as for the account. `Balances` and `Amounts` are the sets
  of inputs the rules are called with, so it has the hypothesis that they are as
  wide as what the vaults measure.
- `OutflowProof`: `OutflowHasAReason`, with and without earning and for any number
  of vaults in a strategy. A bypass pays in the token's units what it counts in
  dollars, which agree because one of the two conversions is a division without
  remainder (`ThereAndBack`).
- `RewardsProof`: `RewardsComeFromLeavers` where nothing earns, and
  `RewardsButForCompounding`: where something does, every step keeps it but
  `compoundYield` (section 4).
- `CoveredProof`: `MembersCovered` has two invariants, and where neither applies it
  is not true. Where nothing earns, for any vaults and members, `AllCovered`: no
  step leaves more of a token missing than the market took and the division of a
  penalty rounded (`NoWorse`). The heart of it is `SharedIn`: when the accumulator
  is raised, the rewards of those who stay grow by the penalty and a unit each at
  most, a sum over members bounded by their balances (`RaisedTogether`), two
  roundings each (`DivPlus`). For one personal vault that earns, `AllAlone`: what
  the vault, its position and the treasury are owed is there or was lost, and while
  the position has shares the members' total is in hand or principal (`Backed`);
  without the last part a withdrawal after a loss would not be inductive.

`SolanaVault_proofs` has three invariants, each resting on the one before:

- `SolanaInv`: the accumulator and the penalty are natural numbers through every
  instruction, and each rule change on file would be sound if the rules it was
  checked against still stood (`ProposalsWereSound`). `SoundRulesProof` and
  `LeavingProof` follow from it.
- `Orders`: the totals are what the members add up to, nothing on file is there
  twice, no debt exceeds what has accrued, and the funds cover everybody's claims
  *before a division rounds them* (`ClaimsCovered`). Counted
  after rounding the claims are no invariant, because one who settles late gets
  the rounded sum and not the sum of the rounded parts. `CoveredProof` follows: for
  any number of members, what is owed exceeds what is held by no more than the dust,
  one unit for each debt that was rounded down. With `Configured` - one
  configuration at most - so does `OutflowProof`, which says of each outflow that it
  was metered, or left its penalty to the others or to the treasury, or waited as a
  bypass, or was earned.
- `Stretches`: each window of each member is a meter in the sense of
  `SumTheorems` of what was withdrawn since its account was opened, beside a record
  of what was withdrawn before and of when accounts were opened (`Visited`). It
  holds through changes of the rules, leaving and joining again, and gives
  `TwoLimitsProof`.

`VaultPage_proofs`:

- `ApprovedProof`, that the page leaves nothing approved. The invariant `PageInv`
  has three parts. `OpsOK`: handlers are well formed, and what a deposit has still
  to send is the end of *reset, approve, deposit*. `Covered`: of an allowance that
  no crossing of deposits spoiled, some deposit on its way will take all.
  `AskedOK`: every question about the limits has a handler of its own that waits
  for the answer - without it an answer could end a deposit that had already
  approved, and `Covered` would not be inductive.
- The other four start from the fates: whatever step is taken, each handler ends,
  starts, is told something or goes on, and an answer or a selection does to it
  only what it does. `ActsProof` then follows what a handler remembers of the
  press to what it sends. `EveryCoinProof` has an invariant for each of the loops:
  a whole sweep still has before it every coin that it owes (`Sweeps`), and of a
  whole switch that nobody crossed each coin is set as asked or has a transaction
  still to come (`Switches`). `FollowProof` (`Views`) says of what the sections
  hold, of the reads of the mounted ones and of the handlers that will reload them
  that they are of the vault rendered. `RestsProof` (`Rests`) says that, unless a
  read failed or was overtaken, the last question about limits and balances is of
  the selected vault and not out of date, or nothing is asked and what is shown is
  so, or a handler is still going to ask.

`WalletSession_proofs` has one invariant, `SessionInv`, of ten parts, and a lemma
for each action. Its core is the chain from a connection to the page: a
connection that has built a manager knows nothing wrong by it (`Running`), the
manager that becomes the page's brings that along (`Shown`), and the lock-in the
page waits for lands where the manager that sent it looks, for as long as that
manager is the page's (`Sent`, `Waits`). `LoggedOutProof` rests on `Untouched`
(after the reload of someone who logged out nothing is in flight, so that nothing
can sign in by itself), `ProviderProof` on `Signed`, `RemembersProof` and
`KnowsProof` on the chain. Connections interleave step by step, and any number
of them may be in flight.

The assumptions are `RulesAssumption`, `KeysAssumption`, `AccountAssumption` (the
accounts are finitely many), `AccountKeysAssumption`, `MeteredAssumption` (a token
amount in limit units is again an amount), `SolanaAssumption`, `PageAssumption`
and `SessionAssumption` (what a session may begin with: vaults of each chain, the
accounts and networks of the wallets), and for the vaults `LedgerAssumption`,
`VaultAssumption` (finite sets, a penalty rate above zero as `createVault`
requires, each token above or below six decimals) and `VaultRulesAssumption`; TLC
evaluates them in the runs. These theorems have a hypothesis of their own:

- `TermsProof` and `TermsHoldInTheVault`, that there is one community vault;
- those of the destinations, `AddressDelay \in Nat`;
- `RulesImplemented` of the vaults, that the rules know every input;
- `RewardsProof`, `~EarningDeployed`, which is a deployment without a yield module
  (its address is zero until it is set);
- `CoveredProof`, `~EarningDeployed` or a strategy with one personal vault. The
  others are the cases in which the code lets it fail: `compoundYield` in a
  community vault, and a loss that one of several vaults does not share
  (`OwnFundsOnly`, the run `vault_shared`).

Only model-checked: the keeper's `DeployPaysOff`, and all liveness
(`DepositsLand`, `DepositComesBack`, `ReconnectingEnds`), which with ENABLED is out
of the provers' reach. What a recursive definition computes cannot be proved
either; sums over finite sets can be reasoned about only because `SumTheorems` has
the induction they need.

## 6. Not modelled, and plan

Not modelled, because it is not in the repository or has no behaviour of its own:
OpenZeppelin's timelock and proxies, generated ABIs and IDLs, deployment scripts,
formatting, analytics, styles and static pages. Not modelled, although it could
be:

- referrals (write-once, read by nobody), the account's own deposit proxies, the
  earlier vault module and the prize pool (superseded, behind a flag);
- the Solana adapter, which builds the instructions of `SolanaVault`, and the
  `deposit-proxy` program, whose forwarding calls the vault refuses;
- the circuit breaker: its only caller wraps a read of a local flag that cannot
  fail (`App.js:966`), so it never opens;
- forms (`SpendingLimitsSetup`, the setup wizard's steps before the lock-in) and
  the allowance bar, which reads once when it is mounted;
- the order in which `App.js:766` and a connection build two managers, and the
  prober of a local chain.

Done, in this order: `SpendingRules`, its proofs, `RecoveryKeys`, its proofs,
`WithdrawalAddresses`, `SavingsAccount`, `SpendingWindows`, `VaultLedger`,
`SavingsVault`, `DepositKeeper`, `SolanaVault`, `WalletSession`, `VaultPage`, the
proofs about the keys' history, the destinations and the composed account, then
`SumTheorems` and with it the windows, the solvency of the core and of the Solana
program, the proofs about the page and the session, and the proofs about the
vaults.

Next:

1. `DeployPaysOff` of the keeper. It rests on one fact that every step keeps, that
   an address whose deployment is prepared or sent is deployed or has something on
   it, and on a fact about `SelectSeq`, which is recursive: the queue would have to
   be a set of positions first.
2. `MembersCovered` for one community vault that earns, as long as nobody
   compounds: `Backed` with the rewards as a part of what is owed.
3. Several vaults in one strategy without a loss: a bound on what rounding, fees
   and divestments of one cost the other.
4. `TimelockedRequest`: the abstract promise that proposals, bypasses and
   destination requests share - filed, waited, used once - with the three, and
   the Solana program's, as refinements.
5. `periodCount`, duplicate destinations, the omitted balance and the percentage
   bypass as properties of their own.
