--------------------------- MODULE WalletSession ---------------------------
(***************************************************************************)
(* How a page of the app gets hold of a wallet and of that wallet's vault: *)
(* the browser extension or the hosted smart wallet of a passkey, silent   *)
(* reconnection after a load, the connect and sign-in buttons, logging     *)
(* out, moving between chains, what is kept in localStorage, and locking   *)
(* in.                                                                     *)
(*                                                                         *)
(* Everything in the page is concurrent: a connection is a run of steps    *)
(* between awaits, several may be in flight, timers fire with the values   *)
(* of an earlier render, the wallet emits events, prompts stay unanswered, *)
(* reads fail and the page may be reloaded anywhere.  Solana login, behind *)
(* a feature flag that is off, is left out.                                *)
(***************************************************************************)
EXTENDS Naturals, Sequences, FiniteSets

CONSTANTS
    ExtAccounts,       \* the accounts of the browser extension
    SmartAccount,      \* the account behind the passkey
    Nobody,
    Chains, Deployed,  \* the configured chains, those with a contract
    Default,           \* getDefaultNetwork
    Slots,             \* connections that may be in flight at a time
    Bounds             \* the bounds a behaviour may be under:
                       \* extension  one is installed
                       \* passkey    it was signed in when the story begins
                       \* network    preferred_evm_network
                       \* shared     the account the extension shows the site
                       \* chain      where the extension is, hostedOn the smart wallet
                       \* events     the smart wallet announces what changes in it
                       \* vaults     what exists already
                       \* acts       what people do in it, moves how often
                       \* slots      how many connections are in flight
                       \* faults     reads that fail

Users == ExtAccounts \cup {SmartAccount}
None == 0              \* no vault; ids count from 1 on each chain

\* The vaults the behaviours begin with.
FirstVaults ==
    UNION {UNION {{b.vaults[c][i] : i \in DOMAIN b.vaults[c]} : c \in Chains} : b \in Bounds}

\* An unset address is nobody's; the default chain has a contract; a story
\* begins with wallets that are somewhere and a preference that is deployed.
ASSUME SessionAssumption ==
    /\ Slots \subseteq Nat /\ Nobody \notin Users
    /\ Default \in Deployed /\ Deployed \subseteq Chains
    /\ \A b \in Bounds :
          /\ b.extension \in BOOLEAN /\ b.passkey \in BOOLEAN /\ b.events \in BOOLEAN
          /\ b.shared \in ExtAccounts \cup {Nobody}
          /\ b.network \in Deployed /\ b.chain \in Chains /\ b.hostedOn \in Chains
          /\ b.vaults \in [Chains -> Seq(FirstVaults)] /\ b.slots \subseteq Slots

VARIABLES
    ext,       \* the extension: the account it shares, its chain
    hosted,    \* the smart wallet: signed in or not, its chain
    vaults,    \* vaults[c]: what was created on chain c
    mempool,   \* lock-ins that were sent and have not landed
    storage,   \* localStorage
    page,      \* the state of the app in this page
    runs,      \* the connections in flight
    lock,      \* the lock-in this page waits for
    moves, faults,
    bound      \* the bounds of this behaviour, chosen once

sessionVars == <<ext, hosted, vaults, mempool, storage, page, runs, lock, moves, faults, bound>>
wallets == <<ext, hosted>>
chainVars == <<vaults, mempool>>

NoRun == [kind |-> "none"]
NoManager == [user |-> Nobody]
NoLock == [user |-> Nobody]

-----------------------------------------------------------------------------
(* The wallets, as walletProvider shows them to everything else.           *)

\* getActiveProvider: signing in wins over the extension.
ActiveProvider(p) ==
    IF p.embedded THEN "smart" ELSE IF bound.extension THEN "ext" ELSE "none"

HasWallet == ActiveProvider(page) # "none"

AccountOf(w) ==
    CASE w = "smart" -> IF hosted.connected THEN SmartAccount ELSE Nobody
      [] w = "ext" -> ext.account
      [] OTHER -> Nobody

ChainOf(w) == IF w = "smart" THEN hosted.chain ELSE ext.chain

\* The wallet effect, run again on every walletGeneration: the listeners and
\* the debounced autoConnectWallet are new and see this render's network; a
\* timer that was set stays set.  Two left-over timers that see the same
\* network are one.
WalletEffect(p) ==
    [p EXCEPT !.late = IF p.timer THEN @ \cup {p.seen} ELSE @,
              !.timer = ActiveProvider(p) # "none",
              !.listening = ActiveProvider(p),
              !.seen = p.selected]

SetEmbeddedProvider(p, on) == WalletEffect([p EXCEPT !.embedded = on])

SignedOut(p) == SetEmbeddedProvider(p, FALSE)

\* setIsSigningIn renews the callback of the sign-in button.
SigningIn(p, on) == [p EXCEPT !.signing = on, !.captured = p.selected]

\* Restoring begins for someone who signed in on this device and did not log
\* out; the page says that it reconnects if there is anything to reconnect.
Restores(s) == s.passkey /\ ~s.loggedOut
Reconnects(s) == ~s.loggedOut /\ (s.passkey \/ bound.extension)

\* AppContent's initial state, and its effects.
Loaded(s) ==
    LET restore == Restores(s)
        p == [embedded |-> restore, selected |-> s.network, captured |-> s.network,
              reconnecting |-> Reconnects(s),
              busy |-> FALSE, signing |-> FALSE, restoring |-> restore,
              listening |-> "none", timer |-> FALSE, late |-> {}, seen |-> s.network,
              user |-> Nobody, tm |-> NoManager, leaving |-> {},
              untouched |-> s.loggedOut, stranded |-> FALSE]
    IN IF restore THEN WalletEffect(WalletEffect(p)) ELSE WalletEffect(p)

\* The app subscribes to whichever wallet is active.  An extension announces
\* what changes in it; "an embedded wallet ... may emit neither event".
Hears(p, w) == p.listening = w /\ (w = "smart" => bound.events)

\* handleChainChanged and handleAccountsChanged.
ChainChanged(p, w, c) ==
    IF Hears(p, w) /\ ChainOf(w) # c THEN [p EXCEPT !.selected = c, !.timer = TRUE] ELSE p

Cleared(p) == [p EXCEPT !.user = Nobody, !.tm = NoManager]

AccountsChanged(p, w, a) ==
    IF ~Hears(p, w) \/ AccountOf(w) = a THEN p
    ELSE IF a = Nobody THEN [Cleared(p) EXCEPT !.busy = FALSE]
    ELSE [p EXCEPT !.timer = TRUE]

-----------------------------------------------------------------------------
(* What the chain knows.                                                   *)

Exists(c, id) == id \in DOMAIN vaults[c]

IsPersonalOf(c, id, u) ==
    Exists(c, id) /\ vaults[c][id].personal /\ vaults[c][id].creator = u

PersonalVaults(c, u) == {id \in DOMAIN vaults[c] : IsPersonalOf(c, id, u)}

\* A provider refuses to read once its wallet has moved to another chain.
CanRead(tm) == ChainOf(tm.via) = tm.chain

SessionInit ==
    /\ bound \in Bounds
    /\ ext = [account |-> bound.shared, chain |-> bound.chain]
    /\ hosted = [connected |-> bound.passkey, chain |-> bound.hostedOn]
    /\ vaults = bound.vaults
    /\ mempool = {}
    /\ storage = [loggedOut |-> FALSE, passkey |-> bound.passkey, network |-> bound.network,
                  personal |-> [u \in Users |-> None], active |-> [u \in Users |-> None]]
    /\ page = Loaded(storage)
    /\ runs = [s \in Slots |-> NoRun]
    /\ lock = NoLock
    /\ moves = 0 /\ faults = 0

-----------------------------------------------------------------------------
(* The silent reconnection.                                                *)

Idle(s) == runs[s] = NoRun
\* The first free slot.
Free(s) == s \in bound.slots /\ Idle(s) /\ \A i \in bound.slots : i < s => ~Idle(i)

At(s, pc) == ~Idle(s) /\ runs[s].pc = pc
Run(kind, pc, seen) == [kind |-> kind, pc |-> pc, seen |-> seen, tm |-> NoManager]

\* A read that may fail costs a fault; one that must fail does not.
Fails(failed, must) ==
    /\ must => failed
    /\ (failed /\ ~must) => faults < bound.faults
    /\ faults' = IF failed /\ ~must THEN faults + 1 ELSE faults

\* restorePasskeySession, when eth_accounts has answered or failed.
RestoreAnswer(failed) ==
    /\ page.restoring
    /\ Fails(failed, ~hosted.connected)
    /\ LET p == [page EXCEPT !.restoring = FALSE] IN
       page' = IF failed THEN SignedOut(p) ELSE p
    /\ storage' = IF failed THEN [storage EXCEPT !.passkey = FALSE] ELSE storage
    /\ UNCHANGED <<wallets, chainVars, runs, lock, moves, bound>>

\* Mutant: the flag is not asked.
NeverLoggedOut == FALSE

IsWalletLoggedOut == storage.loggedOut

\* autoConnectWallet begins, two seconds after it was last called.
AutoConnect(s, seen) ==
    /\ Free(s)
    /\ \E current \in BOOLEAN :
         LET p == IF current THEN [page EXCEPT !.timer = FALSE]
                  ELSE [page EXCEPT !.late = @ \ {seen}]
         IN  /\ IF current THEN page.timer /\ page.seen = seen ELSE seen \in page.late
             /\ IF IsWalletLoggedOut
                THEN page' = [p EXCEPT !.reconnecting = FALSE] /\ UNCHANGED runs
                ELSE IF ~HasWallet \/ page.busy
                THEN /\ page' = [p EXCEPT !.stranded = @ \/ (p.reconnecting /\ ~HasWallet)]
                     /\ UNCHANGED runs
                ELSE /\ page' = [p EXCEPT !.busy = TRUE]
                     /\ runs' = [runs EXCEPT ![s] = Run("auto", "check", seen)]
    /\ UNCHANGED <<wallets, chainVars, storage, lock, moves, faults, bound>>

\* How a run ends, whatever way: the flags its caller clears.
Ended(p, kind) ==
    CASE kind = "signin" -> SigningIn(p, FALSE)
      [] kind = "effect" -> p
      [] OTHER -> [p EXCEPT !.busy = FALSE]

\* An exception, or one of autoConnectWallet's own returns.
Thrown(p, kind) ==
    IF kind = "auto" THEN Ended([p EXCEPT !.reconnecting = FALSE], kind) ELSE Ended(p, kind)

\* A return from the middle of connectWalletInternal.
Returned(p, kind) == Ended([p EXCEPT !.stranded = @ \/ p.reconnecting], kind)

\* getAccounts turns a failure into no accounts, getChainId throws: one end.
Check(s, failed) ==
    /\ At(s, "check")
    /\ LET w == ActiveProvider(page)
           give_up == \/ AccountOf(w) = Nobody
                      \/ ChainOf(w) # runs[s].seen
                      \/ failed
       IN  /\ Fails(failed, FALSE)
           /\ page' = IF give_up THEN Thrown(page, "auto") ELSE page
           /\ runs' = IF give_up THEN [runs EXCEPT ![s] = NoRun]
                      ELSE [runs EXCEPT ![s].pc = "connect"]
    /\ UNCHANGED <<wallets, chainVars, storage, lock, moves, bound>>

-----------------------------------------------------------------------------
(* connectWalletInternal, shared by every way in.                          *)

\* A preference can outlive the deployment it named.
ActiveNetwork(seen) == IF seen \in Deployed THEN seen ELSE Default

\* The first part, up to a network the wallet is on: an extension that is
\* elsewhere is left alone, a smart wallet is followed or asked to move.
Connect(s) ==
    /\ At(s, "connect")
    /\ LET r == runs[s]
           w == ActiveProvider(page)
           here == ChainOf(w)
           wanted == ActiveNetwork(r.seen)
           net == IF w = "smart" /\ here \in Deployed THEN here ELSE wanted
           moved == net # r.seen
           p == IF moved THEN [page EXCEPT !.selected = net] ELSE page
       IN  IF w = "none"
           THEN /\ page' = Thrown(page, r.kind)
                /\ runs' = [runs EXCEPT ![s] = NoRun]
                /\ UNCHANGED storage
           ELSE /\ storage' = IF moved THEN [storage EXCEPT !.network = net] ELSE storage
                /\ IF here = net THEN page' = p /\ runs' = [runs EXCEPT ![s].pc = "signer"]
                   ELSE IF w = "smart" THEN page' = p /\ runs' = [runs EXCEPT ![s].pc = "move"]
                   ELSE page' = Returned(p, r.kind) /\ runs' = [runs EXCEPT ![s] = NoRun]
    /\ UNCHANGED <<wallets, chainVars, lock, moves, faults, bound>>

\* The smart wallet's prompt is answered.
Move(s, yes) ==
    /\ At(s, "move")
    /\ LET net == ActiveNetwork(runs[s].seen) IN
       /\ hosted' = IF yes THEN [hosted EXCEPT !.chain = net] ELSE hosted
       /\ page' = IF yes THEN ChainChanged(page, "smart", net) ELSE Returned(page, runs[s].kind)
    /\ runs' = [runs EXCEPT ![s] = IF yes THEN [@ EXCEPT !.pc = "signer"] ELSE NoRun]
    /\ UNCHANGED <<ext, chainVars, storage, lock, moves, faults, bound>>

\* The contract has one address on all the chains that have it
\* (networkConfig.json): whatever network a manager is set up for, it finds the
\* contract of the chain its wallet is on.
Manager(w) ==
    [user |-> AccountOf(w), chain |-> ChainOf(w), via |-> w, personal |-> None,
     active |-> None, blind |-> FALSE]

\* No wallet any more, or no contract where it is.
NoSigner(w) == w = "none" \/ ChainOf(w) \notin Deployed

\* The accounts that eth_requestAccounts may come back with.
Granted(w) ==
    IF AccountOf(w) # Nobody THEN {AccountOf(w)}
    ELSE IF w = "smart" THEN {SmartAccount} ELSE ExtAccounts

Grant(w, a) ==
    /\ a \in Granted(w)
    /\ ext' = IF w = "ext" THEN [ext EXCEPT !.account = a] ELSE ext
    /\ hosted' = IF w = "smart" THEN [hosted EXCEPT !.connected = TRUE] ELSE hosted
    /\ page' = AccountsChanged(page, w, a)

\* getSigner prompts for an account if the wallet shares none any more.
Prompting(s) ==
    LET w == ActiveProvider(page) IN
    At(s, "move") \/ (At(s, "signer") /\ w # "none" /\ AccountOf(w) = Nobody)

AnswerSigner(s, a) ==
    /\ At(s, "signer") /\ Prompting(s)
    /\ IF a = Nobody
       THEN /\ page' = Returned(page, runs[s].kind)
            /\ runs' = [runs EXCEPT ![s] = NoRun]
            /\ UNCHANGED wallets
       ELSE Grant(ActiveProvider(page), a) /\ UNCHANGED runs
    /\ UNCHANGED <<chainVars, storage, lock, moves, faults, bound>>

\* initIfNeeded: the render that follows a connection starts an initialisation
\* of its own if there is no transaction manager yet.
Initialising(s, mine) ==
    LET others == {i \in bound.slots : Idle(i)} IN
    IF page.tm = NoManager /\ others # {}
    THEN LET i == CHOOSE j \in others : \A k \in others : j <= k IN
         [runs EXCEPT ![s] = mine, ![i] = [mine EXCEPT !.kind = "effect"]]
    ELSE [runs EXCEPT ![s] = mine]

\* The signer, the contract's code, and then the user is in state.
Signer(s, failed) ==
    /\ At(s, "signer") /\ ~Prompting(s)
    /\ LET w == ActiveProvider(page)
           kind == runs[s].kind
           mine == [Run(kind, "load", runs[s].seen) EXCEPT !.tm = Manager(w)]
       IN  /\ Fails(failed, NoSigner(w))
           /\ IF failed
              THEN page' = Returned(page, kind) /\ runs' = [runs EXCEPT ![s] = NoRun]
              ELSE /\ page' = [page EXCEPT !.user = AccountOf(w)]
                   /\ runs' = Initialising(s, mine)
    /\ UNCHANGED <<wallets, chainVars, storage, lock, moves, bound>>

\* Mutant: whatever exists is taken.
AcceptsExisting(tm, id) == Exists(tm.chain, id)

Accepts(tm, id) == IsPersonalOf(tm.chain, id, tm.user)

\* Mutant: a remembered vault that is gone leaves the page without one.
AfterLoadRestore == "restore"

AfterLoad == "list"

\* _loadPersonalVault, the remembered vault: a failed read is no vault.
LoadPersonal(s, failed) ==
    /\ At(s, "load")
    /\ LET tm == runs[s].tm
           id == storage.personal[tm.user]
           good == ~failed /\ Accepts(tm, id)
           blind == failed \/ PersonalVaults(tm.chain, tm.user) = {}
       IN  /\ IF id = None THEN failed = FALSE /\ UNCHANGED faults ELSE Fails(failed, ~CanRead(tm))
           /\ IF id # None /\ good
              THEN /\ runs' = [runs EXCEPT ![s].pc = "restore", ![s].tm.personal = id]
                   /\ UNCHANGED storage
              ELSE /\ runs' = [runs EXCEPT ![s].pc = AfterLoad, ![s].tm.blind = blind]
                   /\ storage' = [storage EXCEPT !.personal[tm.user] = None]
    /\ UNCHANGED <<wallets, chainVars, page, lock, moves, bound>>

\* ... and the search among the user's vaults.
ListPersonal(s, failed) ==
    /\ At(s, "list")
    /\ LET tm == runs[s].tm
           mine == IF failed THEN {} ELSE PersonalVaults(tm.chain, tm.user)
       IN  /\ Fails(failed, ~CanRead(tm))
           /\ IF mine = {}
              THEN /\ runs' = [runs EXCEPT ![s].pc = "restore", ![s].tm.blind = @ \/ failed]
                   /\ UNCHANGED storage
              ELSE LET id == CHOOSE i \in mine : \A j \in mine : i <= j IN
                   /\ runs' = [runs EXCEPT ![s].pc = "restore", ![s].tm.personal = id]
                   /\ storage' = [storage EXCEPT !.personal[tm.user] = id]
    /\ UNCHANGED <<wallets, chainVars, page, lock, moves, bound>>

StillThere(tm, id) == Exists(tm.chain, id)

\* _restoreActiveVault.
RestoreActive(s, failed) ==
    /\ At(s, "restore")
    /\ LET tm == runs[s].tm
           id == storage.active[tm.user]
           good == ~failed /\ StillThere(tm, id)
       IN  /\ IF id = None THEN failed = FALSE /\ UNCHANGED faults ELSE Fails(failed, ~CanRead(tm))
           /\ runs' = [runs EXCEPT ![s].pc = "done",
                                   ![s].tm.active = IF id # None /\ good THEN id ELSE None]
           /\ storage' = IF id = None \/ good THEN storage
                         ELSE [storage EXCEPT !.active[tm.user] = None]
    /\ UNCHANGED <<wallets, chainVars, page, lock, moves, bound>>

\* Mutant: a connected page goes on saying that it reconnects.
ConnectedStill(p, kind) == Ended(p, kind)

Connected(p, kind) ==
    IF kind = "effect" THEN p ELSE Ended([p EXCEPT !.reconnecting = FALSE], kind)

\* setTransactionManager; the manager that was there before is forgotten.
Done(s) ==
    /\ At(s, "done")
    /\ page' = [Connected(page, runs[s].kind) EXCEPT !.tm = runs[s].tm]
    /\ runs' = [runs EXCEPT ![s] = NoRun]
    /\ lock' = IF lock = NoLock THEN lock ELSE [lock EXCEPT !.same = FALSE]
    /\ UNCHANGED <<wallets, chainVars, storage, moves, faults, bound>>

-----------------------------------------------------------------------------
(* The buttons.                                                            *)

Acts(what) == what \in bound.acts /\ moves < bound.moves /\ moves' = moves + 1

\* WalletConnectionPrompt is on the page.
PromptShown == ~page.reconnecting /\ (page.user = Nobody \/ page.tm = NoManager)

\* connectWallet goes on if there is a wallet and nothing is under way.
GoOn(s, p, seen) ==
    LET go == ActiveProvider(p) # "none" /\ ~p.busy IN
    /\ page' = IF go THEN [p EXCEPT !.busy = TRUE] ELSE p
    /\ runs' = [runs EXCEPT ![s] = IF go THEN Run("press", "ensure", seen) ELSE NoRun]

\* connectWallet: one's own wallet, signing out of the other one first.
PressConnect(s) ==
    /\ Acts("connect") /\ PromptShown
    /\ Free(s)
    /\ LET leaving == page.embedded /\ bound.extension
           p == [page EXCEPT !.untouched = FALSE]
       IN  /\ storage' = [storage EXCEPT !.loggedOut = FALSE,
                                         !.passkey = @ /\ ~leaving]
           /\ IF leaving
              THEN page' = p /\ runs' = [runs EXCEPT ![s] = Run("press", "leave", page.selected)]
              ELSE GoOn(s, p, page.selected)
    /\ UNCHANGED <<wallets, chainVars, lock, faults, bound>>

\* A manager that left the page is not told of its vault any more.
SenderForgotten ==
    lock' = IF page'.tm # page.tm /\ lock # NoLock THEN [lock EXCEPT !.same = FALSE] ELSE lock

\* provider.disconnect() has answered: the wallet is signed out and dropped.
SmartWalletLeft(p) == SignedOut(AccountsChanged(p, "smart", Nobody))

LeaveThenConnect(s) ==
    /\ At(s, "leave")
    /\ hosted' = [hosted EXCEPT !.connected = FALSE]
    /\ GoOn(s, SmartWalletLeft(page), runs[s].seen)
    /\ SenderForgotten
    /\ UNCHANGED <<ext, chainVars, storage, moves, faults, bound>>

\* ensureCorrectNetwork: the wallet is there, or is asked and answers.
EnsureNetwork(s, yes) ==
    /\ At(s, "ensure")
    /\ LET net == runs[s].seen
           w == ActiveProvider(page)
           there == w # "none" /\ (w = "smart" => net \in Deployed)
       IN  IF yes
           THEN /\ there
                /\ hosted' = IF w = "smart" THEN [hosted EXCEPT !.chain = net] ELSE hosted
                /\ ext' = IF w = "ext" THEN [ext EXCEPT !.chain = net] ELSE ext
                /\ page' = ChainChanged(page, w, net)
                /\ runs' = [runs EXCEPT ![s].pc = "ask"]
           ELSE /\ ~there \/ ChainOf(w) # net
                /\ page' = Thrown(page, "press")
                /\ runs' = [runs EXCEPT ![s] = NoRun]
                /\ UNCHANGED wallets
    /\ UNCHANGED <<chainVars, storage, lock, moves, faults, bound>>

\* eth_requestAccounts.
RequestAccounts(s, a) ==
    /\ At(s, "ask")
    /\ LET w == ActiveProvider(page) IN
       IF a = Nobody \/ w = "none"
       THEN /\ AccountOf(w) = Nobody
            /\ page' = Thrown(page, "press") /\ runs' = [runs EXCEPT ![s] = NoRun]
            /\ UNCHANGED wallets
       ELSE Grant(w, a) /\ runs' = [runs EXCEPT ![s].pc = "connect"]
    /\ UNCHANGED <<chainVars, storage, lock, moves, faults, bound>>

\* handleSignInWithPasskey; its callback saw the network of an older render.
SignIn(s) ==
    /\ Acts("signin") /\ PromptShown /\ ~page.signing
    /\ Free(s)
    /\ storage' = [storage EXCEPT !.loggedOut = FALSE]
    /\ runs' = [runs EXCEPT ![s] = Run("signin", "popup", page.captured)]
    /\ page' = SetEmbeddedProvider(SigningIn([page EXCEPT !.untouched = FALSE], TRUE), TRUE)
    /\ UNCHANGED <<wallets, chainVars, lock, faults, bound>>

\* Mutant: a closed popup leaves its provider registered.
PopupClosedHalfway(p) == p

PopupClosed(p) == SetEmbeddedProvider(p, FALSE)

\* signInWithPasskey, when the popup has been answered or closed.
Popup(s, yes) ==
    /\ At(s, "popup")
    /\ IF yes
       THEN /\ hosted' = [hosted EXCEPT !.connected = TRUE]
            /\ storage' = [storage EXCEPT !.passkey = TRUE]
            /\ runs' = [runs EXCEPT ![s].pc = "connect"]
            /\ page' = AccountsChanged(page, "smart", SmartAccount)
       ELSE /\ page' = Ended(PopupClosed(page), "signin")
            /\ runs' = [runs EXCEPT ![s] = NoRun]
            /\ UNCHANGED <<hosted, storage>>
    /\ UNCHANGED <<ext, chainVars, lock, moves, faults, bound>>

\* clearVaultCache.
Forgets(st, u) == [st EXCEPT !.personal[u] = None, !.active[u] = None]

LoggedOut(p) == [Cleared(p) EXCEPT !.reconnecting = FALSE, !.busy = FALSE]

\* disconnectWallet.  A connection in flight is not stopped; a smart wallet is
\* signed out first, and what is shown stays until it has answered.
Disconnect ==
    /\ Acts("disconnect") /\ page.user # Nobody
    /\ LET flagged == [storage EXCEPT !.loggedOut = TRUE, !.passkey = FALSE] IN
       IF storage.passkey /\ page.embedded
       THEN /\ page' = [page EXCEPT !.leaving = @ \cup {page.user}]
            /\ storage' = flagged
       ELSE /\ page' = LoggedOut(IF storage.passkey THEN SignedOut(page) ELSE page)
            /\ storage' = Forgets(flagged, page.user)
    /\ SenderForgotten
    /\ UNCHANGED <<wallets, chainVars, runs, faults, bound>>

LeaveThenLogOut(u) ==
    /\ u \in page.leaving
    /\ hosted' = [hosted EXCEPT !.connected = FALSE]
    /\ page' = LoggedOut([SmartWalletLeft(page) EXCEPT !.leaving = @ \ {u}])
    /\ storage' = Forgets(storage, u)
    /\ SenderForgotten
    /\ UNCHANGED <<ext, chainVars, runs, moves, faults, bound>>

\* switchNetwork, agreed to in the wallet.
SwitchNetwork(net) ==
    /\ Acts("network") /\ page.user # Nobody /\ HasWallet
    /\ net \in Deployed \ {page.selected}
    /\ LET w == ActiveProvider(page)
       IN  /\ ext' = IF w = "ext" THEN [ext EXCEPT !.chain = net] ELSE ext
           /\ hosted' = IF w = "smart" THEN [hosted EXCEPT !.chain = net] ELSE hosted
           /\ page' = [ChainChanged(page, w, net) EXCEPT !.selected = net]
    /\ storage' = [storage EXCEPT !.network = net]
    /\ UNCHANGED <<chainVars, runs, lock, faults, bound>>

\* In the extension's own window.
SwitchAccount(a) ==
    /\ Acts("account") /\ bound.extension /\ a # ext.account
    /\ ext' = [ext EXCEPT !.account = a]
    /\ page' = AccountsChanged(page, "ext", a)
    /\ SenderForgotten
    /\ UNCHANGED <<hosted, chainVars, storage, runs, faults, bound>>

SwitchChain(c) ==
    /\ Acts("chain") /\ bound.extension /\ c # ext.chain
    /\ ext' = [ext EXCEPT !.chain = c]
    /\ page' = ChainChanged(page, "ext", c)
    /\ UNCHANGED <<hosted, chainVars, storage, runs, lock, faults, bound>>

\* A reload, or the next visit, when the smart wallet may have signed out.
Reload(expired) ==
    /\ Acts("reload")
    /\ page' = Loaded(storage)
    /\ runs' = [s \in Slots |-> NoRun]
    /\ lock' = NoLock
    /\ hosted' = [hosted EXCEPT !.connected = @ /\ ~expired]
    /\ UNCHANGED <<ext, chainVars, storage, faults, bound>>

-----------------------------------------------------------------------------
(* Vaults.                                                                 *)

\* handleSelectVault: one's own savings vault is the default, not a selection.
Selection(tm, id) == IF id = tm.personal THEN None ELSE id

\* setActiveVault: a card of a vault the user is a member of.
SelectVault(id) ==
    /\ Acts("select") /\ page.user # Nobody /\ page.tm # NoManager
    /\ Exists(page.tm.chain, id) /\ page.tm.user \in vaults[page.tm.chain][id].members
    /\ LET active == Selection(page.tm, id) IN
       /\ page' = [page EXCEPT !.tm.active = active]
       /\ storage' = [storage EXCEPT !.active[page.tm.user] = active]
    /\ UNCHANGED <<wallets, chainVars, runs, lock, faults, bound>>

\* _createSavingsVault refuses a second one it knows of.
MayCreate(tm) == tm.personal = None /\ CanRead(tm)

\* commitSetup, up to the transaction; one at a time.
LockIn ==
    /\ Acts("lockin") /\ page.user # Nobody /\ page.tm # NoManager
    /\ MayCreate(page.tm)
    /\ lock = NoLock /\ mempool = {}
    /\ lock' = [user |-> page.tm.user, via |-> page.tm.via, same |-> TRUE, id |-> None]
    /\ mempool' = {[user |-> page.tm.user, chain |-> page.tm.chain]}
    /\ UNCHANGED <<wallets, vaults, storage, page, runs, faults, bound>>

Vault(u) == [creator |-> u, personal |-> TRUE, members |-> {u}]

Land ==
    /\ mempool # {}
    /\ LET tx == CHOOSE t \in mempool : TRUE IN
       /\ vaults' = [vaults EXCEPT ![tx.chain] = Append(@, Vault(tx.user))]
       /\ lock' = IF lock = NoLock THEN lock
                  ELSE [lock EXCEPT !.id = Len(vaults[tx.chain]) + 1]
    /\ mempool' = {}
    /\ UNCHANGED <<wallets, storage, page, runs, moves, faults, bound>>

\* waitForBundle gives up after 90 seconds; the transaction lands all the same.
TimeOut ==
    /\ lock # NoLock /\ lock.id = None /\ lock.via = "smart"
    /\ lock' = NoLock
    /\ UNCHANGED <<wallets, chainVars, storage, page, runs, moves, faults, bound>>

\* _rememberPersonalVault, by the manager that sent the transaction.
Remember ==
    /\ lock # NoLock /\ lock.id # None
    /\ storage' = [storage EXCEPT !.personal[lock.user] = lock.id]
    /\ page' = IF lock.same THEN [page EXCEPT !.tm.personal = lock.id] ELSE page
    /\ lock' = NoLock
    /\ UNCHANGED <<wallets, chainVars, runs, moves, faults, bound>>

-----------------------------------------------------------------------------

\* What the page does by itself.
PageWorks ==
    \/ \E failed \in BOOLEAN :
          \/ RestoreAnswer(failed)
          \/ \E s \in Slots : \/ Check(s, failed) \/ Signer(s, failed)
                              \/ LoadPersonal(s, failed) \/ ListPersonal(s, failed)
                              \/ RestoreActive(s, failed)
    \/ \E u \in Users : LeaveThenLogOut(u)
    \/ \E s \in Slots : Connect(s) \/ Done(s) \/ LeaveThenConnect(s) \/ \E c \in Chains : AutoConnect(s, c)

\* What people do, and what the chain does.
Others ==
    \/ \E s \in Slots :
          \/ PressConnect(s) \/ SignIn(s)
          \/ \E yes \in BOOLEAN : Move(s, yes) \/ EnsureNetwork(s, yes) \/ Popup(s, yes)
          \/ \E a \in Users \cup {Nobody} : RequestAccounts(s, a) \/ AnswerSigner(s, a)
    \/ Disconnect
    \/ \E c \in Chains : SwitchNetwork(c) \/ SwitchChain(c)
    \/ \E a \in ExtAccounts \cup {Nobody} : SwitchAccount(a)
    \/ \E expired \in BOOLEAN : Reload(expired)
    \/ \E c \in Chains : \E id \in DOMAIN vaults[c] : SelectVault(id)
    \/ LockIn \/ Land \/ TimeOut \/ Remember

SessionNext == PageWorks \/ Others

\* The page goes on by itself; nobody has to answer a prompt or press a button.
SessionSpec == SessionInit /\ [][SessionNext]_sessionVars /\ WF_sessionVars(PageWorks)

-----------------------------------------------------------------------------
(* Properties.                                                             *)

SessionTypeOK ==
    /\ ext \in [account : ExtAccounts \cup {Nobody}, chain : Chains]
    /\ hosted \in [connected : BOOLEAN, chain : Chains]
    /\ storage.network \in Deployed /\ page.selected \in Chains
    /\ page.user \in Users \cup {Nobody}
    /\ \A s \in Slots : ~Idle(s) =>
          runs[s].pc \in {"check", "connect", "move", "ensure", "ask", "popup", "signer",
                          "load", "list", "restore", "done", "leave"}
    /\ page.timer => HasWallet

\* Someone who logged out stays logged out over a reload: whatever timers,
\* wallet events and sessions there are, the page attaches nothing until a
\* button is pressed ("the silent auto-connect would re-attach the same wallet
\* within seconds of a reload", walletSession.js).
LoggedOutStaysOut == page.untouched => page.user = Nobody /\ page.tm = NoManager

\* The vault the app calls yours is a personal vault that you created on the
\* chain it reads from, however old the remembered id is, whichever wallet and
\* chain it was remembered on and whoever has been connected since
\* (_loadPersonalVault; ids repeat from chain to chain).
PersonalVaultIsMine ==
    page.tm # NoManager /\ page.tm.personal # None =>
        IsPersonalOf(page.tm.chain, page.tm.personal, page.tm.user)

\* The active vault exists on the chain the app reads from ("a stale vault
\* would silently swallow every vault-scoped read").  Existence is all that
\* _restoreActiveVault asks: the selection is kept by wallet alone, and one made
\* on another chain is taken up where the ids repeat.
ActiveVaultExists ==
    page.tm # NoManager /\ page.tm.active # None => Exists(page.tm.chain, page.tm.active)

\* What a session remembers in localStorage is checked when it is used: the
\* vault it calls yours is yours, and the one it acts on is there.
RemembersRightly == PersonalVaultIsMine /\ ActiveVaultExists

\* An app that reloads knows the vault it made: a session that began with a
\* vault on chain and lost no read has found it, remembered, forgotten or
\* remembered wrongly ("Without it the app reloads knowing nothing about the
\* vault it just made ... and locks in again").
KnowsItsVault ==
    page.tm # NoManager => page.tm.blind \/ page.tm.personal # None

\* The app never believes in a smart wallet that is not signed in, except
\* while the popup or the restored session has not answered ("Leaving a
\* half-connected provider in place would make the rest of the app believe
\* there is a wallet when there is not").
NoHalfConnectedProvider ==
    /\ SessionTypeOK
    /\ page.embedded =>
          hosted.connected \/ page.restoring \/ \E s \in Slots : At(s, "popup")

\* "Reconnecting wallet..." is not for ever: it ends by itself unless a prompt
\* is open or connectWalletInternal returned halfway or the wallet vanished,
\* the cases that stranded names.
ReconnectingEnds ==
    page.reconnecting ~>
        (~page.reconnecting \/ page.stranded \/ \E s \in Slots : Prompting(s))
=============================================================================
