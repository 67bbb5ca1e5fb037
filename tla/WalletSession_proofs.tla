----------------------- MODULE WalletSession_proofs -----------------------
(***************************************************************************)
(* Proofs about the wallet session, for any accounts, chains, vaults that  *)
(* exist already, connections in flight, failures and bounds.  One         *)
(* invariant holds all of it, SessionInv: a connection that has a manager  *)
(* knows nothing wrong by it (Running), nor does the page (Shown); the     *)
(* lock-in that the page waits for lands where the manager that sent it    *)
(* looks, for as long as that manager is the page's (Sent, Waits); after a *)
(* reload of someone who logged out nothing is in flight (Untouched); and  *)
(* a page that believes in the smart wallet has it or waits for an answer  *)
(* (Signed).                                                               *)
(***************************************************************************)
EXTENDS WalletSession, SequenceTheorems, WellFoundedInduction, TLAPS

Kinds == {"auto", "press", "signin", "effect"}
Pcs == {"check", "connect", "move", "ensure", "ask", "popup", "signer", "load", "list",
        "restore", "done", "leave"}

-----------------------------------------------------------------------------
(* Pages.                                                                  *)

PageShape(p) ==
    p = [embedded |-> p.embedded, selected |-> p.selected, captured |-> p.captured,
         reconnecting |-> p.reconnecting, busy |-> p.busy, signing |-> p.signing,
         restoring |-> p.restoring, listening |-> p.listening, timer |-> p.timer,
         late |-> p.late, seen |-> p.seen, user |-> p.user, tm |-> p.tm, leaving |-> p.leaving,
         untouched |-> p.untouched, stranded |-> p.stranded]

\* A timer runs for a wallet, and only a wallet is listened to that is there.
PageOK(p) ==
    /\ PageShape(p)
    /\ p.selected \in Chains /\ p.captured \in Chains
    /\ p.user \in Users \cup {Nobody}
    /\ p.timer = TRUE => p.embedded = TRUE \/ bound.extension = TRUE
    /\ p.listening = "ext" => bound.extension = TRUE
    /\ p.listening = "smart" => p.embedded = TRUE

\* A page with what the properties speak of given.
Shows(q, embedded, restoring, user, tm, untouched) ==
    /\ PageOK(q)
    /\ q.embedded = embedded /\ q.restoring = restoring
    /\ q.user = user /\ q.tm = tm /\ q.untouched = untouched

Same(q, p) == Shows(q, p.embedded, p.restoring, p.user, p.tm, p.untouched)

\* A page with the timer and the listeners given.
Tuned(q, p, timer, listening) ==
    /\ PageShape(q) /\ q.timer = timer /\ q.listening = listening
    /\ q.selected = p.selected /\ q.captured = p.captured
    /\ q.embedded = p.embedded /\ q.restoring = p.restoring
    /\ q.user = p.user /\ q.tm = p.tm /\ q.untouched = p.untouched

LEMMA TunedField ==
  ASSUME NEW p, PageShape(p), NEW x
  PROVE  /\ Tuned([p EXCEPT !.timer = x], p, x, p.listening)
         /\ Tuned([p EXCEPT !.listening = x], p, p.timer, x)
         /\ Tuned([p EXCEPT !.late = x], p, p.timer, p.listening)
         /\ Tuned([p EXCEPT !.seen = x], p, p.timer, p.listening)
<1>1. Tuned([p EXCEPT !.timer = x], p, x, p.listening) BY DEF Tuned, PageShape
<1>2. Tuned([p EXCEPT !.listening = x], p, p.timer, x) BY DEF Tuned, PageShape
<1>3. Tuned([p EXCEPT !.late = x], p, p.timer, p.listening) BY DEF Tuned, PageShape
<1>4. Tuned([p EXCEPT !.seen = x], p, p.timer, p.listening) BY DEF Tuned, PageShape
<1> QED BY <1>1, <1>2, <1>3, <1>4

\* Each field on its own.
LEMMA QuietField ==
  ASSUME NEW p, PageOK(p), NEW x
  PROVE  /\ Same(p, p)
         /\ Same([p EXCEPT !.busy = x], p)
         /\ Same([p EXCEPT !.reconnecting = x], p)
         /\ Same([p EXCEPT !.signing = x], p)
         /\ Same([p EXCEPT !.stranded = x], p)
         /\ Same([p EXCEPT !.late = x], p)
         /\ Same([p EXCEPT !.seen = x], p)
         /\ Same([p EXCEPT !.leaving = x], p)
<1>1. Same(p, p) BY DEF Same, Shows
<1>2. Same([p EXCEPT !.busy = x], p) BY DEF Same, Shows, PageOK, PageShape
<1>3. Same([p EXCEPT !.reconnecting = x], p) BY DEF Same, Shows, PageOK, PageShape
<1>4. Same([p EXCEPT !.signing = x], p) BY DEF Same, Shows, PageOK, PageShape
<1>5. Same([p EXCEPT !.stranded = x], p) BY DEF Same, Shows, PageOK, PageShape
<1>6. Same([p EXCEPT !.late = x], p) BY DEF Same, Shows, PageOK, PageShape
<1>7. Same([p EXCEPT !.seen = x], p) BY DEF Same, Shows, PageOK, PageShape
<1>8. Same([p EXCEPT !.leaving = x], p) BY DEF Same, Shows, PageOK, PageShape
<1> QED BY <1>1, <1>2, <1>3, <1>4, <1>5, <1>6, <1>7, <1>8

LEMMA ChainField ==
  ASSUME NEW p, PageOK(p), NEW c \in Chains
  PROVE  /\ Same([p EXCEPT !.selected = c], p)
         /\ Same([p EXCEPT !.captured = c], p)
<1>1. Same([p EXCEPT !.selected = c], p) BY DEF Same, Shows, PageOK, PageShape
<1>2. Same([p EXCEPT !.captured = c], p) BY DEF Same, Shows, PageOK, PageShape
<1> QED BY <1>1, <1>2

LEMMA TimerField ==
  ASSUME NEW p, PageOK(p)
  PROVE  /\ Same([p EXCEPT !.timer = FALSE], p)
         /\ p.listening \in {"ext", "smart"} => Same([p EXCEPT !.timer = TRUE], p)
<1>1. ASSUME NEW x, x = TRUE => p.listening \in {"ext", "smart"} PROVE Same([p EXCEPT !.timer = x], p)
  <2>1. Tuned([p EXCEPT !.timer = x], p, x, p.listening) BY TunedField DEF PageOK
  <2> QED BY <1>1, <2>1 DEF Same, Shows, PageOK, Tuned
<1>2. FALSE # TRUE OBVIOUS
<1> QED BY <1>1, <1>2

LEMMA TellingField ==
  ASSUME NEW p, PageOK(p), NEW x
  PROVE  /\ Shows([p EXCEPT !.restoring = x], p.embedded, x, p.user, p.tm, p.untouched)
         /\ Shows([p EXCEPT !.tm = x], p.embedded, p.restoring, p.user, x, p.untouched)
         /\ Shows([p EXCEPT !.untouched = x], p.embedded, p.restoring, p.user, p.tm, x)
         /\ x \in Users \cup {Nobody} =>
              Shows([p EXCEPT !.user = x], p.embedded, p.restoring, x, p.tm, p.untouched)
<1>1. Shows([p EXCEPT !.restoring = x], p.embedded, x, p.user, p.tm, p.untouched)
  BY DEF Shows, PageOK, PageShape
<1>2. Shows([p EXCEPT !.tm = x], p.embedded, p.restoring, p.user, x, p.untouched)
  BY DEF Shows, PageOK, PageShape
<1>3. Shows([p EXCEPT !.untouched = x], p.embedded, p.restoring, p.user, p.tm, x)
  BY DEF Shows, PageOK, PageShape
<1>4. x \in Users \cup {Nobody} =>
        Shows([p EXCEPT !.user = x], p.embedded, p.restoring, x, p.tm, p.untouched)
  BY DEF Shows, PageOK, PageShape
<1> QED BY <1>1, <1>2, <1>3, <1>4

\* The wallet effect, for a page whose flag for a wallet may just have changed.
LEMMA Effect ==
  ASSUME NEW p, PageShape(p), p.selected \in Chains, p.captured \in Chains,
         p.user \in Users \cup {Nobody}
  PROVE  Same(WalletEffect(p), p)
<1> DEFINE w == ActiveProvider(p)
           l == IF p.timer THEN p.late \cup {p.seen} ELSE p.late
           t == w # "none"
           q1 == [p EXCEPT !.late = l]
           q2 == [q1 EXCEPT !.timer = t]
           q3 == [q2 EXCEPT !.listening = w]
           q == [q3 EXCEPT !.seen = p.selected]
<1>1. WalletEffect(p) = q BY DEF WalletEffect
<1>2. /\ t = TRUE => p.embedded = TRUE \/ bound.extension = TRUE
      /\ w = "ext" => bound.extension = TRUE
      /\ w = "smart" => p.embedded = TRUE
  BY DEF ActiveProvider
<1> HIDE DEF w, l, t
<1>3. Tuned(q1, p, p.timer, p.listening) BY TunedField
<1> HIDE DEF q1
<1>4. Tuned(q2, q1, t, q1.listening)
  <2>1. PageShape(q1) BY <1>3 DEF Tuned
  <2> QED BY <2>1, TunedField
<1> HIDE DEF q2
<1>5. Tuned(q3, q2, q2.timer, w)
  <2>1. PageShape(q2) BY <1>4 DEF Tuned
  <2> QED BY <2>1, TunedField
<1> HIDE DEF q3
<1>6. Tuned(q, q3, q3.timer, q3.listening)
  <2>1. PageShape(q3) BY <1>5 DEF Tuned
  <2> QED BY <2>1, TunedField
<1> HIDE DEF q
<1>7. Tuned(q, p, t, w) BY <1>3, <1>4, <1>5, <1>6 DEF Tuned
<1>8. Same(q, p) BY <1>2, <1>7 DEF Same, Shows, PageOK, Tuned
<1> QED BY <1>1, <1>8

LEMMA Embeds ==
  ASSUME NEW p, PageOK(p), NEW on
  PROVE  Shows(SetEmbeddedProvider(p, on), on, p.restoring, p.user, p.tm, p.untouched)
<1> DEFINE q == [p EXCEPT !.embedded = on]
<1>1. /\ PageShape(q) /\ q.selected = p.selected /\ q.captured = p.captured /\ q.user = p.user
      /\ q.embedded = on /\ q.restoring = p.restoring /\ q.tm = p.tm /\ q.untouched = p.untouched
  BY DEF PageOK, PageShape
<1>2. SetEmbeddedProvider(p, on) = WalletEffect(q) BY DEF SetEmbeddedProvider
<1> HIDE DEF q
<1>3. Same(WalletEffect(q), q) BY <1>1, Effect DEF PageOK
<1> QED BY <1>1, <1>2, <1>3 DEF Same

LEMMA SignsIn ==
  ASSUME NEW p, PageOK(p), NEW on
  PROVE  Same(SigningIn(p, on), p)
<1> DEFINE q == [p EXCEPT !.signing = on]
<1>1. Same(q, p) BY QuietField
<1>2. q.selected = p.selected BY DEF PageOK, PageShape
<1>3. SigningIn(p, on) = [q EXCEPT !.captured = p.selected]
  BY DEF SigningIn
<1> HIDE DEF q
<1>4. Same([q EXCEPT !.captured = p.selected], q) BY <1>1, ChainField DEF Same, Shows, PageOK
<1> QED BY <1>1, <1>3, <1>4 DEF Same, Shows

LEMMA ChainSame ==
  ASSUME NEW p, PageOK(p), NEW w \in {"ext", "smart"}, NEW c \in Chains
  PROVE  Same(ChainChanged(p, w, c), p)
<1> DEFINE q == [p EXCEPT !.selected = c]
<1>1. Same(q, p) BY ChainField
<1>2. q.listening = p.listening BY DEF PageOK, PageShape
<1>3. \/ ChainChanged(p, w, c) = p
      \/ p.listening = w /\ ChainChanged(p, w, c) = [q EXCEPT !.timer = TRUE]
  BY DEF ChainChanged, Hears
<1> HIDE DEF q
<1>4. p.listening = w => Same([q EXCEPT !.timer = TRUE], q)
  BY <1>1, <1>2, TimerField DEF Same, Shows
<1>5. Same(p, p) BY QuietField
<1> QED BY <1>1, <1>3, <1>4, <1>5 DEF Same, Shows

LEMMA Clears ==
  ASSUME NEW p, PageOK(p)
  PROVE  Shows(Cleared(p), p.embedded, p.restoring, Nobody, NoManager, p.untouched)
<1> DEFINE q == [p EXCEPT !.user = Nobody]
<1>1. Shows(q, p.embedded, p.restoring, Nobody, p.tm, p.untouched) BY TellingField
<1>2. Cleared(p) = [q EXCEPT !.tm = NoManager] BY DEF Cleared
<1> HIDE DEF q
<1>3. PageOK(q) BY <1>1 DEF Shows
<1>4. \A x : Shows([q EXCEPT !.tm = x], q.embedded, q.restoring, q.user, x, q.untouched)
  BY <1>3, TellingField
<1> QED BY <1>1, <1>2, <1>4 DEF Shows

LEMMA AccountsTold ==
  ASSUME NEW p, PageOK(p), NEW w \in {"ext", "smart"}, NEW a
  PROVE  LET q == AccountsChanged(p, w, a) IN
         \/ Same(q, p)
         \/ a = Nobody /\ Shows(q, p.embedded, p.restoring, Nobody, NoManager, p.untouched)
<1> DEFINE q == Cleared(p)
<1>1. Shows(q, p.embedded, p.restoring, Nobody, NoManager, p.untouched) BY Clears
<1> HIDE DEF q
<1>2. Same([q EXCEPT !.busy = FALSE], q) BY <1>1, QuietField DEF Shows
<1>3. p.listening = w => Same([p EXCEPT !.timer = TRUE], p) BY TimerField
<1>4. Same(p, p) BY QuietField
<1>5. \/ AccountsChanged(p, w, a) = p
      \/ a = Nobody /\ AccountsChanged(p, w, a) = [q EXCEPT !.busy = FALSE]
      \/ p.listening = w /\ AccountsChanged(p, w, a) = [p EXCEPT !.timer = TRUE]
  BY DEF AccountsChanged, Hears, q
<1> QED BY <1>1, <1>2, <1>3, <1>4, <1>5 DEF Same, Shows

\* A page whose smart wallet has signed out believes in it no more.
Out(q, p) ==
    /\ Shows(q, FALSE, p.restoring, q.user, q.tm, p.untouched)
    /\ \/ q.user = p.user /\ q.tm = p.tm
       \/ q.user = Nobody /\ q.tm = NoManager

LEMMA Leaves ==
  ASSUME NEW p, PageOK(p)
  PROVE  Out(SmartWalletLeft(p), p)
<1> DEFINE q == AccountsChanged(p, "smart", Nobody)
<1>1. \/ Same(q, p)
      \/ Shows(q, p.embedded, p.restoring, Nobody, NoManager, p.untouched)
  BY AccountsTold
<1>2. SmartWalletLeft(p) = SetEmbeddedProvider(q, FALSE) BY DEF SmartWalletLeft, SignedOut
<1> HIDE DEF q
<1>3. PageOK(q) BY <1>1 DEF Same, Shows
<1>4. Shows(SetEmbeddedProvider(q, FALSE), FALSE, q.restoring, q.user, q.tm, q.untouched)
  BY <1>3, Embeds
<1> QED BY <1>1, <1>2, <1>4 DEF Out, Same, Shows

LEMMA LogsOut ==
  ASSUME NEW p, PageOK(p)
  PROVE  Shows(LoggedOut(p), p.embedded, p.restoring, Nobody, NoManager, p.untouched)
<1> DEFINE q == Cleared(p)
           q1 == [q EXCEPT !.reconnecting = FALSE]
<1>1. Shows(q, p.embedded, p.restoring, Nobody, NoManager, p.untouched) BY Clears
<1>2. LoggedOut(p) = [q1 EXCEPT !.busy = FALSE] BY DEF LoggedOut
<1> HIDE DEF q
<1>3. Same(q1, q) BY <1>1, QuietField DEF Shows
<1> HIDE DEF q1
<1>4. Same([q1 EXCEPT !.busy = FALSE], q1)
  <2>1. PageOK(q1) BY <1>3 DEF Same, Shows
  <2> QED BY <2>1, QuietField
<1> QED BY <1>1, <1>2, <1>3, <1>4 DEF Same, Shows

LEMMA Ends ==
  ASSUME NEW p, PageOK(p), NEW kind
  PROVE  Same(Ended(p, kind), p)
BY QuietField, SignsIn DEF Ended

LEMMA OtherEnds ==
  ASSUME NEW p, PageOK(p), NEW kind
  PROVE  /\ Same(Thrown(p, kind), p)
         /\ Same(Returned(p, kind), p)
         /\ Same(Connected(p, kind), p)
<1> DEFINE q == [p EXCEPT !.reconnecting = FALSE]
           r == [p EXCEPT !.stranded = @ \/ p.reconnecting]
<1>1. Same(q, p) /\ Same(r, p) /\ Same(p, p) BY QuietField
<1>2. /\ Thrown(p, kind) = IF kind = "auto" THEN Ended(q, kind) ELSE Ended(p, kind)
      /\ Returned(p, kind) = Ended(r, kind)
      /\ Connected(p, kind) = IF kind = "effect" THEN p ELSE Ended(q, kind)
  BY DEF Thrown, Returned, Connected
<1> HIDE DEF q, r
<1>3. Same(Ended(q, kind), q) /\ Same(Ended(r, kind), r) /\ Same(Ended(p, kind), p)
  BY <1>1, Ends DEF Same, Shows
<1> QED BY <1>1, <1>2, <1>3 DEF Same, Shows

-----------------------------------------------------------------------------
(* Managers, runs, and the invariant.                                      *)

ManagerShape(m) ==
    m = [user |-> m.user, chain |-> m.chain, via |-> m.via, personal |-> m.personal,
         active |-> m.active, blind |-> m.blind]

\* What a chain with the vaults v says of the vault id.
Mine(v, c, id, u) == id \in DOMAIN v[c] /\ v[c][id].personal /\ v[c][id].creator = u
HasOne(v, c, u) == \E id \in DOMAIN v[c] : Mine(v, c, id, u)

\* A manager remembers what is right.
ManagerOK(v, m) ==
    /\ ManagerShape(m)
    /\ m.user \in Users /\ m.chain \in Chains
    /\ m.personal # None => Mine(v, m.chain, m.personal, m.user)
    /\ m.active # None => m.active \in DOMAIN v[m.chain]

\* It has looked for the user's vault, and has found it if there was one.
Looked(m) == m.blind = TRUE \/ m.personal # None

RunShape(r) == r = [kind |-> r.kind, pc |-> r.pc, seen |-> r.seen, tm |-> r.tm]

RunOK(v, r) ==
    /\ RunShape(r)
    /\ r.kind \in Kinds /\ r.pc \in Pcs /\ r.seen \in Chains
    /\ r.pc \in {"load", "list", "restore", "done"} => ManagerOK(v, r.tm)
    /\ r.pc = "list" => r.tm.blind = TRUE \/ HasOne(v, r.tm.chain, r.tm.user)
    /\ r.pc \in {"restore", "done"} => Looked(r.tm)

Places ==
    /\ bound \in Bounds
    /\ ext \in [account : ExtAccounts \cup {Nobody}, chain : Chains]
    /\ hosted \in [connected : BOOLEAN, chain : Chains]

StoreShape(s) ==
    s = [loggedOut |-> s.loggedOut, passkey |-> s.passkey, network |-> s.network,
         personal |-> s.personal, active |-> s.active]

Stored == StoreShape(storage) /\ storage.network \in Deployed

AllVaults == FirstVaults \cup {Vault(u) : u \in Users}
OnChain == vaults \in [Chains -> Seq(AllVaults)]

PageThere == PageOK(page)

Shown == page.tm # NoManager => ManagerOK(vaults, page.tm) /\ Looked(page.tm)

Running ==
    /\ DOMAIN runs = Slots
    /\ \A s \in Slots : runs[s] = NoRun \/ RunOK(vaults, runs[s])

\* A lock-in that has not landed, and the one that the page waits for: while
\* the manager that sent it is the page's, it lands where that one looks.
Sent == mempool = {} \/ \E u \in Users, c \in Chains : mempool = {[user |-> u, chain |-> c]}

LockShape(k) == k = [user |-> k.user, via |-> k.via, same |-> k.same, id |-> k.id]

Waits ==
    lock # NoLock =>
      /\ LockShape(lock)
      /\ lock.same = TRUE =>
           /\ page.tm # NoManager /\ page.tm.user = lock.user
           /\ lock.id = None => mempool = {[user |-> page.tm.user, chain |-> page.tm.chain]}
           /\ lock.id # None => mempool = {} /\ Mine(vaults, page.tm.chain, lock.id, lock.user)

\* After a reload of someone who logged out, nothing has begun.
Untouched ==
    page.untouched = TRUE =>
      /\ storage.loggedOut = TRUE /\ lock = NoLock
      /\ page.user = Nobody /\ page.tm = NoManager
      /\ \A s \in Slots : runs[s] = NoRun

\* A page that believes in the smart wallet has it or waits for an answer.
PopupOpen == \E s \in Slots : runs[s] # NoRun /\ runs[s].pc = "popup"
Signed ==
    page.embedded = TRUE => hosted.connected = TRUE \/ page.restoring = TRUE \/ PopupOpen

SessionInv ==
    /\ Places /\ Stored /\ OnChain /\ PageThere /\ Shown /\ Running
    /\ Sent /\ Waits /\ Untouched /\ Signed

\* Chains only grow, and what is right stays right.
Grows(v, w) ==
    \A c \in Chains : \A id \in DOMAIN v[c] : id \in DOMAIN w[c] /\ w[c][id] = v[c][id]

LEMMA StaysRight ==
  ASSUME NEW v, NEW w, Grows(v, w)
  PROVE  /\ \A m : ManagerOK(v, m) => ManagerOK(w, m)
         /\ \A r : RunOK(v, r) => RunOK(w, r)
<1>1. ASSUME NEW c \in Chains, NEW id, NEW u, Mine(v, c, id, u) PROVE Mine(w, c, id, u)
  BY <1>1 DEF Grows, Mine
<1>2. ASSUME NEW m, ManagerOK(v, m) PROVE ManagerOK(w, m)
  BY <1>1, <1>2 DEF ManagerOK, Grows
<1>3. ASSUME NEW c \in Chains, NEW u, HasOne(v, c, u) PROVE HasOne(w, c, u)
  <2>1. PICK id \in DOMAIN v[c] : Mine(v, c, id, u) BY <1>3 DEF HasOne
  <2>2. id \in DOMAIN w[c] BY DEF Grows
  <2> QED BY <1>1, <2>1, <2>2 DEF HasOne
<1>4. ASSUME NEW r, RunOK(v, r) PROVE RunOK(w, r)
  <2>1. r.pc = "list" => r.tm.chain \in Chains BY <1>4 DEF RunOK, ManagerOK
  <2> QED BY <1>2, <1>3, <1>4, <2>1 DEF RunOK
<1> QED BY <1>2, <1>4

\* A run is none or has a kind.
LEMMA RunIsSome == \A v, r : RunOK(v, r) => r # NoRun
BY DEF RunOK, NoRun, Kinds

LEMMA ManagerIsSome == \A v, m : ManagerOK(v, m) => m # NoManager
BY SessionAssumption DEF ManagerOK, NoManager

-----------------------------------------------------------------------------
(* What a step may leave alone.                                            *)

\* localStorage with the flag and the preference given.
Keeps(q, loggedOut, network) ==
    StoreShape(q) /\ q.loggedOut = loggedOut /\ q.network = network

LEMMA StoreField ==
  ASSUME NEW s, StoreShape(s), NEW x
  PROVE  /\ Keeps([s EXCEPT !.loggedOut = x], x, s.network)
         /\ Keeps([s EXCEPT !.network = x], s.loggedOut, x)
         /\ Keeps([s EXCEPT !.passkey = x], s.loggedOut, s.network)
         /\ Keeps([s EXCEPT !.personal = x], s.loggedOut, s.network)
         /\ Keeps([s EXCEPT !.active = x], s.loggedOut, s.network)
         /\ Keeps(s, s.loggedOut, s.network)
<1>1. Keeps([s EXCEPT !.loggedOut = x], x, s.network) BY DEF Keeps, StoreShape
<1>2. Keeps([s EXCEPT !.network = x], s.loggedOut, x) BY DEF Keeps, StoreShape
<1>3. Keeps([s EXCEPT !.passkey = x], s.loggedOut, s.network) BY DEF Keeps, StoreShape
<1>4. Keeps([s EXCEPT !.personal = x], s.loggedOut, s.network) BY DEF Keeps, StoreShape
<1>5. Keeps([s EXCEPT !.active = x], s.loggedOut, s.network) BY DEF Keeps, StoreShape
<1> QED BY <1>1, <1>2, <1>3, <1>4, <1>5 DEF Keeps

LEMMA StoreEntry ==
  ASSUME NEW s, StoreShape(s), NEW u, NEW x
  PROVE  /\ Keeps([s EXCEPT !.personal[u] = x], s.loggedOut, s.network)
         /\ Keeps([s EXCEPT !.active[u] = x], s.loggedOut, s.network)
<1> DEFINE y == [s.personal EXCEPT ![u] = x]
           z == [s.active EXCEPT ![u] = x]
<1>1. /\ [s EXCEPT !.personal[u] = x] = [s EXCEPT !.personal = y]
      /\ [s EXCEPT !.active[u] = x] = [s EXCEPT !.active = z]
  OBVIOUS
<1> HIDE DEF y, z
<1> QED BY <1>1, StoreField

\* The page's manager stays and so does the lock-in, or neither is waited for.
LEMMA ManagersKept ==
  ASSUME SessionInv, UNCHANGED chainVars,
         \/ page'.tm = page.tm /\ lock' = lock
         \/ /\ lock' = IF lock = NoLock THEN lock ELSE [lock EXCEPT !.same = FALSE]
            /\ page'.tm # NoManager => ManagerOK(vaults, page'.tm) /\ Looked(page'.tm)
         \/ /\ lock' = NoLock
            /\ page'.tm # NoManager => ManagerOK(vaults, page'.tm) /\ Looked(page'.tm)
  PROVE  OnChain' /\ Shown' /\ Sent' /\ Waits'
<1>1. OnChain' /\ Sent' BY DEF SessionInv, OnChain, Sent, chainVars
<1>2. vaults' = vaults /\ mempool' = mempool /\ Shown /\ Waits BY DEF SessionInv, chainVars
<1>3. CASE page'.tm = page.tm /\ lock' = lock
  BY <1>1, <1>2, <1>3 DEF Shown, Waits
<1>4. CASE /\ lock' = IF lock = NoLock THEN lock ELSE [lock EXCEPT !.same = FALSE]
           /\ page'.tm # NoManager => ManagerOK(vaults, page'.tm) /\ Looked(page'.tm)
  <2>1. Shown' BY <1>2, <1>4 DEF Shown
  <2>2. CASE lock = NoLock BY <1>1, <1>4, <2>1, <2>2 DEF Waits
  <2>3. CASE lock # NoLock
    <3>1. LockShape(lock') /\ lock'.same = FALSE
      BY <1>2, <1>4, <2>3 DEF Waits, LockShape
    <3> QED BY <1>1, <2>1, <3>1 DEF Waits
  <2> QED BY <2>2, <2>3
<1>5. CASE /\ lock' = NoLock
           /\ page'.tm # NoManager => ManagerOK(vaults, page'.tm) /\ Looked(page'.tm)
  BY <1>1, <1>2, <1>5 DEF Shown, Waits
<1> QED BY <1>3, <1>4, <1>5

\* The page's manager stays or goes, and the lock-in with it.
LEMMA SendersKept ==
  ASSUME SessionInv, UNCHANGED chainVars, SenderForgotten,
         page'.tm = page.tm \/ page'.tm = NoManager
  PROVE  OnChain' /\ Shown' /\ Sent' /\ Waits'
<1>1. CASE page'.tm = page.tm BY <1>1, ManagersKept DEF SenderForgotten
<1>2. CASE page'.tm # page.tm BY <1>2, ManagersKept DEF SenderForgotten
<1> QED BY <1>1, <1>2

\* Untouched, or touched already.
LEMMA UntouchedKept ==
  ASSUME Untouched,
         \/ page'.untouched # TRUE
         \/ /\ page'.untouched = page.untouched
            /\ \/ page.untouched # TRUE
               \/ /\ page'.user = page.user /\ page'.tm = page.tm /\ lock' = lock
                  /\ storage'.loggedOut = storage.loggedOut /\ runs' = runs
  PROVE  Untouched'
BY DEF Untouched

LEMMA SignedKept ==
  ASSUME Signed, page'.embedded = page.embedded, page'.restoring = page.restoring,
         hosted.connected = TRUE => hosted'.connected = TRUE,
         PopupOpen => PopupOpen'
  PROVE  Signed'
BY DEF Signed

LEMMA RunSet ==
  ASSUME Running, vaults' = vaults, NEW s \in Slots, NEW x, x = NoRun \/ RunOK(vaults, x),
         runs' = [runs EXCEPT ![s] = x]
  PROVE  /\ Running'
         /\ runs[s] = NoRun \/ runs[s].pc # "popup" => (PopupOpen => PopupOpen')
<1>1. Running' BY DEF Running
<1>2. ASSUME runs[s] = NoRun \/ runs[s].pc # "popup", PopupOpen PROVE PopupOpen'
  <2>1. PICK i \in Slots : runs[i] # NoRun /\ runs[i].pc = "popup" BY <1>2 DEF PopupOpen
  <2>2. runs'[i] = runs[i] BY <1>2, <2>1 DEF Running
  <2> QED BY <2>1, <2>2 DEF PopupOpen
<1> QED BY <1>1, <1>2

\* A run with its fields given.
RunIs(q, kind, pc, seen, tm) ==
    RunShape(q) /\ q.kind = kind /\ q.pc = pc /\ q.seen = seen /\ q.tm = tm

LEMMA RunField ==
  ASSUME NEW r, RunShape(r), NEW x
  PROVE  /\ RunIs([r EXCEPT !.kind = x], x, r.pc, r.seen, r.tm)
         /\ RunIs([r EXCEPT !.pc = x], r.kind, x, r.seen, r.tm)
         /\ RunIs([r EXCEPT !.tm = x], r.kind, r.pc, r.seen, x)
<1>1. RunIs([r EXCEPT !.kind = x], x, r.pc, r.seen, r.tm) BY DEF RunIs, RunShape
<1>2. RunIs([r EXCEPT !.pc = x], r.kind, x, r.seen, r.tm) BY DEF RunIs, RunShape
<1>3. RunIs([r EXCEPT !.tm = x], r.kind, r.pc, r.seen, x) BY DEF RunIs, RunShape
<1> QED BY <1>1, <1>2, <1>3

LEMMA NewRun ==
  ASSUME NEW kind, NEW pc, NEW seen
  PROVE  RunIs(Run(kind, pc, seen), kind, pc, seen, NoManager)
BY DEF Run, RunIs, RunShape

\* The first steps of a run need no manager.
LEMMA EarlyRun ==
  ASSUME NEW v, NEW q, NEW kind \in Kinds, NEW seen \in Chains, NEW tm,
         NEW pc \in {"check", "connect", "move", "ensure", "ask", "popup", "signer", "leave"},
         RunIs(q, kind, pc, seen, tm)
  PROVE  RunOK(v, q)
BY DEF RunIs, RunOK, Pcs

LEMMA RunAdvances ==
  ASSUME NEW v, NEW r, RunOK(v, r),
         NEW pc \in {"check", "connect", "move", "ensure", "ask", "popup", "signer", "leave"}
  PROVE  RunOK(v, [r EXCEPT !.pc = pc])
<1>1. RunShape(r) /\ r.kind \in Kinds /\ r.seen \in Chains BY DEF RunOK
<1>2. RunIs([r EXCEPT !.pc = pc], r.kind, pc, r.seen, r.tm) BY <1>1, RunField
<1> QED BY <1>1, <1>2, EarlyRun

\* A step that only lets one run go on, which was not at a popup.
LEMMA OneRunGoesOn ==
  ASSUME SessionInv, NEW s \in Slots, runs[s] # NoRun, runs[s].pc # "popup",
         Places', Stored', UNCHANGED <<chainVars, lock, bound>>, Same(page', page),
         hosted.connected = TRUE => hosted'.connected = TRUE,
         NEW x, x = NoRun \/ RunOK(vaults, x), runs' = [runs EXCEPT ![s] = x]
  PROVE  SessionInv'
<1>0. PageThere' BY DEF PageThere, PageOK, Same, Shows
<1>1. OnChain' /\ Shown' /\ Sent' /\ Waits' BY ManagersKept DEF Same, Shows
<1>2. Running' /\ (PopupOpen => PopupOpen') BY RunSet DEF SessionInv, chainVars
<1>3. Untouched'
  <2>1. page.untouched # TRUE BY DEF SessionInv, Untouched
  <2> QED BY <2>1, UntouchedKept DEF SessionInv, Same, Shows
<1>4. Signed' BY <1>2, SignedKept DEF SessionInv, Same, Shows
<1> QED BY <1>0, <1>1, <1>2, <1>3, <1>4 DEF SessionInv

-----------------------------------------------------------------------------
(* The silent reconnection.                                                *)

LEMMA LeastIsIn ==
  ASSUME NEW S, S \subseteq Nat, S # {}
  PROVE  (CHOOSE i \in S : \A j \in S : i <= j) \in S
<1> DEFINE R == {ss \in Nat \X Nat : ss[1] < ss[2]}
<1>1. IsWellFoundedOn(R, Nat) BY NatLessThanWellFounded DEF OpToRel
<1>2. \A i, j \in Nat : j < i => <<j, i>> \in R OBVIOUS
<1> HIDE DEF R
<1>3. \E i \in S : \A j \in S : ~ (<<j, i>> \in R) BY <1>1, WFMin
<1>4. PICK i \in S : \A j \in S : ~ (<<j, i>> \in R) BY <1>3
<1>5. ASSUME NEW j \in S PROVE i <= j
  <2>1. i \in Nat /\ j \in Nat OBVIOUS
  <2>2. ~ (j < i) BY <1>2, <1>4, <2>1
  <2> QED BY <2>1, <2>2
<1> QED BY <1>5

LEMMA WhereThingsAre ==
  ASSUME Places
  PROVE  /\ bound.slots \subseteq Slots /\ Slots \subseteq Nat
         /\ \A w : ChainOf(w) \in Chains /\ AccountOf(w) \in Users \cup {Nobody}
         /\ \A c : ActiveNetwork(c) \in Deployed
         /\ Deployed \subseteq Chains /\ hosted.connected \in BOOLEAN
<1>1. \A w : ChainOf(w) \in Chains BY DEF Places, ChainOf
<1>2. \A w : AccountOf(w) \in Users \cup {Nobody} BY DEF Places, AccountOf, Users
<1>3. \A c : ActiveNetwork(c) \in Deployed BY SessionAssumption DEF ActiveNetwork
<1> QED BY <1>1, <1>2, <1>3, SessionAssumption DEF Places

LEMMA PlacesKept == Places /\ UNCHANGED <<wallets, bound>> => Places'
BY DEF Places, wallets

LEMMA RestoreAnswerStep ==
  ASSUME SessionInv, NEW failed \in BOOLEAN, RestoreAnswer(failed)
  PROVE  SessionInv'
<1> DEFINE p == [page EXCEPT !.restoring = FALSE]
<1>0. PageOK(page) /\ Places /\ Stored BY DEF SessionInv, PageThere
<1>1. Shows(p, page.embedded, FALSE, page.user, page.tm, page.untouched)
  BY <1>0, TellingField
<1>2. /\ page' = IF failed THEN SignedOut(p) ELSE p
      /\ storage' = IF failed THEN [storage EXCEPT !.passkey = FALSE] ELSE storage
      /\ UNCHANGED <<wallets, chainVars, runs, lock, bound>>
      /\ ~failed => hosted.connected
  BY DEF RestoreAnswer, Fails
<1> HIDE DEF p
<1>3. \/ Shows(page', FALSE, FALSE, page.user, page.tm, page.untouched)
      \/ Shows(page', page.embedded, FALSE, page.user, page.tm, page.untouched) /\ hosted.connected
  <2>1. PageOK(p) BY <1>1 DEF Shows
  <2>2. Shows(SetEmbeddedProvider(p, FALSE), FALSE, p.restoring, p.user, p.tm, p.untouched)
    BY <2>1, Embeds
  <2> QED BY <1>1, <1>2, <2>2 DEF Shows, SignedOut
<1>4. PageThere' /\ page'.user = page.user /\ page'.tm = page.tm /\ page'.untouched = page.untouched
  BY <1>2, <1>3 DEF PageThere, Shows, PageOK
<1>5. Stored' /\ storage'.loggedOut = storage.loggedOut
  <2>1. Keeps(storage', storage.loggedOut, storage.network) BY <1>0, <1>2, StoreField DEF Stored
  <2> QED BY <1>0, <2>1 DEF Keeps, Stored
<1>6. Places' BY <1>0, <1>2, PlacesKept
<1>7. OnChain' /\ Shown' /\ Sent' /\ Waits' BY <1>2, <1>4, ManagersKept
<1>8. Running' BY <1>2 DEF SessionInv, Running, chainVars
<1>9. Untouched' BY <1>2, <1>4, <1>5, UntouchedKept DEF SessionInv
<1>10. Signed'
  <2>1. hosted.connected => hosted.connected = TRUE BY <1>0, WhereThingsAre
  <2>2. hosted' = hosted BY <1>2 DEF wallets
  <2>3. page'.embedded = FALSE \/ hosted.connected BY <1>3 DEF Shows
  <2> QED BY <2>1, <2>2, <2>3 DEF Signed
<1> QED BY <1>4, <1>5, <1>6, <1>7, <1>8, <1>9, <1>10 DEF SessionInv

LEMMA CheckStep ==
  ASSUME SessionInv, NEW s \in Slots, NEW failed \in BOOLEAN, Check(s, failed)
  PROVE  SessionInv'
<1> DEFINE r == runs[s]
<1>0. PageOK(page) /\ Places /\ Stored /\ Running BY DEF SessionInv, PageThere
<1>1. /\ r # NoRun /\ r.pc = "check"
      /\ \/ page' = Thrown(page, "auto") /\ runs' = [runs EXCEPT ![s] = NoRun]
         \/ page' = page /\ runs' = [runs EXCEPT ![s] = [r EXCEPT !.pc = "connect"]]
      /\ UNCHANGED <<wallets, chainVars, storage, lock, bound>>
  BY DEF Check, At, Idle
<1>2. RunOK(vaults, r) BY <1>0, <1>1 DEF Running
<1> HIDE DEF r
<1>3. RunOK(vaults, [r EXCEPT !.pc = "connect"]) BY <1>2, RunAdvances
<1>4. \E x : (x = NoRun \/ RunOK(vaults, x)) /\ runs' = [runs EXCEPT ![s] = x]
  BY <1>1, <1>3
<1>5. Same(page', page) BY <1>0, <1>1, OtherEnds, QuietField
<1>6. Places' /\ Stored' BY <1>0, <1>1, PlacesKept DEF Stored
<1>7. hosted' = hosted BY <1>1 DEF wallets
<1> QED BY <1>1, <1>4, <1>5, <1>6, <1>7, OneRunGoesOn DEF r

LEMMA AutoConnectStep ==
  ASSUME SessionInv, NEW s \in Slots, NEW seen \in Chains, AutoConnect(s, seen)
  PROVE  SessionInv'
<1>0. PageOK(page) /\ Places /\ Stored /\ Running BY DEF SessionInv, PageThere
<1>1. runs[s] = NoRun /\ UNCHANGED <<wallets, chainVars, storage, lock, bound>>
  BY DEF AutoConnect, Free, Idle
<1>2. PICK current \in BOOLEAN :
        LET p == IF current THEN [page EXCEPT !.timer = FALSE]
                 ELSE [page EXCEPT !.late = @ \ {seen}]
        IN  IF IsWalletLoggedOut
            THEN page' = [p EXCEPT !.reconnecting = FALSE] /\ UNCHANGED runs
            ELSE IF ~HasWallet \/ page.busy
            THEN /\ page' = [p EXCEPT !.stranded = @ \/ (p.reconnecting /\ ~HasWallet)]
                 /\ UNCHANGED runs
            ELSE /\ page' = [p EXCEPT !.busy = TRUE]
                 /\ runs' = [runs EXCEPT ![s] = Run("auto", "check", seen)]
  BY DEF AutoConnect
<1> DEFINE p == IF current THEN [page EXCEPT !.timer = FALSE]
                ELSE [page EXCEPT !.late = @ \ {seen}]
<1>3. Same(p, page) BY <1>0, TimerField, QuietField
<1>4. /\ \E x : \/ page' = [p EXCEPT !.reconnecting = x]
                \/ page' = [p EXCEPT !.stranded = x]
                \/ page' = [p EXCEPT !.busy = x]
      /\ \/ runs' = runs
         \/ ~storage.loggedOut /\ runs' = [runs EXCEPT ![s] = Run("auto", "check", seen)]
  BY <1>2 DEF IsWalletLoggedOut
<1> HIDE DEF p
<1>5. PageOK(p) BY <1>3 DEF Same, Shows
<1>6. Same(page', p) BY <1>4, <1>5, QuietField
<1>7. Same(page', page) BY <1>3, <1>6 DEF Same, Shows
<1>8. PageThere' BY <1>1, <1>7 DEF PageThere, PageOK, Same, Shows
<1>9. Places' /\ Stored' BY <1>0, <1>1, PlacesKept DEF Stored
<1>10. OnChain' /\ Shown' /\ Sent' /\ Waits' BY <1>1, <1>7, ManagersKept DEF Same, Shows
<1>11. Running' /\ (PopupOpen => PopupOpen')
  <2>1. CASE runs' = runs BY <1>0, <1>1, <2>1 DEF Running, PopupOpen, chainVars
  <2>2. CASE runs' = [runs EXCEPT ![s] = Run("auto", "check", seen)]
    <3> DEFINE x == Run("auto", "check", seen)
    <3>1. RunIs(x, "auto", "check", seen, NoManager) BY NewRun
    <3> HIDE DEF x
    <3>2. RunOK(vaults, x) BY <3>1, EarlyRun DEF Kinds
    <3> QED BY <1>0, <1>1, <2>2, <3>2, RunSet DEF chainVars, x
  <2> QED BY <1>4, <2>1, <2>2
<1>12. Untouched'
  BY <1>1, <1>4, <1>7, UntouchedKept DEF SessionInv, Same, Shows, Untouched
<1>13. Signed' BY <1>1, <1>7, <1>11, SignedKept DEF SessionInv, Same, Shows, wallets
<1> QED BY <1>8, <1>9, <1>10, <1>11, <1>12, <1>13 DEF SessionInv

LEMMA ConnectStep ==
  ASSUME SessionInv, NEW s \in Slots, Connect(s)
  PROVE  SessionInv'
<1> DEFINE r == runs[s]
           w == ActiveProvider(page)
           here == ChainOf(w)
           wanted == ActiveNetwork(r.seen)
           net == IF w = "smart" /\ here \in Deployed THEN here ELSE wanted
           p == IF net # r.seen THEN [page EXCEPT !.selected = net] ELSE page
<1>0. PageOK(page) /\ Places /\ Stored /\ Running BY DEF SessionInv, PageThere
<1>1. net \in Deployed /\ net \in Chains BY <1>0, WhereThingsAre
<1>2. /\ r # NoRun /\ r.pc = "connect"
      /\ UNCHANGED <<wallets, chainVars, lock, bound>>
      /\ storage' = storage \/ storage' = [storage EXCEPT !.network = net]
      /\ \/ page' = Thrown(page, r.kind) \/ page' = p \/ page' = Returned(p, r.kind)
      /\ \/ runs' = [runs EXCEPT ![s] = NoRun]
         \/ runs' = [runs EXCEPT ![s] = [r EXCEPT !.pc = "signer"]]
         \/ runs' = [runs EXCEPT ![s] = [r EXCEPT !.pc = "move"]]
  BY DEF Connect, At, Idle
<1>3. RunOK(vaults, r) BY <1>0, <1>2 DEF Running
<1> HIDE DEF net
<1>4. Same(p, page) BY <1>0, <1>1, ChainField, QuietField
<1> HIDE DEF r, p
<1>5. PageOK(p) BY <1>4 DEF Same, Shows
<1>6. Same(page', page)
  <2>1. Same(Thrown(page, r.kind), page) /\ Same(Returned(p, r.kind), p) BY <1>0, <1>5, OtherEnds
  <2> QED BY <1>2, <1>4, <2>1 DEF Same, Shows
<1>7. \E x : (x = NoRun \/ RunOK(vaults, x)) /\ runs' = [runs EXCEPT ![s] = x]
  BY <1>2, <1>3, RunAdvances
<1>8. Stored'
  <2>1. StoreShape(storage) BY <1>0 DEF Stored
  <2>2. Keeps([storage EXCEPT !.network = net], storage.loggedOut, net) BY <2>1, StoreField
  <2> QED BY <1>0, <1>1, <1>2, <2>2 DEF Stored, Keeps
<1>9. Places' /\ hosted' = hosted BY <1>0, <1>2, PlacesKept DEF wallets
<1> QED BY <1>2, <1>6, <1>7, <1>8, <1>9, OneRunGoesOn DEF r

LEMMA MoveStep ==
  ASSUME SessionInv, NEW s \in Slots, NEW yes \in BOOLEAN, Move(s, yes)
  PROVE  SessionInv'
<1> DEFINE r == runs[s]
           net == ActiveNetwork(r.seen)
<1>0. PageOK(page) /\ Places /\ Stored /\ Running BY DEF SessionInv, PageThere
<1>1. net \in Chains BY <1>0, WhereThingsAre
<1>2. /\ r # NoRun /\ r.pc = "move"
      /\ UNCHANGED <<ext, chainVars, storage, lock, bound>>
      /\ hosted' = hosted \/ hosted' = [hosted EXCEPT !.chain = net]
      /\ page' = ChainChanged(page, "smart", net) \/ page' = Returned(page, r.kind)
      /\ \/ runs' = [runs EXCEPT ![s] = NoRun]
         \/ runs' = [runs EXCEPT ![s] = [r EXCEPT !.pc = "signer"]]
  BY DEF Move, At, Idle
<1>3. RunOK(vaults, r) BY <1>0, <1>2 DEF Running
<1> HIDE DEF r, net
<1>4. Same(page', page)
  <2>1. Same(Returned(page, r.kind), page) BY <1>0, OtherEnds
  <2>2. Same(ChainChanged(page, "smart", net), page) BY <1>0, <1>1, ChainSame
  <2> QED BY <1>2, <2>1, <2>2
<1>5. \E x : (x = NoRun \/ RunOK(vaults, x)) /\ runs' = [runs EXCEPT ![s] = x]
  BY <1>2, <1>3, RunAdvances
<1>6. Places' /\ hosted'.connected = hosted.connected BY <1>0, <1>1, <1>2 DEF Places
<1>7. Stored' BY <1>0, <1>2 DEF Stored
<1> QED BY <1>2, <1>4, <1>5, <1>6, <1>7, OneRunGoesOn DEF r

\* A manager with what it knows given.
ManagerIs(q, m, personal, active, blind) ==
    /\ ManagerShape(q) /\ q.user = m.user /\ q.chain = m.chain
    /\ q.personal = personal /\ q.active = active /\ q.blind = blind

LEMMA ManagerField ==
  ASSUME NEW m, ManagerShape(m), NEW x
  PROVE  /\ ManagerIs([m EXCEPT !.personal = x], m, x, m.active, m.blind)
         /\ ManagerIs([m EXCEPT !.active = x], m, m.personal, x, m.blind)
         /\ ManagerIs([m EXCEPT !.blind = x], m, m.personal, m.active, x)
<1>1. ManagerIs([m EXCEPT !.personal = x], m, x, m.active, m.blind) BY DEF ManagerIs, ManagerShape
<1>2. ManagerIs([m EXCEPT !.active = x], m, m.personal, x, m.blind) BY DEF ManagerIs, ManagerShape
<1>3. ManagerIs([m EXCEPT !.blind = x], m, m.personal, m.active, x) BY DEF ManagerIs, ManagerShape
<1> QED BY <1>1, <1>2, <1>3

LEMMA LearnsPersonal ==
  ASSUME NEW v, NEW m, ManagerOK(v, m), NEW id, id # None, Mine(v, m.chain, id, m.user)
  PROVE  ManagerOK(v, [m EXCEPT !.personal = id]) /\ Looked([m EXCEPT !.personal = id])
<1>1. ManagerShape(m) BY DEF ManagerOK
<1>2. ManagerIs([m EXCEPT !.personal = id], m, id, m.active, m.blind) BY <1>1, ManagerField
<1> QED BY <1>2 DEF ManagerIs, ManagerOK, Looked

LEMMA LearnsActive ==
  ASSUME NEW v, NEW m, ManagerOK(v, m), Looked(m), NEW id, id # None => id \in DOMAIN v[m.chain]
  PROVE  ManagerOK(v, [m EXCEPT !.active = id]) /\ Looked([m EXCEPT !.active = id])
<1>1. ManagerShape(m) BY DEF ManagerOK
<1>2. ManagerIs([m EXCEPT !.active = id], m, m.personal, id, m.blind) BY <1>1, ManagerField
<1> QED BY <1>2 DEF ManagerIs, ManagerOK, Looked

LEMMA LearnsBlind ==
  ASSUME NEW v, NEW m, ManagerOK(v, m), NEW x
  PROVE  LET q == [m EXCEPT !.blind = x] IN
         ManagerOK(v, q) /\ q.blind = x /\ q.personal = m.personal
                         /\ q.chain = m.chain /\ q.user = m.user
<1>1. ManagerShape(m) BY DEF ManagerOK
<1>2. ManagerIs([m EXCEPT !.blind = x], m, m.personal, m.active, x) BY <1>1, ManagerField
<1> QED BY <1>2 DEF ManagerIs, ManagerOK

\* A run that goes on with a manager.
LEMMA RunLearns ==
  ASSUME NEW v, NEW r, RunOK(v, r), NEW pc \in {"list", "restore", "done"}, NEW m, ManagerOK(v, m),
         pc = "list" => m.blind = TRUE \/ HasOne(v, m.chain, m.user),
         pc # "list" => Looked(m)
  PROVE  RunOK(v, [[r EXCEPT !.pc = pc] EXCEPT !.tm = m])
<1> DEFINE a == [r EXCEPT !.pc = pc]
           b == [a EXCEPT !.tm = m]
<1>1. RunShape(r) BY DEF RunOK
<1>2. RunIs(a, r.kind, pc, r.seen, r.tm) BY <1>1, RunField
<1> HIDE DEF a
<1>3. RunShape(a) BY <1>2 DEF RunIs
<1>4. RunIs(b, a.kind, a.pc, a.seen, m) BY <1>3, RunField
<1> HIDE DEF b
<1>5. RunOK(v, b) BY <1>2, <1>4 DEF RunIs, RunOK, Pcs
<1> QED BY <1>5 DEF a, b

LEMMA OnChainIds ==
  ASSUME OnChain, NEW c \in Chains
  PROVE  /\ DOMAIN vaults[c] \subseteq Nat \ {None}
         /\ \A u : PersonalVaults(c, u) \subseteq Nat \ {None}
         /\ \A u, id : IsPersonalOf(c, id, u) <=> Mine(vaults, c, id, u)
         /\ \A u : PersonalVaults(c, u) # {} => HasOne(vaults, c, u)
<1>1. vaults[c] \in Seq(AllVaults) BY DEF OnChain
<1>2. DOMAIN vaults[c] = 1 .. Len(vaults[c]) BY <1>1
<1>3. Len(vaults[c]) \in Nat BY <1>1
<1>4. DOMAIN vaults[c] \subseteq Nat \ {None} BY <1>2, <1>3 DEF None
<1>5. \A u, id : IsPersonalOf(c, id, u) <=> Mine(vaults, c, id, u)
  BY DEF IsPersonalOf, Mine, Exists
<1> QED BY <1>4, <1>5 DEF PersonalVaults, HasOne

LEMMA LoadPersonalStep ==
  ASSUME SessionInv, NEW s \in Slots, NEW failed \in BOOLEAN, LoadPersonal(s, failed)
  PROVE  SessionInv'
<1> DEFINE r == runs[s]
           tm == runs[s].tm
           id == storage.personal[tm.user]
           blind == failed \/ PersonalVaults(tm.chain, tm.user) = {}
<1>0. PageOK(page) /\ Places /\ Stored /\ Running /\ OnChain BY DEF SessionInv, PageThere
<1>1. /\ r # NoRun /\ r.pc = "load"
      /\ UNCHANGED <<wallets, chainVars, page, lock, bound>>
      /\ \/ /\ id # None /\ IsPersonalOf(tm.chain, id, tm.user)
            /\ runs' = [runs EXCEPT ![s].pc = "restore", ![s].tm.personal = id]
            /\ storage' = storage
         \/ /\ runs' = [runs EXCEPT ![s].pc = "list", ![s].tm.blind = blind]
            /\ storage' = [storage EXCEPT !.personal[tm.user] = None]
  BY DEF LoadPersonal, At, Idle, Accepts, AfterLoad
<1>2. RunOK(vaults, r) /\ s \in DOMAIN runs BY <1>0, <1>1 DEF Running
<1>3. ManagerOK(vaults, tm) /\ tm.chain \in Chains BY <1>1, <1>2 DEF RunOK, ManagerOK
<1>4. /\ [runs EXCEPT ![s].pc = "restore", ![s].tm.personal = id]
           = [runs EXCEPT ![s] = [[r EXCEPT !.pc = "restore"] EXCEPT !.tm = [tm EXCEPT !.personal = id]]]
      /\ [runs EXCEPT ![s].pc = "list", ![s].tm.blind = blind]
           = [runs EXCEPT ![s] = [[r EXCEPT !.pc = "list"] EXCEPT !.tm = [tm EXCEPT !.blind = blind]]]
  BY <1>2 DEF RunOK, RunShape
<1>5. blind # TRUE => HasOne(vaults, tm.chain, tm.user) BY <1>0, <1>3, OnChainIds
<1>6. IsPersonalOf(tm.chain, id, tm.user) => Mine(vaults, tm.chain, id, tm.user)
  BY <1>0, <1>3, OnChainIds
<1> HIDE DEF r, tm, id, blind
<1>7. \E x : (x = NoRun \/ RunOK(vaults, x)) /\ runs' = [runs EXCEPT ![s] = x]
  <2>1. CASE /\ id # None /\ IsPersonalOf(tm.chain, id, tm.user)
             /\ runs' = [runs EXCEPT ![s].pc = "restore", ![s].tm.personal = id]
    <3> DEFINE m == [tm EXCEPT !.personal = id]
    <3>1. ManagerOK(vaults, m) /\ Looked(m) BY <1>3, <1>6, <2>1, LearnsPersonal
    <3> HIDE DEF m
    <3>2. RunOK(vaults, [[r EXCEPT !.pc = "restore"] EXCEPT !.tm = m]) BY <1>2, <3>1, RunLearns
    <3> QED BY <1>4, <2>1, <3>2 DEF m
  <2>2. CASE runs' = [runs EXCEPT ![s].pc = "list", ![s].tm.blind = blind]
    <3> DEFINE m == [tm EXCEPT !.blind = blind]
    <3>1. ManagerOK(vaults, m) /\ m.blind = blind /\ m.chain = tm.chain /\ m.user = tm.user
      BY <1>3, LearnsBlind
    <3> HIDE DEF m
    <3>2. RunOK(vaults, [[r EXCEPT !.pc = "list"] EXCEPT !.tm = m]) BY <1>2, <1>5, <3>1, RunLearns
    <3> QED BY <1>4, <2>2, <3>2 DEF m
  <2> QED BY <1>1, <2>1, <2>2
<1>8. Stored'
  <2>1. StoreShape(storage) BY <1>0 DEF Stored
  <2>2. Keeps([storage EXCEPT !.personal[tm.user] = None], storage.loggedOut, storage.network)
    BY <2>1, StoreEntry
  <2> QED BY <1>0, <1>1, <2>2 DEF Stored, Keeps
<1>9. Same(page', page) /\ Places' /\ hosted' = hosted
  BY <1>0, <1>1, PlacesKept, QuietField DEF wallets
<1> QED BY <1>1, <1>7, <1>8, <1>9, OneRunGoesOn DEF r

LEMMA ListPersonalStep ==
  ASSUME SessionInv, NEW s \in Slots, NEW failed \in BOOLEAN, ListPersonal(s, failed)
  PROVE  SessionInv'
<1> DEFINE r == runs[s]
           tm == runs[s].tm
           mine == IF failed THEN {} ELSE PersonalVaults(tm.chain, tm.user)
           id == CHOOSE i \in mine : \A j \in mine : i <= j
           blind == tm.blind \/ failed
<1>0. PageOK(page) /\ Places /\ Stored /\ Running /\ OnChain BY DEF SessionInv, PageThere
<1>1. /\ r # NoRun /\ r.pc = "list"
      /\ UNCHANGED <<wallets, chainVars, page, lock, bound>>
      /\ \/ /\ mine = {} /\ storage' = storage
            /\ runs' = [runs EXCEPT ![s].pc = "restore", ![s].tm.blind = blind]
         \/ /\ mine # {} /\ storage' = [storage EXCEPT !.personal[tm.user] = id]
            /\ runs' = [runs EXCEPT ![s].pc = "restore", ![s].tm.personal = id]
  BY DEF ListPersonal, At, Idle
<1>2. RunOK(vaults, r) /\ s \in DOMAIN runs BY <1>0, <1>1 DEF Running
<1>3. /\ ManagerOK(vaults, tm) /\ tm.chain \in Chains
      /\ tm.blind = TRUE \/ HasOne(vaults, tm.chain, tm.user)
  BY <1>1, <1>2 DEF RunOK, ManagerOK
<1>4. mine = {} => blind = TRUE
  <2>1. CASE failed BY <2>1
  <2>2. CASE ~failed
    <3>1. mine = {} => ~HasOne(vaults, tm.chain, tm.user)
      BY <2>2, <1>0, <1>3, OnChainIds DEF HasOne, PersonalVaults
    <3> QED BY <3>1, <1>3
  <2> QED BY <2>1, <2>2
<1>5. mine # {} => id # None /\ Mine(vaults, tm.chain, id, tm.user)
  <2>1. mine \subseteq Nat \ {None} /\ mine \subseteq PersonalVaults(tm.chain, tm.user)
    BY <1>0, <1>3, OnChainIds
  <2> HIDE DEF mine
  <2>2. mine # {} => id \in mine BY <2>1, LeastIsIn
  <2>3. mine # {} => IsPersonalOf(tm.chain, id, tm.user) BY <2>1, <2>2 DEF PersonalVaults
  <2> QED BY <1>0, <1>3, <2>1, <2>2, <2>3, OnChainIds
<1> HIDE DEF id, blind, mine
<1>6. /\ [runs EXCEPT ![s].pc = "restore", ![s].tm.personal = id]
           = [runs EXCEPT ![s] = [[r EXCEPT !.pc = "restore"] EXCEPT !.tm = [tm EXCEPT !.personal = id]]]
      /\ [runs EXCEPT ![s].pc = "restore", ![s].tm.blind = blind]
           = [runs EXCEPT ![s] = [[r EXCEPT !.pc = "restore"] EXCEPT !.tm = [tm EXCEPT !.blind = blind]]]
  BY <1>2 DEF RunOK, RunShape
<1> HIDE DEF r, tm
<1>7. \E x : (x = NoRun \/ RunOK(vaults, x)) /\ runs' = [runs EXCEPT ![s] = x]
  <2>1. CASE /\ mine # {}
             /\ runs' = [runs EXCEPT ![s].pc = "restore", ![s].tm.personal = id]
    <3> DEFINE m == [tm EXCEPT !.personal = id]
    <3>1. ManagerOK(vaults, m) /\ Looked(m) BY <1>3, <1>5, <2>1, LearnsPersonal
    <3> HIDE DEF m
    <3>2. RunOK(vaults, [[r EXCEPT !.pc = "restore"] EXCEPT !.tm = m]) BY <1>2, <3>1, RunLearns
    <3> QED BY <1>6, <2>1, <3>2 DEF m
  <2>2. CASE mine = {} /\ runs' = [runs EXCEPT ![s].pc = "restore", ![s].tm.blind = blind]
    <3> DEFINE m == [tm EXCEPT !.blind = blind]
    <3>1. ManagerOK(vaults, m) /\ m.blind = blind BY <1>3, LearnsBlind
    <3> HIDE DEF m
    <3>2. Looked(m) BY <1>4, <2>2, <3>1 DEF Looked
    <3>3. RunOK(vaults, [[r EXCEPT !.pc = "restore"] EXCEPT !.tm = m]) BY <1>2, <3>1, <3>2, RunLearns
    <3> QED BY <1>6, <2>2, <3>3 DEF m
  <2> QED BY <1>1, <2>1, <2>2
<1>8. Stored'
  <2>1. StoreShape(storage) BY <1>0 DEF Stored
  <2>2. Keeps([storage EXCEPT !.personal[tm.user] = id], storage.loggedOut, storage.network)
    BY <2>1, StoreEntry
  <2> QED BY <1>0, <1>1, <2>2 DEF Stored, Keeps
<1>9. Same(page', page) /\ Places' /\ hosted' = hosted
  BY <1>0, <1>1, PlacesKept, QuietField DEF wallets
<1> QED BY <1>1, <1>7, <1>8, <1>9, OneRunGoesOn DEF r

LEMMA RestoreActiveStep ==
  ASSUME SessionInv, NEW s \in Slots, NEW failed \in BOOLEAN, RestoreActive(s, failed)
  PROVE  SessionInv'
<1> DEFINE r == runs[s]
           tm == runs[s].tm
           id == storage.active[tm.user]
           a == IF id # None /\ ~failed /\ StillThere(tm, id) THEN id ELSE None
<1>0. PageOK(page) /\ Places /\ Stored /\ Running /\ OnChain BY DEF SessionInv, PageThere
<1>1. /\ r # NoRun /\ r.pc = "restore"
      /\ UNCHANGED <<wallets, chainVars, page, lock, bound>>
      /\ runs' = [runs EXCEPT ![s].pc = "done", ![s].tm.active = a]
      /\ \/ storage' = storage
         \/ storage' = [storage EXCEPT !.active[tm.user] = None]
  BY DEF RestoreActive, At, Idle
<1>2. RunOK(vaults, r) /\ s \in DOMAIN runs BY <1>0, <1>1 DEF Running
<1>3. ManagerOK(vaults, tm) /\ Looked(tm) BY <1>1, <1>2 DEF RunOK
<1>4. [runs EXCEPT ![s].pc = "done", ![s].tm.active = a]
        = [runs EXCEPT ![s] = [[r EXCEPT !.pc = "done"] EXCEPT !.tm = [tm EXCEPT !.active = a]]]
  BY <1>2 DEF RunOK, RunShape
<1>5. a # None => a \in DOMAIN vaults[tm.chain] BY DEF StillThere, Exists
<1> HIDE DEF r, tm, id, a
<1>6. RunOK(vaults, [[r EXCEPT !.pc = "done"] EXCEPT !.tm = [tm EXCEPT !.active = a]])
  <2> DEFINE m == [tm EXCEPT !.active = a]
  <2>1. ManagerOK(vaults, m) /\ Looked(m) BY <1>3, <1>5, LearnsActive
  <2> HIDE DEF m
  <2>2. RunOK(vaults, [[r EXCEPT !.pc = "done"] EXCEPT !.tm = m]) BY <1>2, <2>1, RunLearns
  <2> QED BY <2>2 DEF m
<1>7. Stored'
  <2>1. StoreShape(storage) BY <1>0 DEF Stored
  <2>2. Keeps([storage EXCEPT !.active[tm.user] = None], storage.loggedOut, storage.network)
    BY <2>1, StoreEntry
  <2> QED BY <1>0, <1>1, <2>2 DEF Stored, Keeps
<1>8. Same(page', page) /\ Places' /\ hosted' = hosted
  BY <1>0, <1>1, PlacesKept, QuietField DEF wallets
<1> QED BY <1>1, <1>4, <1>6, <1>7, <1>8, OneRunGoesOn DEF r

LEMMA SignerStep ==
  ASSUME SessionInv, NEW s \in Slots, NEW failed \in BOOLEAN, Signer(s, failed)
  PROVE  SessionInv'
<1> DEFINE r == runs[s]
           w == ActiveProvider(page)
           m == Manager(w)
           u == AccountOf(w)
           x == [Run(r.kind, "load", r.seen) EXCEPT !.tm = m]
           y == [x EXCEPT !.kind = "effect"]
           others == {i \in bound.slots : Idle(i)}
           i == CHOOSE j \in others : \A k \in others : j <= k
<1>0. PageOK(page) /\ Places /\ Stored /\ Running BY DEF SessionInv, PageThere
<1>1. /\ r # NoRun /\ r.pc = "signer"
      /\ UNCHANGED <<wallets, chainVars, storage, lock, bound>>
      /\ \/ page' = Returned(page, r.kind) /\ runs' = [runs EXCEPT ![s] = NoRun]
         \/ /\ ~NoSigner(w) /\ page' = [page EXCEPT !.user = u]
            /\ runs' = Initialising(s, x)
      /\ w = "none" \/ u # Nobody
  BY DEF Signer, Prompting, At, Idle, Fails
<1>2. RunOK(vaults, r) BY <1>0, <1>1 DEF Running
<1>3. Places' /\ Stored' /\ hosted' = hosted BY <1>0, <1>1, PlacesKept DEF Stored, wallets
<1>4. CASE page' = Returned(page, r.kind) /\ runs' = [runs EXCEPT ![s] = NoRun]
  <2> HIDE DEF r
  <2>1. Same(page', page) BY <1>0, <1>4, OtherEnds
  <2> QED BY <1>1, <1>3, <1>4, <2>1, OneRunGoesOn DEF r
<1>5. CASE /\ ~NoSigner(w) /\ page' = [page EXCEPT !.user = u]
           /\ runs' = Initialising(s, x)
  <2>1. u \in Users /\ ChainOf(w) \in Chains BY <1>0, <1>1, <1>5, WhereThingsAre DEF NoSigner
  <2>2. ManagerOK(vaults, m) BY <2>1 DEF Manager, ManagerOK, ManagerShape
  <2>3. \/ runs' = [runs EXCEPT ![s] = x]
        \/ others # {} /\ runs' = [runs EXCEPT ![s] = x, ![i] = y]
    BY <1>5 DEF Initialising
  <2>4. others # {} => i \in others
    <3>1. others \subseteq Nat BY <1>0, WhereThingsAre
    <3> HIDE DEF others
    <3> QED BY <3>1, LeastIsIn
  <2>5. i \in others => i \in Slots /\ runs[i] = NoRun BY <1>0, WhereThingsAre DEF Idle
  <2>6. s \notin others BY <1>1 DEF Idle
  <2> HIDE DEF m, u, w, others, i
  <2>7. RunIs(x, r.kind, "load", r.seen, m)
    <3> DEFINE z == Run(r.kind, "load", r.seen)
    <3>1. RunIs(z, r.kind, "load", r.seen, NoManager) BY NewRun
    <3> HIDE DEF z
    <3>2. RunShape(z) BY <3>1 DEF RunIs
    <3>3. RunIs([z EXCEPT !.tm = m], z.kind, z.pc, z.seen, m) BY <3>2, RunField
    <3> QED BY <3>1, <3>3 DEF RunIs, z
  <2> HIDE DEF x
  <2>8. RunIs(y, "effect", x.pc, x.seen, x.tm)
    <3>1. RunShape(x) BY <2>7 DEF RunIs
    <3> QED BY <3>1, RunField
  <2> HIDE DEF y
  <2>9. RunOK(vaults, x) /\ RunOK(vaults, y)
    BY <1>2, <2>2, <2>7, <2>8 DEF RunIs, RunOK, Kinds, Pcs
  <2>10. Running' /\ (PopupOpen => PopupOpen')
    <3>1. CASE runs' = [runs EXCEPT ![s] = x]
      BY <1>0, <1>1, <2>9, <3>1, RunSet DEF chainVars
    <3>2. CASE others # {} /\ runs' = [runs EXCEPT ![s] = x, ![i] = y]
      <4>1. i \in Slots /\ runs[i] = NoRun /\ i # s BY <2>4, <2>5, <2>6, <3>2
      <4>2. Running' BY <1>0, <1>1, <2>9, <3>2, <4>1 DEF Running, chainVars
      <4>3. ASSUME NEW j \in Slots, runs[j] # NoRun, runs[j].pc = "popup"
            PROVE  runs'[j] = runs[j]
        BY <1>0, <1>1, <3>2, <4>1, <4>3 DEF Running
      <4> QED BY <4>2, <4>3 DEF PopupOpen
    <3> QED BY <2>3, <3>1, <3>2
  <2>11. Shows(page', page.embedded, page.restoring, u, page.tm, page.untouched)
    BY <1>0, <1>5, <2>1, TellingField
  <2>12. PageThere' BY <1>1, <2>11 DEF PageThere, PageOK, Shows
  <2>13. OnChain' /\ Shown' /\ Sent' /\ Waits' BY <1>1, <2>11, ManagersKept DEF Shows
  <2>14. Untouched'
    <3>1. page.untouched # TRUE BY <1>1 DEF SessionInv, Untouched
    <3> QED BY <2>11, <3>1, UntouchedKept DEF SessionInv, Shows
  <2>15. Signed' BY <1>3, <2>10, <2>11, SignedKept DEF SessionInv, Shows
  <2> QED BY <1>3, <2>10, <2>12, <2>13, <2>14, <2>15 DEF SessionInv
<1> QED BY <1>1, <1>4, <1>5

LEMMA DoneStep ==
  ASSUME SessionInv, NEW s \in Slots, Done(s)
  PROVE  SessionInv'
<1> DEFINE r == runs[s]
           p == Connected(page, r.kind)
<1>0. PageOK(page) /\ Places /\ Stored /\ Running BY DEF SessionInv, PageThere
<1>1. /\ r # NoRun /\ r.pc = "done"
      /\ page' = [p EXCEPT !.tm = r.tm] /\ runs' = [runs EXCEPT ![s] = NoRun]
      /\ lock' = IF lock = NoLock THEN lock ELSE [lock EXCEPT !.same = FALSE]
      /\ UNCHANGED <<wallets, chainVars, storage, bound>>
  BY DEF Done, At, Idle
<1>2. RunOK(vaults, r) BY <1>0, <1>1 DEF Running
<1>3. ManagerOK(vaults, r.tm) /\ Looked(r.tm) BY <1>1, <1>2 DEF RunOK
<1>4. Same(p, page) BY <1>0, OtherEnds
<1>5. Running' /\ (PopupOpen => PopupOpen') BY <1>0, <1>1, RunSet DEF chainVars
<1>6. page.untouched # TRUE BY <1>1 DEF SessionInv, Untouched
<1> HIDE DEF r, p
<1>7. PageOK(p) BY <1>4 DEF Same, Shows
<1>8. Shows(page', p.embedded, p.restoring, p.user, r.tm, p.untouched)
  BY <1>1, <1>7, TellingField
<1>9. Shows(page', page.embedded, page.restoring, page.user, r.tm, page.untouched)
  BY <1>4, <1>8 DEF Same, Shows
<1>10. PageThere' BY <1>1, <1>9 DEF PageThere, PageOK, Shows
<1>11. OnChain' /\ Shown' /\ Sent' /\ Waits' BY <1>1, <1>3, <1>9, ManagersKept DEF Shows
<1>12. Places' /\ Stored' /\ hosted' = hosted BY <1>0, <1>1, PlacesKept DEF Stored, wallets
<1>13. Untouched' BY <1>6, <1>9, UntouchedKept DEF SessionInv, Shows
<1>14. Signed' BY <1>5, <1>9, <1>12, SignedKept DEF SessionInv, Shows
<1> QED BY <1>5, <1>10, <1>11, <1>12, <1>13, <1>14 DEF SessionInv

-----------------------------------------------------------------------------
(* The buttons.                                                            *)

\* connectWallet goes on from a page, in a slot that is free or its own.
LEMMA GoesOn ==
  ASSUME SessionInv, vaults' = vaults, NEW s \in Slots, runs[s] = NoRun \/ runs[s].pc # "popup",
         NEW p, PageOK(p), NEW seen \in Chains, GoOn(s, p, seen)
  PROVE  Same(page', p) /\ Running' /\ (PopupOpen => PopupOpen')
<1> DEFINE x == Run("press", "ensure", seen)
<1>1. page' = p \/ page' = [p EXCEPT !.busy = TRUE] BY DEF GoOn
<1>2. runs' = [runs EXCEPT ![s] = NoRun] \/ runs' = [runs EXCEPT ![s] = x] BY DEF GoOn
<1>3. Same(p, p) /\ Same([p EXCEPT !.busy = TRUE], p) BY QuietField
<1>4. RunIs(x, "press", "ensure", seen, NoManager) BY NewRun
<1> HIDE DEF x
<1>5. RunOK(vaults, x) BY <1>4, EarlyRun DEF Kinds
<1>6. Running' /\ (PopupOpen => PopupOpen') BY <1>2, <1>5, RunSet DEF SessionInv
<1> QED BY <1>1, <1>3, <1>6

LEMMA PressConnectStep ==
  ASSUME SessionInv, NEW s \in Slots, PressConnect(s)
  PROVE  SessionInv'
<1> DEFINE p == [page EXCEPT !.untouched = FALSE]
           leaving == page.embedded /\ bound.extension
           x == Run("press", "leave", page.selected)
           s0 == [storage EXCEPT !.loggedOut = FALSE]
           passkey == storage.passkey /\ ~leaving
<1>0. PageOK(page) /\ Places /\ Stored /\ Running BY DEF SessionInv, PageThere
<1>1. /\ runs[s] = NoRun /\ UNCHANGED <<wallets, chainVars, lock, bound>>
      /\ \/ page' = p /\ runs' = [runs EXCEPT ![s] = x]
         \/ GoOn(s, p, page.selected)
  BY DEF PressConnect, Free, Idle
<1>2. storage' = [s0 EXCEPT !.passkey = passkey]
  BY <1>0 DEF PressConnect, Stored, StoreShape
<1>3. Shows(p, page.embedded, page.restoring, page.user, page.tm, FALSE)
  BY <1>0, TellingField
<1> HIDE DEF p
<1>4. page.selected \in Chains /\ PageOK(p) BY <1>0, <1>3 DEF PageOK, Shows
<1>5. Same(page', p) /\ Running' /\ (PopupOpen => PopupOpen')
  <2>1. CASE page' = p /\ runs' = [runs EXCEPT ![s] = x]
    <3>1. RunIs(x, "press", "leave", page.selected, NoManager) BY NewRun
    <3> HIDE DEF x
    <3>2. RunOK(vaults, x) BY <1>4, <3>1, EarlyRun DEF Kinds
    <3>3. Running' /\ (PopupOpen => PopupOpen') BY <1>0, <1>1, <2>1, <3>2, RunSet DEF chainVars
    <3> QED BY <1>4, <2>1, <3>3, QuietField
  <2>2. CASE GoOn(s, p, page.selected) BY <1>1, <1>4, <2>2, GoesOn DEF chainVars
  <2> QED BY <1>1, <2>1, <2>2
<1>6. Shows(page', page.embedded, page.restoring, page.user, page.tm, FALSE)
  BY <1>3, <1>5 DEF Same, Shows
<1>7. PageThere' BY <1>1, <1>6 DEF PageThere, PageOK, Shows
<1>8. Places' /\ hosted' = hosted BY <1>0, <1>1, PlacesKept DEF wallets
<1>9. Stored'
  <2>1. StoreShape(storage) BY <1>0 DEF Stored
  <2>2. Keeps(s0, FALSE, storage.network) BY <2>1, StoreField
  <2> HIDE DEF s0, passkey
  <2>3. StoreShape(s0) BY <2>2 DEF Keeps
  <2>4. Keeps([s0 EXCEPT !.passkey = passkey], s0.loggedOut, s0.network) BY <2>3, StoreField
  <2> QED BY <1>0, <1>2, <2>2, <2>4 DEF Keeps, Stored
<1>10. OnChain' /\ Shown' /\ Sent' /\ Waits' BY <1>1, <1>6, ManagersKept DEF Shows
<1>11. Untouched' BY <1>6 DEF Untouched, Shows
<1>12. Signed' BY <1>5, <1>6, <1>8, SignedKept DEF SessionInv, Shows
<1> QED BY <1>5, <1>7, <1>8, <1>9, <1>10, <1>11, <1>12 DEF SessionInv

LEMMA LeaveThenConnectStep ==
  ASSUME SessionInv, NEW s \in Slots, LeaveThenConnect(s)
  PROVE  SessionInv'
<1> DEFINE r == runs[s]
           p == SmartWalletLeft(page)
<1>0. PageOK(page) /\ Places /\ Stored /\ Running BY DEF SessionInv, PageThere
<1>1. /\ r # NoRun /\ r.pc = "leave"
      /\ hosted' = [hosted EXCEPT !.connected = FALSE]
      /\ GoOn(s, p, r.seen) /\ SenderForgotten
      /\ UNCHANGED <<ext, chainVars, storage, bound>>
  BY DEF LeaveThenConnect, At, Idle
<1>2. r.seen \in Chains BY <1>0, <1>1 DEF Running, RunOK
<1>3. page.untouched # TRUE BY <1>1 DEF SessionInv, Untouched
<1>4. Out(p, page) BY <1>0, Leaves
<1> HIDE DEF p
<1>5. PageOK(p) BY <1>4 DEF Out, Shows
<1>6. Same(page', p) /\ Running' BY <1>1, <1>2, <1>5, GoesOn DEF chainVars
<1>7. Out(page', page) BY <1>4, <1>6 DEF Out, Same, Shows
<1>8. PageThere' BY <1>1, <1>7 DEF PageThere, PageOK, Out, Shows
<1>9. Places' /\ Stored' BY <1>0, <1>1 DEF Places, Stored
<1>10. OnChain' /\ Shown' /\ Sent' /\ Waits' BY <1>1, <1>7, SendersKept DEF Out
<1>11. Untouched' BY <1>3, <1>7, UntouchedKept DEF SessionInv, Out, Shows
<1>12. Signed' BY <1>7 DEF Signed, Out, Shows
<1> QED BY <1>6, <1>8, <1>9, <1>10, <1>11, <1>12 DEF SessionInv

LEMMA EnsureNetworkStep ==
  ASSUME SessionInv, NEW s \in Slots, NEW yes \in BOOLEAN, EnsureNetwork(s, yes)
  PROVE  SessionInv'
<1> DEFINE r == runs[s]
           net == r.seen
           w == ActiveProvider(page)
<1>0. PageOK(page) /\ Places /\ Stored /\ Running BY DEF SessionInv, PageThere
<1>1. /\ r # NoRun /\ r.pc = "ensure"
      /\ UNCHANGED <<chainVars, storage, lock, bound>>
      /\ hosted' = hosted \/ hosted' = [hosted EXCEPT !.chain = net]
      /\ ext' = ext \/ ext' = [ext EXCEPT !.chain = net]
      /\ \/ w # "none" /\ page' = ChainChanged(page, w, net)
         \/ page' = Thrown(page, "press")
      /\ \/ runs' = [runs EXCEPT ![s] = NoRun]
         \/ runs' = [runs EXCEPT ![s] = [r EXCEPT !.pc = "ask"]]
  BY DEF EnsureNetwork, At, Idle, wallets
<1>2. RunOK(vaults, r) BY <1>0, <1>1 DEF Running
<1>3. net \in Chains /\ w \in {"smart", "ext", "none"} BY <1>2 DEF RunOK, ActiveProvider
<1> HIDE DEF r, net, w
<1>4. Same(page', page)
  <2>1. w # "none" => Same(ChainChanged(page, w, net), page) BY <1>0, <1>3, ChainSame
  <2>2. Same(Thrown(page, "press"), page) BY <1>0, OtherEnds
  <2> QED BY <1>1, <2>1, <2>2
<1>5. \E x : (x = NoRun \/ RunOK(vaults, x)) /\ runs' = [runs EXCEPT ![s] = x]
  BY <1>1, <1>2, RunAdvances
<1>6. Places' /\ hosted'.connected = hosted.connected BY <1>0, <1>1, <1>3 DEF Places
<1>7. Stored' BY <1>0, <1>1 DEF Stored
<1> QED BY <1>1, <1>4, <1>5, <1>6, <1>7, OneRunGoesOn DEF r

\* A wallet that is asked for an account shares it.
LEMMA Grants ==
  ASSUME PageOK(page), Places, bound' = bound, NEW w \in {"smart", "ext"},
         NEW a \in Users \cup {Nobody}, a # Nobody, Grant(w, a)
  PROVE  Same(page', page) /\ Places' /\ (hosted.connected = TRUE => hosted'.connected = TRUE)
<1>1. a \in Granted(w) BY DEF Grant
<1>2. w = "ext" => a \in ExtAccounts \cup {Nobody}
  BY <1>1 DEF Granted, Places, AccountOf
<1>3. Same(page', page) BY AccountsTold DEF Grant
<1>4. Places' /\ (hosted.connected = TRUE => hosted'.connected = TRUE)
  BY <1>2 DEF Grant, Places
<1> QED BY <1>3, <1>4

LEMMA RequestAccountsStep ==
  ASSUME SessionInv, NEW s \in Slots, NEW a \in Users \cup {Nobody}, RequestAccounts(s, a)
  PROVE  SessionInv'
<1> DEFINE r == runs[s]
           w == ActiveProvider(page)
<1>0. PageOK(page) /\ Places /\ Stored /\ Running BY DEF SessionInv, PageThere
<1>1. r # NoRun /\ r.pc = "ask" /\ UNCHANGED <<chainVars, storage, lock, bound>>
  BY DEF RequestAccounts, At, Idle
<1>2. RunOK(vaults, r) BY <1>0, <1>1 DEF Running
<1>3. Stored' BY <1>0, <1>1 DEF Stored
<1>4. CASE a = Nobody \/ w = "none"
  <2>1. page' = Thrown(page, "press") /\ runs' = [runs EXCEPT ![s] = NoRun] /\ UNCHANGED wallets
    BY <1>4 DEF RequestAccounts
  <2>2. Same(page', page) BY <1>0, <2>1, OtherEnds
  <2>3. Places' /\ hosted' = hosted BY <1>0, <1>1, <2>1, PlacesKept DEF wallets
  <2> QED BY <1>1, <1>3, <2>1, <2>2, <2>3, OneRunGoesOn
<1>5. CASE a # Nobody /\ w # "none"
  <2>1. Grant(w, a) /\ runs' = [runs EXCEPT ![s] = [r EXCEPT !.pc = "connect"]]
    BY <1>5 DEF RequestAccounts
  <2>2. w \in {"smart", "ext"} BY <1>5 DEF ActiveProvider
  <2> HIDE DEF r, w
  <2>3. Same(page', page) /\ Places' /\ (hosted.connected = TRUE => hosted'.connected = TRUE)
    BY <1>0, <1>1, <1>5, <2>1, <2>2, Grants
  <2>4. RunOK(vaults, [r EXCEPT !.pc = "connect"]) BY <1>2, RunAdvances
  <2> QED BY <1>1, <1>3, <2>1, <2>3, <2>4, OneRunGoesOn DEF r
<1> QED BY <1>4, <1>5

LEMMA AnswerSignerStep ==
  ASSUME SessionInv, NEW s \in Slots, NEW a \in Users \cup {Nobody}, AnswerSigner(s, a)
  PROVE  SessionInv'
<1> DEFINE r == runs[s]
           w == ActiveProvider(page)
<1>0. PageOK(page) /\ Places /\ Stored /\ Running BY DEF SessionInv, PageThere
<1>1. /\ r # NoRun /\ r.pc = "signer" /\ w # "none"
      /\ UNCHANGED <<chainVars, storage, lock, bound>>
  BY DEF AnswerSigner, Prompting, At, Idle
<1>2. RunOK(vaults, r) BY <1>0, <1>1 DEF Running
<1>3. Stored' BY <1>0, <1>1 DEF Stored
<1>4. CASE a = Nobody
  <2>1. page' = Returned(page, r.kind) /\ runs' = [runs EXCEPT ![s] = NoRun] /\ UNCHANGED wallets
    BY <1>4 DEF AnswerSigner
  <2>2. Same(page', page) BY <1>0, <2>1, OtherEnds
  <2>3. Places' /\ hosted' = hosted BY <1>0, <1>1, <2>1, PlacesKept DEF wallets
  <2> QED BY <1>1, <1>3, <2>1, <2>2, <2>3, OneRunGoesOn
<1>5. CASE a # Nobody
  <2>1. Grant(w, a) /\ runs' = runs BY <1>5 DEF AnswerSigner
  <2>2. w \in {"smart", "ext"} BY <1>1 DEF ActiveProvider
  <2> HIDE DEF w
  <2>3. Same(page', page) /\ Places' /\ (hosted.connected = TRUE => hosted'.connected = TRUE)
    BY <1>0, <1>1, <1>5, <2>1, <2>2, Grants
  <2>4. PageThere' BY <1>1, <2>3 DEF PageThere, PageOK, Same, Shows
  <2>5. OnChain' /\ Shown' /\ Sent' /\ Waits' BY <1>1, <2>3, ManagersKept DEF Same, Shows
  <2>6. Running' /\ (PopupOpen => PopupOpen')
    BY <1>0, <1>1, <2>1 DEF Running, PopupOpen, chainVars
  <2>7. page.untouched # TRUE BY <1>1 DEF SessionInv, Untouched
  <2>8. Untouched' BY <2>3, <2>7, UntouchedKept DEF SessionInv, Same, Shows
  <2>9. Signed' BY <2>3, <2>6, SignedKept DEF SessionInv, Same, Shows
  <2> QED BY <1>3, <2>3, <2>4, <2>5, <2>6, <2>8, <2>9 DEF SessionInv
<1> QED BY <1>4, <1>5

LEMMA SignInStep ==
  ASSUME SessionInv, NEW s \in Slots, SignIn(s)
  PROVE  SessionInv'
<1> DEFINE p0 == [page EXCEPT !.untouched = FALSE]
           p == SigningIn(p0, TRUE)
           x == Run("signin", "popup", page.captured)
<1>0. PageOK(page) /\ Places /\ Stored /\ Running BY DEF SessionInv, PageThere
<1>1. /\ runs[s] = NoRun /\ UNCHANGED <<wallets, chainVars, lock, bound>>
      /\ storage' = [storage EXCEPT !.loggedOut = FALSE]
      /\ page' = SetEmbeddedProvider(p, TRUE)
      /\ runs' = [runs EXCEPT ![s] = x]
  BY DEF SignIn, Free, Idle
<1>2. RunIs(x, "signin", "popup", page.captured, NoManager) BY NewRun
<1>3. Shows(p0, page.embedded, page.restoring, page.user, page.tm, FALSE)
  BY <1>0, TellingField
<1> HIDE DEF p0, x
<1>4. Same(p, p0)
  <2>1. PageOK(p0) BY <1>3 DEF Shows
  <2> QED BY <2>1, SignsIn
<1> HIDE DEF p
<1>5. Shows(page', TRUE, page.restoring, page.user, page.tm, FALSE)
  <2>1. PageOK(p) BY <1>4 DEF Same, Shows
  <2>2. Shows(SetEmbeddedProvider(p, TRUE), TRUE, p.restoring, p.user, p.tm, p.untouched)
    BY <2>1, Embeds
  <2> QED BY <1>1, <1>3, <1>4, <2>2 DEF Same, Shows
<1>6. PageThere' BY <1>1, <1>5 DEF PageThere, PageOK, Shows
<1>7. Places' BY <1>0, <1>1, PlacesKept
<1>8. Stored'
  <2>1. StoreShape(storage) BY <1>0 DEF Stored
  <2>2. Keeps([storage EXCEPT !.loggedOut = FALSE], FALSE, storage.network) BY <2>1, StoreField
  <2> QED BY <1>0, <1>1, <2>2 DEF Keeps, Stored
<1>9. OnChain' /\ Shown' /\ Sent' /\ Waits' BY <1>1, <1>5, ManagersKept DEF Shows
<1>10. RunOK(vaults, x)
  <2>1. page.captured \in Chains BY <1>0 DEF PageOK
  <2> QED BY <1>2, <2>1, EarlyRun DEF Kinds
<1>11. Running' BY <1>0, <1>1, <1>10, RunSet DEF chainVars
<1>12. PopupOpen'
  <2>1. runs'[s] = x BY <1>0, <1>1 DEF Running
  <2> QED BY <1>2, <1>10, <2>1, RunIsSome DEF PopupOpen, RunIs
<1>13. Untouched' BY <1>5 DEF Untouched, Shows
<1>14. Signed' BY <1>12 DEF Signed
<1> QED BY <1>6, <1>7, <1>8, <1>9, <1>11, <1>13, <1>14 DEF SessionInv

LEMMA PopupStep ==
  ASSUME SessionInv, NEW s \in Slots, NEW yes \in BOOLEAN, Popup(s, yes)
  PROVE  SessionInv'
<1> DEFINE r == runs[s]
           p == PopupClosed(page)
           q == AccountsChanged(page, "smart", SmartAccount)
<1>0. PageOK(page) /\ Places /\ Stored /\ Running BY DEF SessionInv, PageThere
<1>1. /\ r # NoRun /\ r.pc = "popup" /\ UNCHANGED <<ext, chainVars, lock, bound>>
      /\ \/ /\ hosted' = [hosted EXCEPT !.connected = TRUE]
            /\ storage' = [storage EXCEPT !.passkey = TRUE]
            /\ runs' = [runs EXCEPT ![s] = [r EXCEPT !.pc = "connect"]]
            /\ page' = q
         \/ /\ page' = Ended(p, "signin") /\ runs' = [runs EXCEPT ![s] = NoRun]
            /\ hosted' = hosted /\ storage' = storage
  BY DEF Popup, At, Idle
<1>2. RunOK(vaults, r) BY <1>0, <1>1 DEF Running
<1>3. page.untouched # TRUE BY <1>1 DEF SessionInv, Untouched
<1> HIDE DEF r
<1>4. Shows(p, FALSE, page.restoring, page.user, page.tm, page.untouched)
  BY <1>0, Embeds DEF PopupClosed
<1>6. Same(q, page)
  <2>1. SmartAccount # Nobody BY SessionAssumption DEF Users
  <2> QED BY <1>0, <2>1, AccountsTold
<1> HIDE DEF p, q
<1>5. Same(Ended(p, "signin"), p)
  <2>1. PageOK(p) BY <1>4 DEF Shows
  <2> QED BY <2>1, Ends
<1>7. /\ Shows(page', page'.embedded, page.restoring, page.user, page.tm, page.untouched)
      /\ page'.embedded = FALSE \/ hosted'.connected = TRUE
  BY <1>0, <1>1, <1>4, <1>5, <1>6 DEF Same, Shows, Places
<1>8. PageThere' BY <1>1, <1>7 DEF PageThere, PageOK, Shows
<1>9. Places' BY <1>0, <1>1 DEF Places
<1>10. Stored'
  <2>1. StoreShape(storage) BY <1>0 DEF Stored
  <2>2. Keeps([storage EXCEPT !.passkey = TRUE], storage.loggedOut, storage.network)
    BY <2>1, StoreField
  <2> QED BY <1>0, <1>1, <2>2 DEF Keeps, Stored
<1>11. OnChain' /\ Shown' /\ Sent' /\ Waits' BY <1>1, <1>7, ManagersKept DEF Shows
<1>12. Running'
  <2>1. RunOK(vaults, [r EXCEPT !.pc = "connect"]) BY <1>2, RunAdvances
  <2> QED BY <1>0, <1>1, <2>1, RunSet DEF chainVars
<1>13. Untouched' BY <1>3, <1>7, UntouchedKept DEF SessionInv, Shows
<1>14. Signed' BY <1>7 DEF Signed
<1> QED BY <1>8, <1>9, <1>10, <1>11, <1>12, <1>13, <1>14 DEF SessionInv

\* localStorage forgets what one account had.
LEMMA StoreForgets ==
  ASSUME NEW st, StoreShape(st), NEW u
  PROVE  Keeps(Forgets(st, u), st.loggedOut, st.network)
<1> DEFINE s0 == [st EXCEPT !.personal[u] = None]
<1>1. Keeps(s0, st.loggedOut, st.network) BY StoreEntry
<1>2. Forgets(st, u) = [s0 EXCEPT !.active[u] = None] BY DEF Forgets
<1> HIDE DEF s0
<1>3. StoreShape(s0) BY <1>1 DEF Keeps
<1>4. Keeps([s0 EXCEPT !.active[u] = None], s0.loggedOut, s0.network) BY <1>3, StoreEntry
<1> QED BY <1>1, <1>2, <1>4 DEF Keeps

LEMMA DisconnectStep ==
  ASSUME SessionInv, Disconnect
  PROVE  SessionInv'
<1> DEFINE p == IF storage.passkey THEN SignedOut(page) ELSE page
           out == page.leaving \cup {page.user}
           s1 == [storage EXCEPT !.loggedOut = TRUE]
           s2 == [s1 EXCEPT !.passkey = FALSE]
<1>0. PageOK(page) /\ Places /\ Stored /\ Running BY DEF SessionInv, PageThere
<1>1. /\ page.user # Nobody /\ UNCHANGED <<wallets, chainVars, runs, bound>>
      /\ SenderForgotten
      /\ \/ page' = [page EXCEPT !.leaving = out] /\ storage' = s2
         \/ page' = LoggedOut(p) /\ storage' = Forgets(s2, page.user)
  BY DEF Disconnect
<1>2. page.untouched # TRUE BY <1>1 DEF SessionInv, Untouched
<1>3. \/ Shows(p, FALSE, page.restoring, page.user, page.tm, page.untouched)
      \/ p = page
  BY <1>0, Embeds DEF SignedOut
<1> HIDE DEF p, out
<1>4. /\ Shows(page', page'.embedded, page.restoring, page'.user, page'.tm, page.untouched)
      /\ page'.embedded = page.embedded \/ page'.embedded = FALSE
      /\ page'.tm = page.tm \/ page'.tm = NoManager
  <2>1. CASE page' = [page EXCEPT !.leaving = out]
    <3>1. Same(page', page) BY <1>0, <2>1, QuietField
    <3> QED BY <3>1 DEF Same, Shows
  <2>2. CASE page' = LoggedOut(p)
    <3>1. PageOK(p) BY <1>0, <1>3 DEF Shows
    <3>2. Shows(page', p.embedded, p.restoring, Nobody, NoManager, p.untouched)
      BY <2>2, <3>1, LogsOut
    <3> QED BY <1>3, <3>2 DEF Shows
  <2> QED BY <1>1, <2>1, <2>2
<1>5. PageThere' BY <1>1, <1>4 DEF PageThere, PageOK, Shows
<1>6. Places' /\ hosted' = hosted BY <1>0, <1>1, PlacesKept DEF wallets
<1>7. Stored'
  <2>1. StoreShape(storage) BY <1>0 DEF Stored
  <2>2. Keeps(s1, TRUE, storage.network) BY <2>1, StoreField
  <2> HIDE DEF s1
  <2>3. StoreShape(s1) BY <2>2 DEF Keeps
  <2>4. Keeps(s2, s1.loggedOut, s1.network) BY <2>3, StoreField
  <2> HIDE DEF s2
  <2>5. StoreShape(s2) BY <2>4 DEF Keeps
  <2>6. Keeps(Forgets(s2, page.user), s2.loggedOut, s2.network) BY <2>5, StoreForgets
  <2> QED BY <1>0, <1>1, <2>2, <2>4, <2>6 DEF Keeps, Stored
<1>8. OnChain' /\ Shown' /\ Sent' /\ Waits' BY <1>1, <1>4, SendersKept
<1>9. Running' /\ (PopupOpen => PopupOpen') BY <1>0, <1>1 DEF Running, PopupOpen, chainVars
<1>10. Untouched' BY <1>2, <1>4, UntouchedKept DEF SessionInv, Shows
<1>11. Signed'
  <2>1. CASE page'.embedded = FALSE BY <2>1 DEF Signed
  <2>2. CASE page'.embedded = page.embedded
    BY <1>4, <1>6, <1>9, <2>2, SignedKept DEF SessionInv, Shows
  <2> QED BY <1>4, <2>1, <2>2
<1> QED BY <1>5, <1>6, <1>7, <1>8, <1>9, <1>10, <1>11 DEF SessionInv

LEMMA LeaveThenLogOutStep ==
  ASSUME SessionInv, NEW u \in Users, LeaveThenLogOut(u)
  PROVE  SessionInv'
<1> DEFINE p == SmartWalletLeft(page)
           rest == p.leaving \ {u}
           q == [p EXCEPT !.leaving = rest]
<1>0. PageOK(page) /\ Places /\ Stored /\ Running BY DEF SessionInv, PageThere
<1>1. /\ hosted' = [hosted EXCEPT !.connected = FALSE]
      /\ page' = LoggedOut(q) /\ storage' = Forgets(storage, u) /\ SenderForgotten
      /\ UNCHANGED <<ext, chainVars, runs, bound>>
  BY DEF LeaveThenLogOut
<1>2. Out(p, page) BY <1>0, Leaves
<1> HIDE DEF p, rest
<1>3. Same(q, p) BY <1>2, QuietField DEF Out, Shows
<1> HIDE DEF q
<1>4. Shows(page', q.embedded, q.restoring, Nobody, NoManager, q.untouched)
  BY <1>1, <1>3, LogsOut DEF Same, Shows
<1>5. Shows(page', FALSE, page.restoring, Nobody, NoManager, page.untouched)
  BY <1>2, <1>3, <1>4 DEF Out, Same, Shows
<1>6. PageThere' BY <1>1, <1>5 DEF PageThere, PageOK, Shows
<1>7. Places' BY <1>0, <1>1 DEF Places
<1>8. Keeps(storage', storage.loggedOut, storage.network)
  BY <1>0, <1>1, StoreForgets DEF Stored
<1>9. Stored' BY <1>0, <1>8 DEF Keeps, Stored
<1>10. OnChain' /\ Shown' /\ Sent' /\ Waits' BY <1>1, <1>5, SendersKept DEF Shows
<1>11. Running' BY <1>0, <1>1 DEF Running, chainVars
<1>12. Untouched'
  <2>1. CASE page.untouched # TRUE BY <1>5, <2>1 DEF Untouched, Shows
  <2>2. CASE page.untouched = TRUE
    <3>1. /\ storage.loggedOut = TRUE /\ lock = NoLock /\ page.tm = NoManager
          /\ \A s \in Slots : runs[s] = NoRun
      BY <2>2 DEF SessionInv, Untouched
    <3>2. lock' = NoLock BY <1>1, <3>1 DEF SenderForgotten
    <3> QED BY <1>1, <1>5, <1>8, <3>1, <3>2 DEF Untouched, Shows, Keeps
  <2> QED BY <2>1, <2>2
<1>13. Signed' BY <1>5 DEF Signed, Shows
<1> QED BY <1>6, <1>7, <1>9, <1>10, <1>11, <1>12, <1>13 DEF SessionInv

LEMMA SwitchNetworkStep ==
  ASSUME SessionInv, NEW net \in Chains, SwitchNetwork(net)
  PROVE  SessionInv'
<1> DEFINE w == ActiveProvider(page)
           p == ChainChanged(page, w, net)
<1>0. PageOK(page) /\ Places /\ Stored /\ Running BY DEF SessionInv, PageThere
<1>1. /\ page.user # Nobody /\ net \in Deployed /\ UNCHANGED <<chainVars, runs, lock, bound>>
      /\ ext' = ext \/ ext' = [ext EXCEPT !.chain = net]
      /\ hosted' = hosted \/ hosted' = [hosted EXCEPT !.chain = net]
      /\ page' = [p EXCEPT !.selected = net]
      /\ storage' = [storage EXCEPT !.network = net]
  BY DEF SwitchNetwork
<1>2. page.untouched # TRUE BY <1>1 DEF SessionInv, Untouched
<1>3. Same(p, page)
  <2>1. w \in {"ext", "smart"} BY DEF SwitchNetwork, HasWallet, ActiveProvider
  <2> HIDE DEF w
  <2> QED BY <1>0, <2>1, ChainSame
<1> HIDE DEF p
<1>4. PageOK(p) BY <1>3 DEF Same, Shows
<1>5. Same(page', p) BY <1>1, <1>4, ChainField
<1>6. Same(page', page) BY <1>3, <1>5 DEF Same, Shows
<1>7. PageThere' BY <1>1, <1>6 DEF PageThere, PageOK, Same, Shows
<1>8. Places' /\ hosted'.connected = hosted.connected BY <1>0, <1>1 DEF Places
<1>9. Stored'
  <2>1. StoreShape(storage) BY <1>0 DEF Stored
  <2>2. Keeps([storage EXCEPT !.network = net], storage.loggedOut, net) BY <2>1, StoreField
  <2> QED BY <1>1, <2>2 DEF Keeps, Stored
<1>10. OnChain' /\ Shown' /\ Sent' /\ Waits' BY <1>1, <1>6, ManagersKept DEF Same, Shows
<1>11. Running' /\ (PopupOpen => PopupOpen') BY <1>0, <1>1 DEF Running, PopupOpen, chainVars
<1>12. Untouched' BY <1>2, <1>6, UntouchedKept DEF SessionInv, Same, Shows
<1>13. Signed' BY <1>6, <1>8, <1>11, SignedKept DEF SessionInv, Same, Shows
<1> QED BY <1>7, <1>8, <1>9, <1>10, <1>11, <1>12, <1>13 DEF SessionInv

LEMMA SwitchAccountStep ==
  ASSUME SessionInv, NEW a \in ExtAccounts \cup {Nobody}, SwitchAccount(a)
  PROVE  SessionInv'
<1>0. PageOK(page) /\ Places /\ Stored /\ Running BY DEF SessionInv, PageThere
<1>1. /\ UNCHANGED <<hosted, chainVars, storage, runs, bound>>
      /\ ext' = [ext EXCEPT !.account = a]
      /\ page' = AccountsChanged(page, "ext", a) /\ SenderForgotten
  BY DEF SwitchAccount
<1>2. \/ Same(page', page)
      \/ Shows(page', page.embedded, page.restoring, Nobody, NoManager, page.untouched)
  BY <1>0, <1>1, AccountsTold
<1>3. /\ PageThere' /\ page'.embedded = page.embedded /\ page'.restoring = page.restoring
      /\ page'.untouched = page.untouched
  BY <1>1, <1>2 DEF PageThere, PageOK, Same, Shows
<1>4. OnChain' /\ Shown' /\ Sent' /\ Waits' BY <1>1, <1>2, SendersKept DEF Same, Shows
<1>5. Places' /\ Stored' BY <1>0, <1>1 DEF Places, Stored
<1>6. Running' /\ (PopupOpen => PopupOpen') BY <1>0, <1>1 DEF Running, PopupOpen, chainVars
<1>7. Untouched'
  <2>1. CASE page.untouched # TRUE BY <1>3, <2>1, UntouchedKept DEF SessionInv
  <2>2. CASE page.untouched = TRUE
    <3>1. page.user = Nobody /\ page.tm = NoManager /\ lock = NoLock
      BY <2>2 DEF SessionInv, Untouched
    <3>2. page'.user = Nobody /\ page'.tm = NoManager /\ lock' = NoLock
      BY <1>1, <1>2, <3>1 DEF Same, Shows, SenderForgotten
    <3> QED BY <1>1, <1>3, <3>1, <3>2, UntouchedKept DEF SessionInv
  <2> QED BY <2>1, <2>2
<1>8. Signed' BY <1>1, <1>3, <1>6, SignedKept DEF SessionInv
<1> QED BY <1>3, <1>4, <1>5, <1>6, <1>7, <1>8 DEF SessionInv

LEMMA SwitchChainStep ==
  ASSUME SessionInv, NEW c \in Chains, SwitchChain(c)
  PROVE  SessionInv'
<1>0. PageOK(page) /\ Places /\ Stored /\ Running BY DEF SessionInv, PageThere
<1>1. /\ UNCHANGED <<hosted, chainVars, storage, runs, lock, bound>>
      /\ ext' = [ext EXCEPT !.chain = c]
      /\ page' = ChainChanged(page, "ext", c)
  BY DEF SwitchChain
<1>2. Same(page', page) BY <1>0, <1>1, ChainSame
<1>3. PageThere' BY <1>1, <1>2 DEF PageThere, PageOK, Same, Shows
<1>4. Places' /\ Stored' BY <1>0, <1>1 DEF Places, Stored
<1>5. OnChain' /\ Shown' /\ Sent' /\ Waits' BY <1>1, <1>2, ManagersKept DEF Same, Shows
<1>6. Running' /\ (PopupOpen => PopupOpen') BY <1>0, <1>1 DEF Running, PopupOpen, chainVars
<1>7. Untouched' BY <1>1, <1>2, UntouchedKept DEF SessionInv, Same, Shows
<1>8. Signed' BY <1>1, <1>2, <1>6, SignedKept DEF SessionInv, Same, Shows
<1> QED BY <1>3, <1>4, <1>5, <1>6, <1>7, <1>8 DEF SessionInv

\* A page that has just been loaded.
LEMMA FreshPage ==
  ASSUME NEW s, s.network \in Chains
  PROVE  Shows(Loaded(s), Restores(s), Restores(s), Nobody, NoManager, s.loggedOut)
<1> DEFINE restore == Restores(s)
           reconnects == Reconnects(s)
           p == [embedded |-> restore, selected |-> s.network, captured |-> s.network,
                 reconnecting |-> reconnects,
                 busy |-> FALSE, signing |-> FALSE, restoring |-> restore,
                 listening |-> "none", timer |-> FALSE, late |-> {}, seen |-> s.network,
                 user |-> Nobody, tm |-> NoManager, leaving |-> {},
                 untouched |-> s.loggedOut, stranded |-> FALSE]
           q == WalletEffect(p)
           o == WalletEffect(q)
<1>1. Loaded(s) = IF restore THEN o ELSE q BY DEF Loaded
<1> HIDE DEF restore, reconnects
<1>2. /\ PageShape(p) /\ p.selected = s.network /\ p.captured = s.network /\ p.user = Nobody
      /\ p.embedded = restore /\ p.restoring = restore /\ p.tm = NoManager
      /\ p.untouched = s.loggedOut
  BY DEF PageShape
<1> HIDE DEF p
<1>3. Same(q, p) BY <1>2, Effect
<1> HIDE DEF q
<1>4. Same(o, q)
  <2>1. PageShape(q) /\ q.selected \in Chains /\ q.captured \in Chains /\ q.user \in Users \cup {Nobody}
    BY <1>3 DEF Same, Shows, PageOK
  <2> QED BY <2>1, Effect
<1> HIDE DEF o
<1>5. Shows(Loaded(s), restore, restore, Nobody, NoManager, s.loggedOut)
  BY <1>1, <1>2, <1>3, <1>4 DEF Same, Shows
<1> QED BY <1>5 DEF restore

LEMMA ReloadStep ==
  ASSUME SessionInv, NEW expired \in BOOLEAN, Reload(expired)
  PROVE  SessionInv'
<1> DEFINE still == hosted.connected /\ ~expired
<1>0. PageOK(page) /\ Places /\ Stored /\ Running BY DEF SessionInv, PageThere
<1>1. /\ UNCHANGED <<ext, chainVars, storage, bound>>
      /\ page' = Loaded(storage) /\ runs' = [s \in Slots |-> NoRun] /\ lock' = NoLock
      /\ hosted' = [hosted EXCEPT !.connected = still]
  BY DEF Reload
<1>2. storage.network \in Chains BY <1>0, WhereThingsAre DEF Stored
<1>3. Shows(page', Restores(storage), Restores(storage), Nobody, NoManager, storage.loggedOut)
  BY <1>1, <1>2, FreshPage
<1>4. PageThere' BY <1>1, <1>3 DEF PageThere, PageOK, Shows
<1>5. still \in BOOLEAN OBVIOUS
<1> HIDE DEF still
<1>6. Places' /\ Stored' BY <1>0, <1>1, <1>5 DEF Places, Stored
<1>7. OnChain' /\ Shown' /\ Sent' /\ Waits' BY <1>1, <1>3, ManagersKept DEF Shows
<1>8. Running' BY <1>1 DEF Running
<1>9. Untouched' BY <1>1, <1>3 DEF Untouched, Shows
<1>10. Signed' BY <1>3 DEF Signed, Shows
<1> QED BY <1>4, <1>6, <1>7, <1>8, <1>9, <1>10 DEF SessionInv

-----------------------------------------------------------------------------
(* Vaults.                                                                 *)

LEMMA SelectVaultStep ==
  ASSUME SessionInv, NEW id, SelectVault(id)
  PROVE  SessionInv'
<1> DEFINE a == Selection(page.tm, id)
           m == [page.tm EXCEPT !.active = a]
<1>0. PageOK(page) /\ Places /\ Stored /\ Running /\ OnChain /\ Sent /\ Waits
  BY DEF SessionInv, PageThere
<1>1. /\ page.user # Nobody /\ page.tm # NoManager /\ Exists(page.tm.chain, id)
      /\ UNCHANGED <<wallets, chainVars, runs, lock, bound>>
      /\ page' = [page EXCEPT !.tm = m]
      /\ storage' = [storage EXCEPT !.active[page.tm.user] = a]
  BY <1>0 DEF SelectVault, PageOK, PageShape
<1>2. page.untouched # TRUE BY <1>1 DEF SessionInv, Untouched
<1>3. ManagerOK(vaults, page.tm) /\ Looked(page.tm) BY <1>1 DEF SessionInv, Shown
<1>4. a # None => a \in DOMAIN vaults[page.tm.chain] BY <1>1 DEF Selection, Exists
<1> HIDE DEF a
<1>5. ManagerOK(vaults, m) /\ Looked(m) BY <1>3, <1>4, LearnsActive
<1>6. m.user = page.tm.user /\ m.chain = page.tm.chain
  <2>1. ManagerShape(page.tm) BY <1>3 DEF ManagerOK
  <2>2. ManagerIs(m, page.tm, page.tm.personal, a, page.tm.blind) BY <2>1, ManagerField
  <2> QED BY <2>2 DEF ManagerIs
<1> HIDE DEF m
<1>7. Shows(page', page.embedded, page.restoring, page.user, m, page.untouched)
  BY <1>0, <1>1, TellingField
<1>8. PageThere' BY <1>1, <1>7 DEF PageThere, PageOK, Shows
<1>9. Stored'
  <2>1. StoreShape(storage) BY <1>0 DEF Stored
  <2>2. Keeps([storage EXCEPT !.active[page.tm.user] = a], storage.loggedOut, storage.network)
    BY <2>1, StoreEntry
  <2> QED BY <1>0, <1>1, <2>2 DEF Keeps, Stored
<1>10. Places' /\ OnChain' /\ Sent' BY <1>0, <1>1, PlacesKept DEF OnChain, Sent, chainVars
<1>11. page'.tm = m BY <1>7 DEF Shows
<1>12. Shown' BY <1>1, <1>5, <1>11 DEF Shown, chainVars
<1>13. Waits'
  <2>1. m # NoManager BY <1>5, ManagerIsSome
  <2> QED BY <1>0, <1>1, <1>6, <1>11, <2>1 DEF Waits, chainVars
<1>14. Running' BY <1>0, <1>1 DEF Running, chainVars
<1>15. Untouched' BY <1>2, <1>7, UntouchedKept DEF SessionInv, Shows
<1>16. Signed' BY <1>1, <1>7, SignedKept DEF SessionInv, Shows, PopupOpen, wallets
<1> QED BY <1>8, <1>9, <1>10, <1>12, <1>13, <1>14, <1>15, <1>16 DEF SessionInv

LEMMA LockInStep ==
  ASSUME SessionInv, LockIn
  PROVE  SessionInv'
<1>0. PageOK(page) /\ Places /\ Stored /\ Running BY DEF SessionInv, PageThere
<1>1. /\ page.user # Nobody /\ page.tm # NoManager
      /\ lock' = [user |-> page.tm.user, via |-> page.tm.via, same |-> TRUE, id |-> None]
      /\ mempool' = {[user |-> page.tm.user, chain |-> page.tm.chain]}
      /\ UNCHANGED <<wallets, vaults, storage, page, runs, bound>>
  BY DEF LockIn
<1>2. page.untouched # TRUE BY <1>1 DEF SessionInv, Untouched
<1>3. ManagerOK(vaults, page.tm) BY <1>1 DEF SessionInv, Shown
<1>4. page.tm.user \in Users /\ page.tm.chain \in Chains BY <1>3 DEF ManagerOK
<1>5. Places' /\ Stored' /\ PageThere' /\ Running'
  BY <1>0, <1>1, PlacesKept DEF Stored, PageThere, PageOK, Running
<1>6. OnChain' /\ Shown' BY <1>1 DEF SessionInv, OnChain, Shown
<1>7. Sent' BY <1>1, <1>4 DEF Sent
<1>8. Waits'
  <2>1. /\ LockShape(lock') /\ lock'.user = page.tm.user /\ lock'.id = None
    BY <1>1 DEF LockShape
  <2> QED BY <1>1, <2>1 DEF Waits
<1>9. Untouched' BY <1>1, <1>2 DEF Untouched
<1>10. Signed' BY <1>1 DEF SessionInv, Signed, PopupOpen, wallets
<1> QED BY <1>5, <1>6, <1>7, <1>8, <1>9, <1>10 DEF SessionInv

LEMMA LandStep ==
  ASSUME SessionInv, Land
  PROVE  SessionInv'
<1> DEFINE tx == CHOOSE t \in mempool : TRUE
           n == Len(vaults[tx.chain]) + 1
<1>0. PageOK(page) /\ Places /\ Stored /\ Running /\ OnChain /\ Sent /\ Waits
  BY DEF SessionInv, PageThere
<1>1. /\ mempool # {} /\ mempool' = {}
      /\ vaults' = [vaults EXCEPT ![tx.chain] = Append(@, Vault(tx.user))]
      /\ lock' = IF lock = NoLock THEN lock ELSE [lock EXCEPT !.id = n]
      /\ UNCHANGED <<wallets, storage, page, runs, bound>>
  BY DEF Land
<1>2. tx \in mempool BY <1>1
<1>3. tx.user \in Users /\ tx.chain \in Chains BY <1>0, <1>1, <1>2 DEF Sent
<1> DEFINE c == tx.chain
           u == tx.user
           l == vaults[c]
<1>4. l \in Seq(AllVaults) /\ Vault(u) \in AllVaults /\ n \in Nat \ {None}
  <2>1. l \in Seq(AllVaults) BY <1>0, <1>3 DEF OnChain
  <2>2. Len(l) \in Nat BY <2>1
  <2>3. n = Len(l) + 1 OBVIOUS
  <2>4. Vault(u) \in AllVaults BY <1>3 DEF AllVaults
  <2> HIDE DEF l, n
  <2> QED BY <2>1, <2>2, <2>3, <2>4 DEF None
<1> HIDE DEF tx, n
<1>5. /\ vaults'[c] = Append(l, Vault(u))
      /\ \A d \in Chains \ {c} : vaults'[d] = vaults[d]
  BY <1>0, <1>1, <1>3 DEF OnChain
<1>6. /\ DOMAIN l = 1 .. Len(l) /\ Len(l) \in Nat
      /\ DOMAIN Append(l, Vault(u)) = 1 .. Len(l) + 1
      /\ Append(l, Vault(u))[Len(l) + 1] = Vault(u)
      /\ \A i \in 1 .. Len(l) : Append(l, Vault(u))[i] = l[i]
      /\ Append(l, Vault(u)) \in Seq(AllVaults)
  BY <1>4
<1>7. OnChain' BY <1>0, <1>1, <1>5, <1>6 DEF OnChain
<1>8. Grows(vaults, vaults')
  <2>1. ASSUME NEW d \in Chains, NEW i \in DOMAIN vaults[d]
        PROVE  i \in DOMAIN vaults'[d] /\ vaults'[d][i] = vaults[d][i]
    <3>1. CASE d = c
      <4>1. i \in 1 .. Len(l) BY <1>6, <3>1
      <4>2. i \in 1 .. Len(l) + 1 BY <1>6, <4>1
      <4> QED BY <1>5, <1>6, <3>1, <4>1, <4>2
    <3>2. CASE d # c BY <1>5, <3>2
    <3> QED BY <3>1, <3>2
  <2> QED BY <2>1 DEF Grows
<1>9. Mine(vaults', c, n, u)
  <2>1. n = Len(l) + 1 BY DEF n
  <2>2. n \in 1 .. Len(l) + 1 BY <1>6, <2>1
  <2>3. Vault(u).personal = TRUE /\ Vault(u).creator = u BY DEF Vault
  <2> QED BY <1>5, <1>6, <2>1, <2>2, <2>3 DEF Mine
<1>10. Shown' BY <1>1, <1>8, StaysRight DEF SessionInv, Shown
<1>11. Running' BY <1>0, <1>1, <1>8, StaysRight DEF Running
<1>12. Waits'
  <2>1. CASE lock = NoLock BY <1>1, <2>1 DEF Waits
  <2>2. CASE lock # NoLock
    <3>1. /\ LockShape(lock') /\ lock'.same = lock.same /\ lock'.user = lock.user
          /\ lock'.id = n
      BY <1>0, <1>1, <2>2 DEF Waits, LockShape
    <3>2. ASSUME lock.same = TRUE
          PROVE  page.tm # NoManager /\ page.tm.user = lock.user /\ c = page.tm.chain /\ u = page.tm.user
      BY <1>0, <1>1, <1>2, <2>2, <3>2 DEF Waits
    <3> QED BY <1>1, <1>4, <1>9, <3>1, <3>2 DEF Waits
  <2> QED BY <2>1, <2>2
<1>13. Sent' BY <1>1 DEF Sent
<1>14. Places' /\ Stored' /\ PageThere'
  BY <1>0, <1>1, PlacesKept DEF Stored, PageThere, PageOK
<1>15. Untouched' BY <1>1 DEF SessionInv, Untouched
<1>16. Signed' BY <1>1 DEF SessionInv, Signed, PopupOpen, wallets
<1> QED BY <1>7, <1>10, <1>11, <1>12, <1>13, <1>14, <1>15, <1>16 DEF SessionInv

LEMMA TimeOutStep ==
  ASSUME SessionInv, TimeOut
  PROVE  SessionInv'
<1>0. PageOK(page) /\ Places /\ Stored /\ Running BY DEF SessionInv, PageThere
<1>1. lock' = NoLock /\ UNCHANGED <<wallets, chainVars, storage, page, runs, bound>>
  BY DEF TimeOut
<1>2. Places' /\ Stored' /\ PageThere' /\ Running'
  BY <1>0, <1>1, PlacesKept DEF Stored, PageThere, PageOK, Running, chainVars
<1>3. page.tm # NoManager => ManagerOK(vaults, page.tm) /\ Looked(page.tm)
  BY DEF SessionInv, Shown
<1>4. OnChain' /\ Shown' /\ Sent' /\ Waits' BY <1>1, <1>3, ManagersKept
<1>5. Untouched' BY <1>1 DEF SessionInv, Untouched
<1>6. Signed' BY <1>1 DEF SessionInv, Signed, PopupOpen, wallets
<1> QED BY <1>2, <1>4, <1>5, <1>6 DEF SessionInv

LEMMA RememberStep ==
  ASSUME SessionInv, Remember
  PROVE  SessionInv'
<1> DEFINE m == [page.tm EXCEPT !.personal = lock.id]
<1>0. PageOK(page) /\ Places /\ Stored /\ Running /\ Waits /\ Shown BY DEF SessionInv, PageThere
<1>1. /\ lock # NoLock /\ lock.id # None /\ lock' = NoLock
      /\ storage' = [storage EXCEPT !.personal[lock.user] = lock.id]
      /\ page' = IF lock.same THEN [page EXCEPT !.tm = m] ELSE page
      /\ UNCHANGED <<wallets, chainVars, runs, bound>>
  BY <1>0 DEF Remember, PageOK, PageShape
<1>2. page.untouched # TRUE BY <1>1 DEF SessionInv, Untouched
<1>3. lock.same => ManagerOK(vaults, m) /\ Looked(m)
  <2> SUFFICES ASSUME lock.same PROVE ManagerOK(vaults, m) /\ Looked(m) OBVIOUS
  <2>1. page.tm # NoManager /\ page.tm.user = lock.user /\ Mine(vaults, page.tm.chain, lock.id, lock.user)
    BY <1>0, <1>1 DEF Waits
  <2>2. ManagerOK(vaults, page.tm) BY <1>0, <2>1 DEF Shown
  <2> QED BY <1>1, <2>1, <2>2, LearnsPersonal
<1> HIDE DEF m
<1>4. /\ Shows(page', page.embedded, page.restoring, page.user, page'.tm, page.untouched)
      /\ page'.tm # NoManager => ManagerOK(vaults, page'.tm) /\ Looked(page'.tm)
  <2>1. Shows([page EXCEPT !.tm = m], page.embedded, page.restoring, page.user, m, page.untouched)
    BY <1>0, TellingField
  <2> QED BY <1>0, <1>1, <1>3, <2>1 DEF Shows, Shown
<1>5. PageThere' BY <1>1, <1>4 DEF PageThere, PageOK, Shows
<1>6. Stored'
  <2>1. StoreShape(storage) BY <1>0 DEF Stored
  <2>2. Keeps([storage EXCEPT !.personal[lock.user] = lock.id], storage.loggedOut, storage.network)
    BY <2>1, StoreEntry
  <2> QED BY <1>0, <1>1, <2>2 DEF Keeps, Stored
<1>7. OnChain' /\ Shown' /\ Sent' /\ Waits' BY <1>1, <1>4, ManagersKept
<1>8. Places' /\ Running' BY <1>0, <1>1, PlacesKept DEF Running, chainVars
<1>9. Untouched' BY <1>2, <1>4, UntouchedKept DEF SessionInv, Shows
<1>10. Signed' BY <1>1, <1>4, SignedKept DEF SessionInv, Shows, PopupOpen, wallets
<1> QED BY <1>5, <1>6, <1>7, <1>8, <1>9, <1>10 DEF SessionInv

-----------------------------------------------------------------------------
(* The theorems.                                                           *)

LEMMA SessionBegins == SessionInit => SessionInv
<1> SUFFICES ASSUME SessionInit PROVE SessionInv OBVIOUS
<1>1. /\ bound \in Bounds /\ mempool = {} /\ lock = NoLock
      /\ ext = [account |-> bound.shared, chain |-> bound.chain]
      /\ hosted = [connected |-> bound.passkey, chain |-> bound.hostedOn]
      /\ vaults = bound.vaults /\ page = Loaded(storage) /\ runs = [s \in Slots |-> NoRun]
  BY DEF SessionInit
<1>2. StoreShape(storage) /\ storage.network = bound.network /\ storage.loggedOut = FALSE
  BY DEF SessionInit, StoreShape
<1>3. Places BY <1>1, SessionAssumption DEF Places
<1>4. Stored BY <1>1, <1>2, SessionAssumption DEF Stored
<1>5. OnChain
  <2>1. ASSUME NEW c \in Chains PROVE vaults[c] \in Seq(AllVaults)
    <3>1. vaults[c] \in Seq(FirstVaults) BY <1>1, SessionAssumption
    <3>2. FirstVaults \subseteq AllVaults BY DEF AllVaults
    <3> QED BY <3>1, <3>2
  <2>2. DOMAIN vaults = Chains /\ vaults = [c \in DOMAIN vaults |-> vaults[c]]
    BY <1>1, SessionAssumption
  <2> QED BY <2>1, <2>2 DEF OnChain
<1>6. storage.network \in Chains BY <1>4, SessionAssumption DEF Stored
<1>7. Shows(page, Restores(storage), Restores(storage), Nobody, NoManager, storage.loggedOut)
  BY <1>1, <1>6, FreshPage
<1>8. PageThere BY <1>7 DEF PageThere, Shows
<1>9. Shown /\ Running /\ Sent /\ Waits BY <1>1, <1>7 DEF Shown, Running, Sent, Waits, Shows
<1>10. Untouched /\ Signed BY <1>1, <1>7 DEF Untouched, Signed, Shows
<1> QED BY <1>3, <1>4, <1>5, <1>8, <1>9, <1>10 DEF SessionInv

LEMMA SessionRests == SessionInv /\ UNCHANGED sessionVars => SessionInv'
<1> SUFFICES ASSUME SessionInv, UNCHANGED sessionVars PROVE SessionInv' OBVIOUS
<1>1. UNCHANGED <<wallets, vaults, mempool, storage, page, runs, lock, bound>>
  BY DEF sessionVars, wallets
<1>2. Places' /\ Stored' /\ OnChain' /\ PageThere'
  BY <1>1, PlacesKept DEF SessionInv, Stored, OnChain, PageThere, PageOK
<1>3. Shown' /\ Running' /\ Sent' /\ Waits'
  BY <1>1 DEF SessionInv, Shown, Running, Sent, Waits
<1>4. Untouched' /\ Signed'
  BY <1>1 DEF SessionInv, Untouched, Signed, PopupOpen, wallets
<1> QED BY <1>2, <1>3, <1>4 DEF SessionInv

LEMMA SessionStep == SessionInv /\ [SessionNext]_sessionVars => SessionInv'
<1> SUFFICES ASSUME SessionInv, [SessionNext]_sessionVars PROVE SessionInv' OBVIOUS
<1>1. CASE PageWorks
  <2>1. ASSUME NEW failed \in BOOLEAN, RestoreAnswer(failed) PROVE SessionInv'
    BY <2>1, RestoreAnswerStep
  <2>2. ASSUME NEW failed \in BOOLEAN, NEW s \in Slots,
               \/ Check(s, failed) \/ Signer(s, failed) \/ LoadPersonal(s, failed)
               \/ ListPersonal(s, failed) \/ RestoreActive(s, failed)
        PROVE  SessionInv'
    BY <2>2, CheckStep, SignerStep, LoadPersonalStep, ListPersonalStep, RestoreActiveStep
  <2>3. ASSUME NEW s \in Slots, Connect(s) \/ Done(s) \/ LeaveThenConnect(s) PROVE SessionInv'
    BY <2>3, ConnectStep, DoneStep, LeaveThenConnectStep
  <2>4. ASSUME NEW s \in Slots, NEW c \in Chains, AutoConnect(s, c) PROVE SessionInv'
    BY <2>4, AutoConnectStep
  <2>5. ASSUME NEW u \in Users, LeaveThenLogOut(u) PROVE SessionInv'
    BY <2>5, LeaveThenLogOutStep
  <2> QED BY <1>1, <2>1, <2>2, <2>3, <2>4, <2>5 DEF PageWorks
<1>2. CASE Others
  <2>1. ASSUME NEW s \in Slots, PressConnect(s) \/ SignIn(s) PROVE SessionInv'
    BY <2>1, PressConnectStep, SignInStep
  <2>2. ASSUME NEW s \in Slots, NEW yes \in BOOLEAN, Move(s, yes) \/ EnsureNetwork(s, yes) \/ Popup(s, yes)
        PROVE  SessionInv'
    BY <2>2, MoveStep, EnsureNetworkStep, PopupStep
  <2>3. ASSUME NEW s \in Slots, NEW a \in Users \cup {Nobody},
               RequestAccounts(s, a) \/ AnswerSigner(s, a)
        PROVE  SessionInv'
    BY <2>3, RequestAccountsStep, AnswerSignerStep
  <2>4. ASSUME NEW c \in Chains, SwitchNetwork(c) \/ SwitchChain(c) PROVE SessionInv'
    BY <2>4, SwitchNetworkStep, SwitchChainStep
  <2>5. ASSUME NEW a \in ExtAccounts \cup {Nobody}, SwitchAccount(a) PROVE SessionInv'
    BY <2>5, SwitchAccountStep
  <2>6. ASSUME NEW expired \in BOOLEAN, Reload(expired) PROVE SessionInv'
    BY <2>6, ReloadStep
  <2>7. ASSUME NEW id, SelectVault(id) PROVE SessionInv' BY <2>7, SelectVaultStep
  <2>8. CASE Disconnect \/ LockIn \/ Land \/ TimeOut \/ Remember
    BY <2>8, DisconnectStep, LockInStep, LandStep, TimeOutStep, RememberStep
  <2> QED BY <1>2, <2>1, <2>2, <2>3, <2>4, <2>5, <2>6, <2>7, <2>8 DEF Others
<1>3. CASE UNCHANGED sessionVars BY <1>3, SessionRests
<1> QED BY <1>1, <1>2, <1>3 DEF SessionNext

THEOREM SessionInvariant == SessionSpec => []SessionInv
<1> QED BY SessionBegins, SessionStep, PTL DEF SessionSpec

\* Someone who logged out stays logged out over a reload, until a button is
\* pressed: for any accounts, chains, connections in flight and failures.
THEOREM LoggedOutProof == SessionSpec => []LoggedOutStaysOut
<1>1. SessionInv => LoggedOutStaysOut
  BY DEF SessionInv, Untouched, LoggedOutStaysOut
<1> QED BY <1>1, SessionInvariant, PTL

\* What a session remembers is checked where it is used: the vault it calls
\* yours is a personal one of yours on the chain it reads, the one it acts on
\* exists there, on whichever chain it was selected.
THEOREM RemembersProof == SessionSpec => []RemembersRightly
<1>1. SessionInv => RemembersRightly
  <2> SUFFICES ASSUME SessionInv PROVE RemembersRightly OBVIOUS
  <2>1. page.tm # NoManager => ManagerOK(vaults, page.tm) BY DEF SessionInv, Shown
  <2>2. PersonalVaultIsMine
    BY <2>1, OnChainIds DEF SessionInv, ManagerOK, PersonalVaultIsMine
  <2>3. ActiveVaultExists BY <2>1 DEF ManagerOK, ActiveVaultExists, Exists
  <2> QED BY <2>2, <2>3 DEF RemembersRightly
<1> QED BY <1>1, SessionInvariant, PTL

\* A session that began with a vault on chain and lost no read knows it.
THEOREM KnowsProof == SessionSpec => []KnowsItsVault
<1>1. SessionInv => KnowsItsVault BY DEF SessionInv, Shown, Looked, KnowsItsVault
<1> QED BY <1>1, SessionInvariant, PTL

\* The page believes in a smart wallet that is not signed in only while the
\* popup or the restored session has not answered.
THEOREM ProviderProof == SessionSpec => []NoHalfConnectedProvider
<1>1. SessionInv => NoHalfConnectedProvider
  <2> SUFFICES ASSUME SessionInv PROVE NoHalfConnectedProvider OBVIOUS
  <2>1. ext \in [account : ExtAccounts \cup {Nobody}, chain : Chains]
        /\ hosted \in [connected : BOOLEAN, chain : Chains]
    BY DEF SessionInv, Places
  <2>2. storage.network \in Deployed BY DEF SessionInv, Stored
  <2>3. page.selected \in Chains /\ page.user \in Users \cup {Nobody}
    BY DEF SessionInv, PageThere, PageOK
  <2>4. \A s \in Slots : ~Idle(s) => runs[s].pc \in Pcs
    BY DEF SessionInv, Running, RunOK, Idle
  <2>5. page.timer => HasWallet
    <3>1. page.timer = TRUE => page.embedded = TRUE \/ bound.extension = TRUE
      BY DEF SessionInv, PageThere, PageOK
    <3> QED BY <3>1 DEF HasWallet, ActiveProvider
  <2>6. SessionTypeOK BY <2>1, <2>2, <2>3, <2>4, <2>5 DEF SessionTypeOK, Pcs
  <2>7. Signed BY DEF SessionInv
  <2> QED BY <2>6, <2>7 DEF NoHalfConnectedProvider, Signed, PopupOpen, At, Idle
<1> QED BY <1>1, SessionInvariant, PTL
=============================================================================
