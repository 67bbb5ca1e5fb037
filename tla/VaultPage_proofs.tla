-------------------------- MODULE VaultPage_proofs --------------------------
(***************************************************************************)
(* Proofs about the page, for any vaults, coins, amounts, handlers and     *)
(* bounds.  First PageInv: a deposit that is prompted for or mined has the *)
(* last transactions of a deposit before it, of an allowance that no       *)
(* deposit spoiled there is always one on its way that takes all of it,    *)
(* and every question about limits has a handler of its own that waits for *)
(* it.  Then the fates: whatever step is taken, each handler ends, starts, *)
(* is told something or goes on.  On them rest what a wallet is asked to   *)
(* sign (Acts), the two loops over the coins (Sweeps, Switches), what the  *)
(* sections hold (Views) and what is shown at rest (Rests).                *)
(***************************************************************************)
EXTENDS VaultPage, SequenceTheorems, TLAPS

Kinds == {"select", "deposit", "withdraw", "penalty", "bypass", "execute", "mode", "modes"}

OpShape(o) ==
    o = [kind |-> o.kind, pc |-> o.pc, of |-> o.of, on |-> o.on, excused |-> o.excused,
         coin |-> o.coin, amount |-> o.amount, txs |-> o.txs, alive |-> o.alive,
         crossed |-> o.crossed]

\* What is left to send of a deposit, and of any other handler.
DepositTxs(o) ==
    LET d == Tx("deposit", o, o.coin)
        a == [call |-> "approve", coin |-> o.coin, amount |-> o.amount]
        r == [call |-> "approve", coin |-> o.coin, amount |-> 0]
    IN {<<d>>, <<a, d>>, <<r, a, d>>}

OtherTx == [call : Kinds \ {"deposit"}, coin : Coins \cup {Nothing}, amount : Nat]

InFlight(o) == o.pc \in {"prompt", "mine"}

OpOK(o) ==
    /\ OpShape(o)
    /\ o.kind \in Kinds /\ o.coin \in Coins \cup {Nothing} /\ o.amount \in Nat
    /\ o.kind = "deposit" => o.coin \in Coins
    /\ o.pc = "check" => o.of \in Vaults
    /\ o.pc = "allowance" => o.kind = "deposit"
    /\ InFlight(o) => IF o.kind = "deposit" THEN o.txs \in DepositTxs(o)
                      ELSE o.txs \in Seq(OtherTx) \ {<<>>}

HandlersOK(os) ==
    /\ DOMAIN os = Slots /\ os = [s \in Slots |-> os[s]]
    /\ \A s \in Slots : os[s] = NoOp \/ OpOK(os[s])

OpsOK == HandlersOK(ops)

QuestionShape(q) == q = [what |-> q.what, of |-> q.of, fresh |-> q.fresh, late |-> q.late, op |-> q.op]

Waits(o) == o.pc \in {"limits", "limits2"}

\* Every question about limits is some handler's, and no handler has two.
AskedOK ==
    /\ asked = [i \in 1 .. Len(asked) |-> asked[i]] /\ Len(asked) \in Nat
    /\ \A i \in 1 .. Len(asked) : QuestionShape(asked[i])
    /\ \A i \in 1 .. Len(asked) :
          asked[i].what = "limits" => asked[i].op \in Slots /\ Waits(ops[asked[i].op])
    /\ \A i, j \in 1 .. Len(asked) :
          asked[i].what = "limits" /\ asked[j].what = "limits" /\ asked[i].op = asked[j].op => i = j

\* One deposit on its way takes all that is approved.
Covered ==
    \A c \in Coins : allowance[c] > 0 /\ c \notin spoiled =>
        \E s \in Slots : DepositOnItsWay(s, c) /\ ops[s].amount >= allowance[c]

PageInv ==
    /\ active \in Vaults /\ bound \in Bounds
    /\ allowance \in [Coins -> Nat]
    /\ OpsOK /\ AskedOK /\ Covered

-----------------------------------------------------------------------------
(* Records and sequences.                                                  *)

\* A handler moves to another place and keeps the rest.
LEMMA Moved ==
  ASSUME NEW o, OpShape(o), NEW x
  PROVE  LET q == [o EXCEPT !.pc = x] IN
         /\ OpShape(q) /\ q.pc = x /\ q.kind = o.kind /\ q.of = o.of /\ q.coin = o.coin
         /\ q.amount = o.amount /\ q.txs = o.txs
  BY DEF OpShape

\* The handler p is o, but for what it does not send.
Alike(p, o) ==
    p = o \/ /\ OpOK(p) /\ OpOK(o) /\ p.pc = o.pc /\ p.kind = o.kind
             /\ p.coin = o.coin /\ p.amount = o.amount

\* A handler is told something that it does not send.
LEMMA Told ==
  ASSUME NEW o, OpOK(o), NEW x
  PROVE  /\ Alike([o EXCEPT !.alive = x], o) /\ Alike([o EXCEPT !.crossed = x], o)
         /\ Alike([o EXCEPT !.excused = x], o)
<1> DEFINE a == [o EXCEPT !.alive = x]
           b == [o EXCEPT !.crossed = x]
           d == [o EXCEPT !.excused = x]
           Same(q) == /\ OpShape(q) /\ q.pc = o.pc /\ q.kind = o.kind /\ q.of = o.of
                      /\ q.coin = o.coin /\ q.amount = o.amount /\ q.txs = o.txs
<1>1. Same(a) BY DEF OpOK, OpShape
<1>2. Same(b) BY DEF OpOK, OpShape
<1>3. Same(d) BY DEF OpOK, OpShape
<1>4. ASSUME NEW q, Same(q) PROVE Alike(q, o)
  BY <1>4 DEF OpOK, InFlight, DepositTxs, Tx, Alike
<1> QED BY <1>1, <1>2, <1>3, <1>4

\* A question that is dated or overtaken is still the same handler's.
LEMMA Asked ==
  ASSUME NEW q, QuestionShape(q), NEW x
  PROVE  LET u == [q EXCEPT !.fresh = x]
             v == [q EXCEPT !.late = x]
         IN /\ QuestionShape(u) /\ u.what = q.what /\ u.op = q.op
            /\ QuestionShape(v) /\ v.what = q.what /\ v.op = q.op
  BY DEF QuestionShape

\* One question less, and the questions after it move up.
LEMMA AnsweredAsked ==
  ASSUME AskedOK, NEW i \in 1 .. Len(asked)
  PROVE  LET k(j) == IF j < i THEN j ELSE j + 1
             n == Len(asked) - 1
         IN /\ n \in Nat /\ Len(Answered(i)) = n
            /\ Answered(i) = [j \in 1 .. n |-> Answered(i)[j]]
            /\ \A j \in 1 .. n : /\ QuestionShape(Answered(i)[j])
                                 /\ k(j) \in 1 .. Len(asked) /\ k(j) # i
                                 /\ Answered(i)[j].what = asked[k(j)].what
                                 /\ Answered(i)[j].op = asked[k(j)].op
<1> DEFINE n == Len(asked) - 1
<1>1. Len(asked) \in Nat /\ n \in Nat
  BY DEF AskedOK
<1>2. Len(Answered(i)) = n /\ Answered(i) = [j \in 1 .. n |-> Answered(i)[j]]
  BY <1>1 DEF Answered
<1>3. ASSUME NEW j \in 1 .. n
      PROVE  LET k == IF j < i THEN j ELSE j + 1 IN
             /\ QuestionShape(Answered(i)[j]) /\ k \in 1 .. Len(asked) /\ k # i
             /\ Answered(i)[j].what = asked[k].what /\ Answered(i)[j].op = asked[k].op
  <2>1. j \in 1 .. Len(asked) /\ j + 1 \in 1 .. Len(asked) /\ j \in Int /\ i \in Int
    BY <1>1
  <2>2. QuestionShape(asked[j]) /\ QuestionShape(asked[j + 1])
    BY <2>1 DEF AskedOK
  <2>3. CASE j < i
    <3> DEFINE x == asked[j].late \/ asked[j].what = asked[i].what
    <3>1. Answered(i)[j] = [asked[j] EXCEPT !.late = x]
      BY <1>1, <2>3 DEF Answered
    <3>2. LET v == [asked[j] EXCEPT !.late = x]
          IN QuestionShape(v) /\ v.what = asked[j].what /\ v.op = asked[j].op
      <4> HIDE DEF x
      <4> QED BY <2>2, Asked
    <3> QED BY <2>1, <2>3, <3>1, <3>2
  <2>4. CASE ~(j < i)
    <3>1. Answered(i)[j] = asked[j + 1]
      BY <1>1, <2>4 DEF Answered
    <3> QED BY <2>1, <2>2, <2>4, <3>1
  <2> QED BY <2>3, <2>4
<1> QED BY <1>1, <1>2, <1>3

-----------------------------------------------------------------------------
(* What a step has to show.                                                *)

\* One handler moves.
LEMMA OneMoves ==
  ASSUME OpsOK, NEW s \in Slots, NEW q, q = NoOp \/ OpOK(q), ops' = [ops EXCEPT ![s] = q]
  PROVE  OpsOK' /\ ops'[s] = q /\ \A t \in Slots \ {s} : ops'[t] = ops[t]
<1>1. DOMAIN ops' = Slots /\ ops'[s] = q /\ \A t \in Slots \ {s} : ops'[t] = ops[t]
  BY DEF OpsOK, HandlersOK
<1>2. ops' = [t \in Slots |-> ops'[t]]
  BY DEF OpsOK, HandlersOK
<1>3. ASSUME NEW t \in Slots PROVE ops'[t] = NoOp \/ OpOK(ops'[t])
  BY <1>1 DEF OpsOK, HandlersOK
<1> QED BY <1>1, <1>2, <1>3 DEF OpsOK, HandlersOK

\* The questions in flight stay, but for their dates, and are waited for.
LEMMA QuestionsKept ==
  ASSUME AskedOK, Len(asked') = Len(asked), asked' = [i \in 1 .. Len(asked) |-> asked'[i]],
         \A i \in 1 .. Len(asked) : /\ QuestionShape(asked'[i])
                                    /\ asked'[i].what = asked[i].what /\ asked'[i].op = asked[i].op,
         \A t \in Slots : Waits(ops[t]) => Waits(ops'[t])
  PROVE  AskedOK'
<1> DEFINE n == Len(asked)
<1>1. /\ Len(asked') = n /\ n \in Nat
      /\ asked' = [i \in 1 .. Len(asked') |-> asked'[i]]
  BY DEF AskedOK
<1>2. \A i \in 1 .. n : asked'[i].what = "limits" => asked'[i].op \in Slots /\ Waits(ops'[asked'[i].op])
  BY DEF AskedOK
<1>3. \A i, j \in 1 .. n :
         asked'[i].what = "limits" /\ asked'[j].what = "limits" /\ asked'[i].op = asked'[j].op => i = j
  BY DEF AskedOK
<1> QED BY <1>1, <1>2, <1>3 DEF AskedOK

\* None of them changes at all.
LEMMA QuestionsSame ==
  ASSUME AskedOK, asked' = asked, \A t \in Slots : Waits(ops[t]) => Waits(ops'[t])
  PROVE  AskedOK'
  BY DEF AskedOK

\* What the page's transaction dates are the same questions.
LEMMA Dated ==
  ASSUME AskedOK, NEW v, NEW what, \A t \in Slots : Waits(ops[t]) => Waits(ops'[t]),
         asked' = [i \in DOMAIN asked |-> StaleIf(asked[i], what \/ asked[i].what = "balances", v)]
  PROVE  AskedOK'
<1> DEFINE x(i) == asked[i].fresh /\ ~((what \/ asked[i].what = "balances") /\ asked[i].of = v)
<1>1. Len(asked) \in Nat /\ DOMAIN asked = 1 .. Len(asked)
  BY DEF AskedOK
<1>2. asked' = [i \in 1 .. Len(asked) |-> [asked[i] EXCEPT !.fresh = x(i)]]
  BY <1>1 DEF StaleIf
<1>3. Len(asked') = Len(asked) /\ asked' = [i \in 1 .. Len(asked) |-> asked'[i]]
  <2> HIDE DEF x
  <2> QED BY <1>1, <1>2
<1>4. ASSUME NEW i \in 1 .. Len(asked)
      PROVE  /\ QuestionShape(asked'[i])
             /\ asked'[i].what = asked[i].what /\ asked'[i].op = asked[i].op
  <2>1. asked'[i] = [asked[i] EXCEPT !.fresh = x(i)]
    <3> HIDE DEF x
    <3> QED BY <1>2
  <2>2. QuestionShape(asked[i])
    BY DEF AskedOK
  <2>3. LET u == [asked[i] EXCEPT !.fresh = x(i)]
        IN QuestionShape(u) /\ u.what = asked[i].what /\ u.op = asked[i].op
    <3> DEFINE y == x(i)
    <3> HIDE DEF y
    <3>1. LET u == [asked[i] EXCEPT !.fresh = y]
          IN QuestionShape(u) /\ u.what = asked[i].what /\ u.op = asked[i].op
      BY <2>2, Asked
    <3> QED BY <3>1 DEF y
  <2> HIDE DEF x
  <2> QED BY <2>1, <2>3
<1> QED BY <1>3, <1>4, QuestionsKept

\* Nothing is approved anew, and deposits go on or are known to have ended.
LEMMA CoveredKept ==
  ASSUME Covered, allowance' = allowance, spoiled \subseteq spoiled',
         \A c \in Coins, t \in Slots : DepositOnItsWay(t, c) =>
             c \in spoiled' \/ (DepositOnItsWay(t, c)' /\ ops'[t].amount = ops[t].amount)
  PROVE  Covered'
<1> SUFFICES ASSUME NEW c \in Coins, allowance'[c] > 0, c \notin spoiled'
             PROVE  \E s \in Slots : DepositOnItsWay(s, c)' /\ ops'[s].amount >= allowance'[c]
  BY DEF Covered
<1>1. PICK t \in Slots : DepositOnItsWay(t, c) /\ ops[t].amount >= allowance[c]
  BY DEF Covered
<1> QED BY <1>1

\* A step that touches neither handlers nor questions nor allowances.
LEMMA Elsewhere ==
  ASSUME PageInv, active' \in Vaults, UNCHANGED <<asked, ops, allowance, spoiled, bound>>
  PROVE  PageInv'
<1>1. OpsOK' BY DEF PageInv, OpsOK, HandlersOK
<1>2. AskedOK' BY DEF PageInv, AskedOK
<1>3. Covered' BY DEF PageInv, Covered, DepositOnItsWay
<1> QED BY <1>1, <1>2, <1>3 DEF PageInv

\* A handler that is not waiting for an answer moves or ends; a deposit that
\* is on its way stays so, or spoils its coin.
LEMMA HandlerStep ==
  ASSUME PageInv, NEW s \in Slots, NEW q, q = NoOp \/ OpOK(q), ops' = [ops EXCEPT ![s] = q],
         ~Waits(ops[s]), active' \in Vaults, UNCHANGED <<asked, allowance, bound>>,
         spoiled \subseteq spoiled',
         \A c \in Coins : DepositOnItsWay(s, c) =>
             \/ c \in spoiled'
             \/ /\ q.kind = "deposit" /\ InFlight(q) /\ q.coin = c
                /\ q.amount = ops[s].amount
  PROVE  PageInv'
<1>1. OpsOK' /\ ops'[s] = q /\ \A t \in Slots \ {s} : ops'[t] = ops[t]
  BY OneMoves DEF PageInv
<1>2. AskedOK'
  BY <1>1, QuestionsSame DEF PageInv
<1>3. Covered'
  <2>1. ASSUME NEW c \in Coins, NEW t \in Slots, DepositOnItsWay(t, c)
        PROVE  c \in spoiled' \/ (DepositOnItsWay(t, c)' /\ ops'[t].amount = ops[t].amount)
    BY <1>1, <2>1 DEF DepositOnItsWay, InFlight
  <2> QED BY <2>1, CoveredKept DEF PageInv
<1> QED BY <1>1, <1>2, <1>3 DEF PageInv

\* Handlers are told something.
LEMMA OpsTold ==
  ASSUME PageInv, ops' = [t \in Slots |-> ops'[t]], \A t \in Slots : Alike(ops'[t], ops[t]),
         active' \in Vaults, UNCHANGED <<asked, allowance, spoiled, bound>>
  PROVE  PageInv'
<1>1. OpsOK'
  <2>1. DOMAIN ops' = Slots OBVIOUS
  <2>2. ASSUME NEW t \in Slots PROVE ops'[t] = NoOp \/ OpOK(ops'[t])
    BY DEF PageInv, OpsOK, HandlersOK, Alike
  <2> QED BY <2>1, <2>2 DEF OpsOK, HandlersOK
<1>2. AskedOK'
  BY QuestionsSame DEF PageInv, Alike, Waits
<1>3. Covered'
  BY CoveredKept DEF PageInv, Alike, DepositOnItsWay
<1> QED BY <1>1, <1>2, <1>3 DEF PageInv

\* The section is gone, its handlers run on.
LEMMA UnmountedTold ==
  ASSUME NEW os, HandlersOK(os)
  PROVE  /\ Unmounted(os) = [t \in Slots |-> Unmounted(os)[t]]
         /\ \A t \in Slots : Alike(Unmounted(os)[t], os[t])
<1>1. ASSUME NEW t \in Slots PROVE Alike(Unmounted(os)[t], os[t])
  <2>1. CASE os[t] = NoOp
    BY <2>1 DEF Unmounted, Alike
  <2>2. CASE os[t] # NoOp
    <3>1. OpOK(os[t])
      BY <2>2 DEF HandlersOK
    <3>2. Unmounted(os)[t] = [os[t] EXCEPT !.alive = FALSE]
      BY <2>2 DEF Unmounted
    <3> QED BY <3>1, <3>2, Told
  <2> QED BY <2>1, <2>2
<1>2. \E f : Unmounted(os) = [t \in Slots |-> f[t]]
  <2> DEFINE f == [t \in Slots |-> IF os[t] = NoOp THEN NoOp ELSE [os[t] EXCEPT !.alive = FALSE]]
  <2>1. f = [t \in Slots |-> f[t]]
    OBVIOUS
  <2>2. Unmounted(os) = f
    BY DEF Unmounted
  <2> QED BY <2>1, <2>2
<1>3. PICK f : Unmounted(os) = [t \in Slots |-> f[t]]
  BY <1>2
<1>4. [t \in Slots |-> f[t]] = [t \in Slots |-> [u \in Slots |-> f[u]][t]]
  OBVIOUS
<1>5. Unmounted(os) = [t \in Slots |-> Unmounted(os)[t]]
  BY <1>3, <1>4, Zenon
<1> QED BY <1>1, <1>5, Zenon

\* A sequence and one more.
LEMMA Appended ==
  ASSUME NEW n \in Nat, NEW f, f = [i \in 1 .. n |-> f[i]], Len(f) = n, NEW q
  PROVE  /\ Len(Append(f, q)) = n + 1
         /\ Append(f, q) = [i \in 1 .. n + 1 |-> Append(f, q)[i]]
         /\ \A i \in 1 .. n : Append(f, q)[i] = f[i]
         /\ Append(f, q)[n + 1] = q
<1>1. Len(Append(f, q)) = n + 1 OBVIOUS
<1>2. \A i \in 1 .. n : Append(f, q)[i] = f[i] OBVIOUS
<1>3. Append(f, q)[n + 1] = q OBVIOUS
<1>4. Append(f, q) = [i \in 1 .. n + 1 |-> Append(f, q)[i]]
  <2> DEFINE T == {f[i] : i \in 1 .. n} \cup {q}
  <2>1. f \in Seq(T) /\ q \in T OBVIOUS
  <2> HIDE DEF T
  <2>2. Append(f, q) \in Seq(T) BY <2>1
  <2> QED BY <1>1, <2>2
<1> QED BY <1>1, <1>2, <1>3, <1>4, Zenon

\* A question about balances is asked, or one about limits by a handler that
\* has none.
LEMMA QuestionAdded ==
  ASSUME AskedOK, NEW q, QuestionShape(q), asked' = Append(asked, q),
         \A t \in Slots : Waits(ops[t]) => Waits(ops'[t]),
         q.what = "limits" => q.op \in Slots /\ ~Waits(ops[q.op]) /\ Waits(ops'[q.op])
  PROVE  AskedOK'
<1> DEFINE n == Len(asked)
           m == n + 1
<1>0. asked' = Append(asked, q) OBVIOUS
<1>1. n \in Nat /\ asked = [i \in 1 .. n |-> asked[i]]
  BY DEF AskedOK
<1>2. /\ Len(asked') = m /\ asked' = [i \in 1 .. m |-> asked'[i]]
      /\ \A i \in 1 .. n : asked'[i] = asked[i]
      /\ asked'[m] = q
  <2>1. /\ Len(Append(asked, q)) = n + 1
        /\ Append(asked, q) = [i \in 1 .. n + 1 |-> Append(asked, q)[i]]
        /\ \A i \in 1 .. n : Append(asked, q)[i] = asked[i]
        /\ Append(asked, q)[n + 1] = q
    <3> DEFINE l == n
    <3>1. l \in Nat /\ asked = [i \in 1 .. l |-> asked[i]] /\ Len(asked) = l
      BY <1>1
    <3> HIDE DEF l
    <3>2. /\ Len(Append(asked, q)) = l + 1
          /\ Append(asked, q) = [i \in 1 .. l + 1 |-> Append(asked, q)[i]]
          /\ \A i \in 1 .. l : Append(asked, q)[i] = asked[i]
          /\ Append(asked, q)[l + 1] = q
      BY <3>1, Appended
    <3> QED BY <3>2 DEF l
  <2> QED BY <1>0, <2>1, Zenon
<1> HIDE DEF m
<1>3. \A i \in 1 .. m : i = m \/ i \in 1 .. n
  BY <1>1 DEF m
<1>4. \A i \in 1 .. n : /\ QuestionShape(asked[i])
                        /\ asked[i].what = "limits" => asked[i].op \in Slots /\ Waits(ops[asked[i].op])
  BY DEF AskedOK
<1>5. \A i, j \in 1 .. n :
         asked[i].what = "limits" /\ asked[j].what = "limits" /\ asked[i].op = asked[j].op => i = j
  BY DEF AskedOK
<1>6. \A i \in 1 .. m : /\ QuestionShape(asked'[i])
                        /\ asked'[i].what = "limits" => asked'[i].op \in Slots /\ Waits(ops'[asked'[i].op])
  BY <1>2, <1>3, <1>4
<1>7. \A i, j \in 1 .. m :
         asked'[i].what = "limits" /\ asked'[j].what = "limits" /\ asked'[i].op = asked'[j].op => i = j
  <2> SUFFICES ASSUME NEW i \in 1 .. m, NEW j \in 1 .. m, asked'[i].what = "limits",
                      asked'[j].what = "limits", asked'[i].op = asked'[j].op
               PROVE  i = j
    OBVIOUS
  <2>1. CASE i = m /\ j # m
    BY <1>2, <1>3, <1>4, <2>1
  <2>2. CASE i # m /\ j = m
    BY <1>2, <1>3, <1>4, <2>2
  <2>3. CASE i # m /\ j # m
    BY <1>2, <1>3, <1>5, <2>3
  <2> QED BY <2>1, <2>2, <2>3
<1>8. m \in Nat
  BY <1>1 DEF m
<1> QED BY <1>2, <1>6, <1>7, <1>8 DEF AskedOK

\* A question is answered, and the handler that asked it, if any, moves on.
LEMMA QuestionAnswered ==
  ASSUME AskedOK, NEW i \in 1 .. Len(asked), asked' = Answered(i),
         \A t \in Slots :
             Waits(ops[t]) /\ ~(asked[i].what = "limits" /\ asked[i].op = t) => Waits(ops'[t])
  PROVE  AskedOK'
<1> DEFINE k(j) == IF j < i THEN j ELSE j + 1
           n == Len(asked) - 1
<1>1. /\ n \in Nat /\ Len(asked') = n /\ asked' = [j \in 1 .. n |-> asked'[j]]
      /\ \A j \in 1 .. n : /\ QuestionShape(asked'[j])
                           /\ k(j) \in 1 .. Len(asked) /\ k(j) # i
                           /\ asked'[j].what = asked[k(j)].what
                           /\ asked'[j].op = asked[k(j)].op
  BY AnsweredAsked
<1>2. \A j, l \in 1 .. n : k(j) = k(l) => j = l
  <2>1. Len(asked) \in Nat
    BY DEF AskedOK
  <2>2. n \in Nat /\ i \in Int
    BY <1>1, <2>1
  <2> HIDE DEF n
  <2> QED BY <2>2
<1> HIDE DEF k, n
<1>3. \A j \in 1 .. n : asked'[j].what = "limits" => asked'[j].op \in Slots /\ Waits(ops'[asked'[j].op])
  <2> SUFFICES ASSUME NEW j \in 1 .. n, asked'[j].what = "limits"
               PROVE  asked'[j].op \in Slots /\ Waits(ops'[asked'[j].op])
    OBVIOUS
  <2> DEFINE l == k(j)
  <2>1. /\ l \in 1 .. Len(asked) /\ l # i /\ asked[l].what = "limits"
        /\ asked'[j].op = asked[l].op
    BY <1>1
  <2> HIDE DEF l
  <2>2. asked[l].op \in Slots /\ Waits(ops[asked[l].op])
    BY <2>1 DEF AskedOK
  <2>3. ~(asked[i].what = "limits" /\ asked[i].op = asked[l].op)
    BY <2>1 DEF AskedOK
  <2> QED BY <2>1, <2>2, <2>3
<1>4. \A j, l \in 1 .. n :
         asked'[j].what = "limits" /\ asked'[l].what = "limits" /\ asked'[j].op = asked'[l].op => j = l
  BY <1>1, <1>2 DEF AskedOK
<1> QED BY <1>1, <1>3, <1>4 DEF AskedOK

\* One handler moves to q, and the others are told something.
LEMMA OthersTold ==
  ASSUME OpsOK, NEW s \in Slots, NEW q, q = NoOp \/ OpOK(q),
         ops' = [t \in Slots |-> ops'[t]], Alike(ops'[s], q),
         \A t \in Slots \ {s} : Alike(ops'[t], ops[t])
  PROVE  /\ OpsOK'
         /\ \A t \in Slots \ {s} : Waits(ops[t]) => Waits(ops'[t])
         /\ \A t \in Slots \ {s}, c \in Coins : DepositOnItsWay(t, c) =>
               DepositOnItsWay(t, c)' /\ ops'[t].amount = ops[t].amount
<1>1. DOMAIN ops' = Slots OBVIOUS
<1>2. ASSUME NEW t \in Slots PROVE ops'[t] = NoOp \/ OpOK(ops'[t])
  BY DEF OpsOK, HandlersOK, Alike
<1> QED BY <1>1, <1>2 DEF OpsOK, HandlersOK, Alike, Waits, DepositOnItsWay

\* A handler as a button starts it.
LEMMA Started ==
  ASSUME PageInv, NEW kind \in Kinds, NEW pc, pc \notin {"prompt", "mine", "allowance", "limits", "limits2"},
         NEW v, pc = "check" => v \in Vaults, NEW coin \in Coins \cup {Nothing},
         kind = "deposit" => coin \in Coins, NEW amount \in Nat
  PROVE  OpOK(Op(kind, pc, v, coin, amount))
  BY DEF Op, OpOK, OpShape, InFlight

-----------------------------------------------------------------------------
(* The steps.                                                              *)

LEMMA PageInvInit == PageInit => PageInv
<1> SUFFICES ASSUME PageInit PROVE PageInv
  OBVIOUS
<1>1. active \in Vaults /\ bound \in Bounds
  BY PageAssumption DEF PageInit
<1>2. allowance \in [Coins -> Nat]
  BY DEF PageInit
<1>3. OpsOK
  BY DEF PageInit, OpsOK, HandlersOK
<1>4. AskedOK
  <2>1. asked = <<>> BY DEF PageInit
  <2> QED BY <2>1 DEF AskedOK
<1>5. Covered
  BY DEF PageInit, Covered
<1> QED BY <1>1, <1>2, <1>3, <1>4, <1>5 DEF PageInv

\* Renders, reads of sections, the sweep and its prompts.
LEMMA QuietStep ==
  ASSUME PageInv,
         \/ Render \/ AskAddress \/ PressRefresh
         \/ \E r \in local, failed \in BOOLEAN : AnswerSection(r, failed)
         \/ \E r \in refreshes, failed \in BOOLEAN : Look(r, failed)
         \/ \E r \in refreshes, yes \in BOOLEAN : SweepPrompt(r, yes)
         \/ \E v \in Vaults, c \in Coins : Keeper(v, c)
  PROVE  PageInv'
<1>0. active \in Vaults BY DEF PageInv
<1>1. CASE Render
  <2>1. ops' = Unmounted(ops) /\ UNCHANGED <<active, asked, allowance, spoiled, bound>>
    BY <1>1 DEF Render, chainVars, boundVars
  <2>2. ops' = [t \in Slots |-> ops'[t]] /\ \A t \in Slots : Alike(ops'[t], ops[t])
    BY <2>1, UnmountedTold DEF PageInv, OpsOK
  <2> QED BY <1>0, <2>1, <2>2, OpsTold
<1>2. CASE AskAddress
  BY <1>0, <1>2, Elsewhere DEF AskAddress, chainVars, boundVars
<1>3. CASE PressRefresh
  BY <1>0, <1>3, Elsewhere DEF PressRefresh, chainVars
<1>4. CASE \E r \in local, failed \in BOOLEAN : AnswerSection(r, failed)
  BY <1>0, <1>4, Elsewhere DEF AnswerSection, chainVars
<1>5. CASE \E r \in refreshes, failed \in BOOLEAN : Look(r, failed)
  BY <1>0, <1>5, Elsewhere DEF Look, chainVars
<1>6. CASE \E r \in refreshes, yes \in BOOLEAN : SweepPrompt(r, yes)
  BY <1>0, <1>6, Elsewhere DEF SweepPrompt, chainVars, boundVars
<1>7. CASE \E v \in Vaults, c \in Coins : Keeper(v, c)
  BY <1>0, <1>7, Elsewhere DEF Keeper
<1> QED BY <1>1, <1>2, <1>3, <1>4, <1>5, <1>6, <1>7

\* Balances are asked for, swept for and answered.
LEMMA BalancesStep ==
  ASSUME PageInv,
         \/ \E r \in refreshes : SweepMined(r) \/ AskBalances(r)
         \/ \E i \in DOMAIN asked, failed \in BOOLEAN : AnswerBalances(i, failed)
  PROVE  PageInv'
<1>1. \A t \in Slots : Waits(ops[t]) => Waits(ops[t]) OBVIOUS
<1>2. ASSUME UNCHANGED <<active, ops, allowance, spoiled, bound>>, AskedOK' PROVE PageInv'
  <2>1. OpsOK' BY <1>2 DEF PageInv, OpsOK, HandlersOK
  <2>2. Covered' BY <1>2 DEF PageInv, Covered, DepositOnItsWay
  <2> QED BY <1>2, <2>1, <2>2 DEF PageInv
<1>3. ASSUME NEW r \in refreshes, SweepMined(r) PROVE PageInv'
  <2>1. UNCHANGED <<active, ops, allowance, spoiled, bound>>
    BY <1>3 DEF SweepMined, boundVars
  <2>2. CASE UNCHANGED asked
    BY <1>2, <2>1, <2>2, QuestionsSame DEF PageInv
  <2>3. CASE Touch(page, r.of, FALSE)
    <3>1. asked' = [i \in DOMAIN asked |-> StaleIf(asked[i], FALSE \/ asked[i].what = "balances", r.of)]
      BY <2>3 DEF Touch
    <3> QED BY <1>2, <2>1, <3>1, Dated DEF PageInv
  <2> QED BY <1>3, <2>2, <2>3 DEF SweepMined
<1>4. ASSUME NEW r \in refreshes, AskBalances(r) PROVE PageInv'
  <2>1. UNCHANGED <<active, ops, allowance, spoiled, bound>>
    BY <1>4 DEF AskBalances, chainVars, boundVars
  <2> DEFINE q == Question("balances", 0)
  <2>2. asked' = Append(asked, q) /\ QuestionShape(q) /\ q.what # "limits"
    <3>1. asked' = Append(asked, q) BY <1>4 DEF AskBalances
    <3>2. QuestionShape(q) /\ q.what # "limits" BY DEF Question, QuestionShape
    <3> QED BY <3>1, <3>2
  <2> HIDE DEF q
  <2>3. AskedOK'
    BY <2>1, <2>2, QuestionAdded DEF PageInv
  <2> QED BY <1>2, <2>1, <2>3
<1>5. ASSUME NEW i \in DOMAIN asked, NEW failed \in BOOLEAN, AnswerBalances(i, failed) PROVE PageInv'
  <2>1. UNCHANGED <<active, ops, allowance, spoiled, bound>> /\ asked' = Answered(i)
    BY <1>5 DEF AnswerBalances, chainVars
  <2>2. i \in 1 .. Len(asked)
    BY DEF PageInv, AskedOK
  <2>3. AskedOK /\ asked' = Answered(i)
        /\ \A t \in Slots :
              Waits(ops[t]) /\ ~(asked[i].what = "limits" /\ asked[i].op = t) => Waits(ops'[t])
    BY <2>1 DEF PageInv
  <2>4. AskedOK'
    BY <2>2, <2>3, QuestionAnswered
  <2> QED BY <1>2, <2>1, <2>4
<1> QED BY <1>3, <1>4, <1>5

\* The buttons.
LEMMA PressStep ==
  ASSUME PageInv, NEW s \in Slots,
         \/ \E v \in Vaults : SelectVault(s, v)
         \/ \E c \in Coins, a \in bound.amounts : PressDeposit(s, c, a)
         \/ \E c \in Coins, k \in {"withdraw", "penalty", "bypass", "execute"} : PressWithdrawal(s, k, c)
         \/ \E c \in Coins, k \in {"mode", "modes"}, on \in {0, 1} : PressEarning(s, k, c, on)
  PROVE  PageInv'
<1>0. active \in Vaults /\ OpsOK /\ AskedOK /\ Covered /\ bound \in Bounds
  BY DEF PageInv
<1>a. ASSUME ops[s] = NoOp PROVE ~Waits(ops[s]) /\ \A c \in Coins : ~DepositOnItsWay(s, c)
  BY <1>a DEF NoOp, Waits, DepositOnItsWay
<1>1. ASSUME NEW v \in Vaults, SelectVault(s, v) PROVE PageInv'
  <2>1. /\ ops[s] = NoOp /\ active' = v /\ UNCHANGED <<asked, allowance, spoiled, bound>>
        /\ ops' = [i \in Slots |->
                     IF i = s THEN Op("select", "who", v, Nothing, 0)
                     ELSE IF ops[i] # NoOp /\ ops[i].kind = "deposit" /\ ops[i].pc = "network"
                     THEN [ops[i] EXCEPT !.excused = TRUE] ELSE ops[i]]
    BY <1>1 DEF SelectVault, Free, chainVars
  <2> DEFINE q == Op("select", "who", v, Nothing, 0)
  <2>2. OpOK(q)
    <3>1. "select" \in Kinds /\ Nothing \in Coins \cup {Nothing} /\ 0 \in Nat
      BY DEF Kinds
    <3> QED BY <3>1, Started
  <2>3. ops' = [i \in Slots |-> ops'[i]] /\ ops'[s] = q
    BY <2>1
  <2>4. ASSUME NEW t \in Slots \ {s} PROVE Alike(ops'[t], ops[t])
    <3>1. CASE ops[t] # NoOp /\ ops[t].kind = "deposit" /\ ops[t].pc = "network"
      <4>1. ops'[t] = [ops[t] EXCEPT !.excused = TRUE] /\ OpOK(ops[t])
        BY <1>0, <2>1, <3>1 DEF OpsOK, HandlersOK
      <4> QED BY <4>1, Told
    <3>2. CASE ~(ops[t] # NoOp /\ ops[t].kind = "deposit" /\ ops[t].pc = "network")
      BY <2>1, <3>2 DEF Alike
    <3> QED BY <3>1, <3>2
  <2> HIDE DEF q
  <2>5. /\ OpsOK'
        /\ \A t \in Slots \ {s} : Waits(ops[t]) => Waits(ops'[t])
        /\ \A t \in Slots \ {s}, c \in Coins : DepositOnItsWay(t, c) =>
              DepositOnItsWay(t, c)' /\ ops'[t].amount = ops[t].amount
    <3>1. Alike(ops'[s], q) BY <2>3 DEF Alike
    <3> QED BY <1>0, <2>2, <2>3, <2>4, <3>1, OthersTold
  <2>6. AskedOK'
    BY <1>0, <1>a, <2>1, <2>5, QuestionsSame
  <2>7. Covered'
    BY <1>0, <1>a, <2>1, <2>5, CoveredKept
  <2> QED BY <2>1, <2>5, <2>6, <2>7 DEF PageInv
<1>2. ASSUME NEW q, OpOK(q), ops[s] = NoOp, ops' = [ops EXCEPT ![s] = q],
             UNCHANGED <<active, asked, allowance, spoiled, bound>>
      PROVE  PageInv'
  BY <1>0, <1>a, <1>2, HandlerStep
<1>3. ASSUME NEW c \in Coins, NEW a \in bound.amounts, PressDeposit(s, c, a) PROVE PageInv'
  <2>1. "deposit" \in Kinds /\ a \in Nat /\ c \in Coins \cup {Nothing}
    BY <1>0, PageAssumption DEF Kinds
  <2>2. OpOK(Op("deposit", "network", Nothing, c, a))
    BY <2>1, Started
  <2> QED BY <1>2, <1>3, <2>2 DEF PressDeposit, Free, chainVars
<1>4. ASSUME NEW c \in Coins, NEW k \in {"withdraw", "penalty", "bypass", "execute"},
             PressWithdrawal(s, k, c)
      PROVE  PageInv'
  <2>1. k \in Kinds /\ k # "deposit" /\ 0 \in Nat /\ c \in Coins \cup {Nothing}
    BY DEF Kinds
  <2>2. OpOK(Op(k, "check", RequireActiveVault, c, 0))
    BY <1>0, <2>1, Started DEF RequireActiveVault
  <2> QED BY <1>2, <1>4, <2>2 DEF PressWithdrawal, Free, chainVars
<1>5. ASSUME NEW c \in Coins, NEW k \in {"mode", "modes"}, NEW on \in {0, 1}, PressEarning(s, k, c, on)
      PROVE  PageInv'
  <2>1. k \in Kinds /\ k # "deposit" /\ on \in Nat /\ c \in Coins \cup {Nothing}
    BY DEF Kinds
  <2>2. OpOK(Op(k, "check", RequireActiveVault, c, on))
    BY <1>0, <2>1, Started DEF RequireActiveVault
  <2> QED BY <1>2, <1>5, <2>2 DEF PressEarning, Free, chainVars
<1> QED BY <1>1, <1>3, <1>4, <1>5

\* A coin of a deposit that ends is spoiled.
LEMMA GivesUpStep ==
  ASSUME PageInv, NEW s \in Slots, ~Waits(ops[s]), ops' = [ops EXCEPT ![s] = NoOp],
         UNCHANGED <<active, asked, allowance, bound>>,
         \/ spoiled' = spoiled /\ ~InFlight(ops[s])
         \/ Spoils(ops[s])
  PROVE  PageInv'
<1>1. spoiled \subseteq spoiled' /\ \A c \in Coins : DepositOnItsWay(s, c) => c \in spoiled'
  BY DEF Spoils, InFlight, DepositOnItsWay
<1> QED BY <1>1, HandlerStep DEF PageInv

\* The network is looked at, the vault asked for.
LEMMA NetworkStep ==
  ASSUME PageInv, NEW s \in Slots, NEW ok \in BOOLEAN, Network(s, ok)
  PROVE  PageInv'
<1> DEFINE q == [[ops[s] EXCEPT !.of = RequireActiveVault] EXCEPT !.pc = "check"]
<1>1. /\ ops[s].pc = "network" /\ UNCHANGED <<active, asked, allowance, spoiled, bound>>
      /\ ~Waits(ops[s]) /\ ~InFlight(ops[s])
  BY DEF Network, At, chainVars, Waits, InFlight
<1>2. active \in Vaults /\ OpOK(ops[s])
  BY <1>1 DEF PageInv, OpsOK, HandlersOK, NoOp
<1>3. OpOK(q)
  <2> DEFINE o == ops[s]
             p == [o EXCEPT !.of = active]
  <2>a. OpOK(o) BY <1>2
  <2> HIDE DEF o
  <2>b. OpShape(p) /\ p.of = active /\ p.kind = o.kind /\ p.coin = o.coin /\ p.amount = o.amount
    BY <2>a DEF OpOK, OpShape
  <2>c. q = [p EXCEPT !.pc = "check"]
    BY DEF RequireActiveVault, o
  <2> HIDE DEF p, q
  <2>1. /\ OpShape(q) /\ q.pc = "check" /\ q.of = active /\ q.kind = ops[s].kind
        /\ q.coin = ops[s].coin /\ q.amount = ops[s].amount
    BY <2>b, <2>c, Moved DEF o
  <2> QED BY <1>2, <2>1 DEF OpOK, InFlight
<1>4. ops' = [ops EXCEPT ![s] = q] \/ ops' = [ops EXCEPT ![s] = NoOp]
  BY DEF Network, GivesUp
<1> HIDE DEF q
<1>5. \A c \in Coins : ~DepositOnItsWay(s, c)
  BY <1>1 DEF DepositOnItsWay
<1> QED BY <1>1, <1>2, <1>3, <1>4, <1>5, HandlerStep

\* What a handler that is no deposit sends.
LEMMA TransactionsOther ==
  ASSUME NEW o, OpOK(o), o.kind # "deposit", o.of \in Vaults, Resolves(o)
  PROVE  Transactions(o) \in Seq(OtherTx) \ {<<>>}
<1>1. /\ o.kind \in Kinds \ {"deposit"} /\ o.coin \in Coins \cup {Nothing} /\ o.amount \in Nat
      /\ "mode" \in Kinds \ {"deposit"}
  BY DEF OpOK, Kinds
<1>2. ASSUME NEW c \in Coins \cup {Nothing}
      PROVE  Tx("mode", o, c) \in OtherTx /\ Tx(o.kind, o, c) \in OtherTx
  BY <1>1 DEF Tx, OtherTx
<1>3. CASE o.kind \in {"mode", "modes"}
  <2>1. Targets(o) \in Seq(Coins \cup {Nothing}) \ {<<>>}
    <3>1. CASE o.kind = "mode"
      BY <1>1, <3>1 DEF Targets
    <3>2. CASE o.kind # "mode"
      <4>1. Takes[o.of] \in Seq(Coins) \ {<<>>}
        BY PageAssumption
      <4>2. Takes[o.of] \in Seq(Coins \cup {Nothing}) \ {<<>>}
        BY <4>1
      <4> QED BY <3>2, <4>2 DEF Targets
    <3> QED BY <3>1, <3>2
  <2>2. Transactions(o) = [i \in DOMAIN Targets(o) |-> Tx("mode", o, Targets(o)[i])]
    BY <1>3 DEF Transactions
  <2> DEFINE f == Targets(o)
             g(i) == Tx("mode", o, f[i])
  <2>3. f \in Seq(Coins \cup {Nothing}) /\ Len(f) \in Nat \ {0} /\ DOMAIN f = 1 .. Len(f)
    BY <2>1
  <2>4. Transactions(o) = [i \in 1 .. Len(f) |-> g(i)]
    BY <2>2, <2>3
  <2>5. \A i \in 1 .. Len(f) : g(i) \in OtherTx
    BY <1>2, <2>3
  <2> HIDE DEF f, g
  <2>6. Len([i \in 1 .. Len(f) |-> g(i)]) = Len(f)
    BY <2>3
  <2>7. [i \in 1 .. Len(f) |-> g(i)] \in Seq(OtherTx)
    BY <2>3, <2>5
  <2> QED BY <2>3, <2>4, <2>6, <2>7
<1>4. CASE o.kind \notin {"mode", "modes"}
  <2>1. Transactions(o) = <<Tx(o.kind, o, o.coin)>>
    BY <1>4 DEF Transactions
  <2> DEFINE x == Tx(o.kind, o, o.coin)
  <2>2. x \in OtherTx
    BY <1>1, <1>2
  <2> HIDE DEF x
  <2>3. <<x>> \in Seq(OtherTx) \ {<<>>}
    BY <2>2
  <2> QED BY <2>1, <2>3 DEF x
<1> QED BY <1>3, <1>4

\* The adapter checks, and the handler goes to the wallet or gives up.
LEMMA CheckStep ==
  ASSUME PageInv, NEW s \in Slots, NEW failed \in BOOLEAN, Check(s, failed)
  PROVE  PageInv'
<1> DEFINE o == ops[s]
           where == IF o.kind = "deposit" THEN "allowance" ELSE "prompt"
           txs == IF o.kind = "deposit" THEN <<>> ELSE Transactions(o)
           q == [[o EXCEPT !.pc = where] EXCEPT !.txs = txs]
<1>1. /\ o.pc = "check" /\ UNCHANGED <<active, asked, allowance, spoiled, bound>>
      /\ ~Waits(o) /\ ~InFlight(o)
  BY DEF Check, At, chainVars, Waits, InFlight
<1>2. active \in Vaults /\ OpOK(o) /\ o.of \in Vaults
  BY <1>1 DEF PageInv, OpsOK, HandlersOK, NoOp, OpOK
<1>3. ops' = [ops EXCEPT ![s] = NoOp] \/ (Resolves(o) /\ ops' = [ops EXCEPT ![s] = q])
  BY DEF Check, GivesUp
<1>4. ASSUME Resolves(o) PROVE OpOK(q)
  <2>1. o.kind # "deposit" => txs \in Seq(OtherTx) \ {<<>>}
    BY <1>2, <1>4, TransactionsOther
  <2> HIDE DEF o, txs
  <2>2. /\ OpShape(q) /\ q.pc = where /\ q.of = o.of /\ q.kind = o.kind
        /\ q.coin = o.coin /\ q.amount = o.amount /\ q.txs = txs
    <3> DEFINE p == [o EXCEPT !.pc = where]
    <3> HIDE DEF where
    <3>1. /\ OpShape(p) /\ p.pc = where /\ p.of = o.of /\ p.kind = o.kind
          /\ p.coin = o.coin /\ p.amount = o.amount
      <4>1. OpShape(o) BY <1>2 DEF OpOK
      <4> QED BY <4>1, Moved
    <3>2. q = [p EXCEPT !.txs = txs] OBVIOUS
    <3> HIDE DEF p, q
    <3> QED BY <3>1, <3>2 DEF OpShape
  <2> QED BY <1>2, <2>1, <2>2 DEF OpOK, InFlight
<1>5. \A c \in Coins : ~DepositOnItsWay(s, c)
  BY <1>1 DEF DepositOnItsWay
<1> HIDE DEF q
<1> QED BY <1>1, <1>2, <1>3, <1>4, <1>5, HandlerStep DEF o

\* Two and three transactions in a row.
LEMMA Two ==
  ASSUME NEW T, NEW s \in Seq(T), Len(s) = 2 PROVE s = <<s[1], s[2]>>
  OBVIOUS

LEMMA Three ==
  ASSUME NEW T, NEW s \in Seq(T), Len(s) = 3 PROVE s = <<s[1], s[2], s[3]>>
  OBVIOUS

LEMMA RowOfTwo ==
  ASSUME NEW x, NEW y PROVE <<x>> \o <<y>> = <<x, y>>
<1> DEFINE T == {x, y}
           s == <<x>> \o <<y>>
<1>1. <<x>> \in Seq(T) /\ <<y>> \in Seq(T) OBVIOUS
<1>2. Len(s) = 2 /\ s \in Seq(T) BY <1>1
<1>3. s[1] = x /\ s[2] = y BY <1>1
<1> HIDE DEF s, T
<1>4. s = <<s[1], s[2]>> BY <1>2, Two, Zenon
<1>5. s = <<x, y>> BY <1>3, <1>4
<1> QED BY <1>5 DEF s

LEMMA RowOfThree ==
  ASSUME NEW x, NEW y, NEW z PROVE (<<x>> \o <<y>>) \o <<z>> = <<x, y, z>>
<1> DEFINE T == {x, y, z}
           p == <<x, y>>
           s == p \o <<z>>
<1>1. p \in Seq(T) /\ <<z>> \in Seq(T) OBVIOUS
<1>2. Len(s) = 3 /\ s \in Seq(T)
  <2>1. Len(s) = 3 BY <1>1
  <2>2. s \in Seq(T) BY <1>1
  <2> QED BY <2>1, <2>2
<1>3. s[1] = x /\ s[2] = y /\ s[3] = z
  <2>1. s[1] = x BY <1>1
  <2>2. s[2] = y BY <1>1
  <2>3. s[3] = z BY <1>1
  <2> QED BY <2>1, <2>2, <2>3
<1> HIDE DEF p, s, T
<1>4. s = <<s[1], s[2], s[3]>> BY <1>2, Three, Zenon
<1>5. s = <<x, y, z>> BY <1>3, <1>4
<1>6. <<x>> \o <<y>> = p BY RowOfTwo, Zenon DEF p
<1> QED BY <1>5, <1>6, Zenon DEF s

\* The allowance is read, and the transactions of the deposit follow from it.
LEMMA ReadAllowanceStep ==
  ASSUME PageInv, NEW s \in Slots, ReadAllowance(s)
  PROVE  PageInv'
<1> DEFINE o == ops[s]
           enough == allowance[o.coin]
           d == Tx("deposit", o, o.coin)
           a == [call |-> "approve", coin |-> o.coin, amount |-> o.amount]
           r == [call |-> "approve", coin |-> o.coin, amount |-> 0]
           txs == (IF enough < o.amount
                   THEN (IF enough > 0 THEN <<r>> ELSE <<>>) \o <<a>> ELSE <<>>) \o <<d>>
           q == [[o EXCEPT !.pc = "prompt"] EXCEPT !.txs = txs]
<1>1. /\ o.pc = "allowance" /\ UNCHANGED <<active, asked, allowance, spoiled, bound>>
      /\ ~Waits(o) /\ ~InFlight(o)
  BY DEF ReadAllowance, At, chainVars, boundVars, Waits, InFlight
<1>2. active \in Vaults /\ OpOK(o) /\ o.kind = "deposit"
  BY <1>1 DEF PageInv, OpsOK, HandlersOK, NoOp, OpOK
<1>3. ops' = [ops EXCEPT ![s] = q]
  BY DEF ReadAllowance, ApprovedFor
<1>4. OpOK(q)
  <2>1. txs \in {<<d>>, <<a, d>>, <<r, a, d>>}
    <3> HIDE DEF o, d, a, r, enough
    <3>1. <<>> \o <<d>> = <<d>> /\ <<>> \o <<a>> = <<a>> OBVIOUS
    <3>2. (<<>> \o <<a>>) \o <<d>> = <<a, d>> BY <3>1, RowOfTwo
    <3>3. (<<r>> \o <<a>>) \o <<d>> = <<r, a, d>> BY RowOfThree
    <3>4. CASE enough < o.amount /\ enough > 0
      BY <3>3, <3>4
    <3>5. CASE enough < o.amount /\ ~(enough > 0)
      BY <3>2, <3>5
    <3>6. CASE ~(enough < o.amount)
      BY <3>1, <3>6
    <3> QED BY <3>4, <3>5, <3>6
  <2> HIDE DEF o, txs
  <2>2. /\ OpShape(q) /\ q.pc = "prompt" /\ q.of = o.of /\ q.kind = o.kind
        /\ q.coin = o.coin /\ q.amount = o.amount /\ q.txs = txs
    <3> DEFINE p == [o EXCEPT !.pc = "prompt"]
    <3>1. /\ OpShape(p) /\ p.pc = "prompt" /\ p.of = o.of /\ p.kind = o.kind
          /\ p.coin = o.coin /\ p.amount = o.amount
      BY <1>2, Moved DEF OpOK
    <3>2. q = [p EXCEPT !.txs = txs] OBVIOUS
    <3> HIDE DEF p, q
    <3> QED BY <3>1, <3>2 DEF OpShape
  <2>3. q.txs \in DepositTxs(q)
    BY <2>1, <2>2 DEF DepositTxs, Tx
  <2> QED BY <1>2, <2>2, <2>3 DEF OpOK, InFlight
<1>5. \A c \in Coins : ~DepositOnItsWay(s, c)
  BY <1>1 DEF DepositOnItsWay
<1> HIDE DEF q
<1> QED BY <1>1, <1>2, <1>3, <1>4, <1>5, HandlerStep DEF o

\* A handler at a place where its transactions do not matter.
LEMMA Resting ==
  ASSUME NEW o, OpOK(o), NEW x, x \in {"saved", "who", "who2", "limits", "limits2", "reload"}
  PROVE  OpOK([o EXCEPT !.pc = x])
<1> DEFINE q == [o EXCEPT !.pc = x]
<1>1. OpShape(o) BY DEF OpOK
<1>2. OpShape(q) /\ q.pc = x /\ q.kind = o.kind /\ q.of = o.of /\ q.coin = o.coin /\ q.amount = o.amount
  BY <1>1, Moved
<1> HIDE DEF q
<1>3. OpOK(q)
  BY <1>2 DEF OpOK, InFlight
<1> QED BY <1>3 DEF q

\* The signature is given or declined.
LEMMA PromptStep ==
  ASSUME PageInv, NEW s \in Slots, NEW yes \in BOOLEAN, Prompt(s, yes)
  PROVE  PageInv'
<1> DEFINE o == ops[s]
           q == [o EXCEPT !.pc = "mine"]
<1>1. o.pc = "prompt" /\ UNCHANGED <<active, asked, allowance, bound>> /\ ~Waits(o)
  BY DEF Prompt, At, chainVars, boundVars, Waits
<1>2. active \in Vaults /\ OpOK(o)
  BY <1>1 DEF PageInv, OpsOK, HandlersOK, NoOp
<1>3. CASE yes
  <2>1. ops' = [ops EXCEPT ![s] = q] /\ spoiled' = spoiled
    BY <1>3 DEF Prompt
  <2>2. /\ OpShape(q) /\ q.pc = "mine" /\ q.of = o.of /\ q.kind = o.kind
        /\ q.coin = o.coin /\ q.amount = o.amount /\ q.txs = o.txs
    <3>1. OpShape(o) BY <1>2 DEF OpOK
    <3> HIDE DEF o
    <3> QED BY <3>1, Moved
  <2> HIDE DEF q
  <2>3. OpOK(q)
    BY <1>1, <1>2, <2>2 DEF OpOK, InFlight, DepositTxs, Tx
  <2>4. \A c \in Coins : DepositOnItsWay(s, c) =>
            q.kind = "deposit" /\ InFlight(q) /\ q.coin = c /\ q.amount = ops[s].amount
    BY <2>2 DEF DepositOnItsWay, InFlight
  <2> QED BY <1>1, <1>2, <2>1, <2>3, <2>4, HandlerStep
<1>4. CASE ~yes
  <2>1. ops' = [ops EXCEPT ![s] = NoOp] /\ Spoils(ops[s])
    BY <1>4 DEF Prompt, GivesUp
  <2> QED BY <1>1, <2>1, GivesUpStep
<1> QED BY <1>3, <1>4

\* A switch has been saved, and the status is read again.
LEMMA ReloadStep ==
  ASSUME PageInv, NEW s \in Slots,
         Reload(s) \/ \E failed \in BOOLEAN : Reloaded(s, failed)
  PROVE  PageInv'
<1> DEFINE o == ops[s]
           q == [[o EXCEPT !.pc = "reload"] EXCEPT !.of = active]
           p == [o EXCEPT !.pc = "who"]
<1>1. /\ o.pc \in {"saved", "reload"} /\ UNCHANGED <<active, asked, allowance, spoiled, bound>>
      /\ ~Waits(o) /\ ~InFlight(o)
  BY DEF Reload, Reloaded, At, chainVars, boundVars, Waits, InFlight
<1>2. active \in Vaults /\ OpOK(o)
  BY <1>1 DEF PageInv, OpsOK, HandlersOK, NoOp
<1>3. \/ ops' = [ops EXCEPT ![s] = q] \/ ops' = [ops EXCEPT ![s] = p]
      \/ ops' = [ops EXCEPT ![s] = NoOp]
  BY DEF Reload, Reloaded
<1>4. OpOK(p)
  BY <1>2, Resting
<1>5. OpOK(q)
  <2> DEFINE r == [o EXCEPT !.pc = "reload"]
  <2>1. OpShape(r) /\ r.pc = "reload" /\ r.kind = o.kind /\ r.coin = o.coin /\ r.amount = o.amount
    <3>1. OpShape(o) BY <1>2 DEF OpOK
    <3> HIDE DEF o
    <3> QED BY <3>1, Moved
  <2>2. q = [r EXCEPT !.of = active] OBVIOUS
  <2> HIDE DEF r, q
  <2>3. /\ OpShape(q) /\ q.pc = "reload" /\ q.kind = o.kind /\ q.coin = o.coin /\ q.amount = o.amount
    BY <2>1, <2>2 DEF OpShape
  <2> QED BY <1>2, <2>3 DEF OpOK, InFlight
<1>6. \A c \in Coins : ~DepositOnItsWay(s, c)
  BY <1>1 DEF DepositOnItsWay, InFlight
<1> HIDE DEF q, p
<1> QED BY <1>1, <1>2, <1>3, <1>4, <1>5, <1>6, HandlerStep

\* The limits are asked for.
LEMMA AskLimitsStep ==
  ASSUME PageInv, NEW s \in Slots, AskLimits(s)
  PROVE  PageInv'
<1> DEFINE o == ops[s]
           to == IF o.pc = "who" THEN "limits" ELSE "limits2"
           p == [o EXCEPT !.pc = to]
           q == Question("limits", s)
<1>1. /\ o.pc \in {"who", "who2"} /\ UNCHANGED <<active, allowance, spoiled, bound>>
      /\ ~Waits(o) /\ ~InFlight(o)
  BY DEF AskLimits, At, chainVars, boundVars, Waits, InFlight
<1>2. active \in Vaults /\ OpsOK /\ AskedOK /\ Covered /\ OpOK(o)
  BY <1>1 DEF PageInv, OpsOK, HandlersOK, NoOp
<1>3. ops' = [ops EXCEPT ![s] = p] /\ asked' = Append(asked, q)
  BY DEF AskLimits
<1>4. OpOK(p) /\ Waits(p)
  <2>1. to \in {"limits", "limits2"} OBVIOUS
  <2> HIDE DEF to, o
  <2>2. OpOK(p)
    BY <1>2, <2>1, Resting
  <2>3. OpShape(o)
    BY <1>2 DEF OpOK
  <2>4. p.pc = to
    BY <2>3, Moved
  <2> QED BY <2>1, <2>2, <2>4 DEF Waits
<1>5. QuestionShape(q) /\ q.what = "limits" /\ q.op = s
  BY DEF Question, QuestionShape
<1> HIDE DEF p, q
<1>6. OpsOK' /\ ops'[s] = p /\ \A t \in Slots \ {s} : ops'[t] = ops[t]
  BY <1>2, <1>3, <1>4, OneMoves
<1>7. AskedOK'
  <2>1. \A t \in Slots : Waits(ops[t]) => Waits(ops'[t])
    BY <1>4, <1>6
  <2>2. q.what = "limits" => q.op \in Slots /\ ~Waits(ops[q.op]) /\ Waits(ops'[q.op])
    BY <1>1, <1>4, <1>5, <1>6
  <2> QED BY <1>2, <1>3, <1>5, <2>1, <2>2, QuestionAdded
<1>8. Covered'
  <2>1. ASSUME NEW c \in Coins, NEW t \in Slots, DepositOnItsWay(t, c)
        PROVE  DepositOnItsWay(t, c)' /\ ops'[t].amount = ops[t].amount
    BY <1>1, <1>6, <2>1 DEF DepositOnItsWay, InFlight
  <2> QED BY <1>1, <1>2, <2>1, CoveredKept
<1> QED BY <1>1, <1>2, <1>6, <1>7, <1>8 DEF PageInv

\* The limits are answered; what ends is the handler that asked.
LEMMA AnswerLimitsStep ==
  ASSUME PageInv, NEW i \in DOMAIN asked, NEW failed \in BOOLEAN, AnswerLimits(i, failed)
  PROVE  PageInv'
<1> DEFINE s == asked[i].op
           o == ops[s]
           q == IF Again(o) THEN [o EXCEPT !.pc = "who2"] ELSE NoOp
           now == [ops EXCEPT ![s] = q]
<1>1. /\ asked[i].what = "limits" /\ asked' = Answered(i)
      /\ UNCHANGED <<active, allowance, spoiled, bound>>
      /\ ops' = now \/ ops' = Unmounted(now)
  BY DEF AnswerLimits, chainVars
<1>2. active \in Vaults /\ OpsOK /\ AskedOK /\ Covered /\ i \in 1 .. Len(asked)
  BY DEF PageInv, AskedOK
<1>3. s \in Slots /\ Waits(o)
  BY <1>1, <1>2 DEF AskedOK
<1>4. OpOK(o) /\ ~InFlight(o)
  BY <1>2, <1>3 DEF OpsOK, HandlersOK, NoOp, Waits, InFlight
<1>5. q = NoOp \/ OpOK(q)
  BY <1>4, Resting
<1> HIDE DEF q
<1>6. HandlersOK(now) /\ now[s] = q /\ \A t \in Slots \ {s} : now[t] = ops[t]
  <2>1. now[s] = q /\ \A t \in Slots \ {s} : now[t] = ops[t]
    BY <1>2, <1>3 DEF OpsOK, HandlersOK
  <2>2. DOMAIN now = Slots /\ now = [t \in Slots |-> now[t]]
    BY <1>2, <1>3 DEF OpsOK, HandlersOK
  <2>3. ASSUME NEW t \in Slots PROVE now[t] = NoOp \/ OpOK(now[t])
    <3> HIDE DEF now
    <3> QED BY <1>2, <1>5, <2>1 DEF OpsOK, HandlersOK
  <2> HIDE DEF now
  <2> QED BY <2>1, <2>2, <2>3 DEF HandlersOK
<1> HIDE DEF now
<1>7. ops' = [t \in Slots |-> ops'[t]] /\ \A t \in Slots : Alike(ops'[t], now[t])
  <2>1. CASE ops' = now
    BY <1>6, <2>1 DEF HandlersOK, Alike
  <2>2. CASE ops' = Unmounted(now)
    BY <1>6, <2>2, UnmountedTold
  <2> QED BY <1>1, <2>1, <2>2
<1>8. /\ OpsOK'
      /\ \A t \in Slots \ {s} : Waits(ops[t]) => Waits(ops'[t])
      /\ \A t \in Slots \ {s}, c \in Coins : DepositOnItsWay(t, c) =>
            DepositOnItsWay(t, c)' /\ ops'[t].amount = ops[t].amount
  <2>1. Alike(ops'[s], q) /\ \A t \in Slots \ {s} : Alike(ops'[t], ops[t])
    BY <1>3, <1>6, <1>7
  <2> HIDE DEF s
  <2> QED BY <1>2, <1>3, <1>5, <1>7, <2>1, OthersTold
<1>9. AskedOK'
  <2>1. \A t \in Slots :
            Waits(ops[t]) /\ ~(asked[i].what = "limits" /\ asked[i].op = t) => Waits(ops'[t])
    BY <1>1, <1>8
  <2> QED BY <1>1, <1>2, <2>1, QuestionAnswered
<1>10. Covered'
  <2>1. \A c \in Coins : ~DepositOnItsWay(s, c)
    BY <1>4 DEF DepositOnItsWay, InFlight
  <2> HIDE DEF s
  <2> QED BY <1>1, <1>2, <1>8, <2>1, CoveredKept
<1> QED BY <1>1, <1>2, <1>8, <1>9, <1>10 DEF PageInv

\* The rest of three.
LEMMA RestOfThree ==
  ASSUME NEW x, NEW y, NEW z
  PROVE  Tail(<<x, y, z>>) = <<y, z>>
<1> DEFINE T == {x, y, z}
           s == Tail(<<x, y, z>>)
<1>1. Len(s) = 2 /\ s \in Seq(T) /\ s[1] = y /\ s[2] = z OBVIOUS
<1> HIDE DEF s, T
<1>2. s = <<s[1], s[2]>> BY <1>1, Two, Zenon
<1>3. s = <<y, z>> BY <1>1, <1>2
<1> QED BY <1>3 DEF s

\* The first of a few, and the rest.
LEMMA HeadsAndTails ==
  ASSUME NEW x, NEW y, NEW z
  PROVE  /\ Head(<<x>>) = x /\ Tail(<<x>>) = <<>>
         /\ Head(<<x, y>>) = x /\ Tail(<<x, y>>) = <<y>>
         /\ Head(<<x, y, z>>) = x /\ Tail(<<x, y, z>>) = <<y, z>>
<1>1. Head(<<x>>) = x /\ Head(<<x, y>>) = x /\ Head(<<x, y, z>>) = x OBVIOUS
<1>2. Tail(<<x>>) = <<>> OBVIOUS
<1>3. Tail(<<x, y>>) = <<y>> OBVIOUS
<1>4. Tail(<<x, y, z>>) = <<y, z>> BY RestOfThree
<1> QED BY <1>1, <1>2, <1>3, <1>4, Zenon

\* A transaction of a handler is mined or refused.
LEMMA MinedStep ==
  ASSUME PageInv, NEW s \in Slots, NEW refused \in BOOLEAN, Mined(s, refused)
  PROVE  PageInv'
<1> DEFINE o == ops[s]
           tx == Head(o.txs)
           more == Tail(o.txs)
           next == IF more # <<>> THEN "prompt" ELSE AfterTransactions(o)
           p == [[o EXCEPT !.txs = more] EXCEPT !.pc = next]
           q == IF next = "end" THEN NoOp ELSE p
<1>1. o.pc = "mine" /\ InFlight(o) /\ ~Waits(o) /\ UNCHANGED <<active, bound>>
  BY DEF Mined, At, Waits, InFlight
<1>2. active \in Vaults /\ OpsOK /\ AskedOK /\ Covered /\ OpOK(o) /\ allowance \in [Coins -> Nat]
  BY <1>1 DEF PageInv, OpsOK, HandlersOK, NoOp
<1>3. \/ /\ ops' = [ops EXCEPT ![s] = NoOp] /\ Spoils(o) /\ UNCHANGED <<asked, allowance>>
      \/ /\ Effect(o, tx) /\ Lands(o, tx) /\ UNCHANGED spoiled
         /\ ops' = [i \in Slots |->
                      IF i = s THEN q
                      ELSE IF tx.call = "mode" /\ ops[i] # NoOp /\ ops[i].of = o.of
                      THEN [ops[i] EXCEPT !.crossed = TRUE] ELSE ops[i]]
  BY DEF Mined, GivesUp
<1>4. CASE ops' = [ops EXCEPT ![s] = NoOp] /\ Spoils(o) /\ UNCHANGED <<asked, allowance>>
  BY <1>1, <1>4, GivesUpStep
<1> SUFFICES ASSUME Effect(o, tx), Lands(o, tx), spoiled' = spoiled,
                    ops' = [i \in Slots |->
                      IF i = s THEN q
                      ELSE IF tx.call = "mode" /\ ops[i] # NoOp /\ ops[i].of = o.of
                      THEN [ops[i] EXCEPT !.crossed = TRUE] ELSE ops[i]]
             PROVE  PageInv'
  BY <1>3, <1>4
<1>5. next \in {"prompt", "saved", "end", "who"} /\ (more # <<>> => next = "prompt")
      /\ (o.kind = "deposit" /\ more = <<>> => next = "who")
      /\ (more = <<>> => next # "prompt")
  BY DEF AfterTransactions
<1>6. /\ OpShape(p) /\ p.pc = next /\ p.txs = more /\ p.of = o.of /\ p.kind = o.kind
      /\ p.coin = o.coin /\ p.amount = o.amount
  <2> DEFINE r == [o EXCEPT !.txs = more]
  <2>1. OpShape(o) BY <1>2 DEF OpOK
  <2> HIDE DEF o, more, next
  <2>2. /\ OpShape(r) /\ r.txs = more /\ r.of = o.of /\ r.kind = o.kind
        /\ r.coin = o.coin /\ r.amount = o.amount
    BY <2>1 DEF OpShape
  <2>3. p = [r EXCEPT !.pc = next] OBVIOUS
  <2> HIDE DEF r, p
  <2> QED BY <2>2, <2>3, Moved
<1>0. ASSUME q = NoOp \/ OpOK(q)
      PROVE  /\ OpsOK' /\ AskedOK'
             /\ \A t \in Slots \ {s}, c \in Coins : DepositOnItsWay(t, c) =>
                   DepositOnItsWay(t, c)' /\ ops'[t].amount = ops[t].amount
  <2>1. ops' = [t \in Slots |-> ops'[t]] /\ ops'[s] = q
    <3> HIDE DEF o, tx, q
    <3> QED OBVIOUS
  <2>2. ASSUME NEW t \in Slots \ {s} PROVE Alike(ops'[t], ops[t])
    <3> HIDE DEF o, tx, q
    <3>1. CASE tx.call = "mode" /\ ops[t] # NoOp /\ ops[t].of = o.of
      <4>1. ops'[t] = [ops[t] EXCEPT !.crossed = TRUE] /\ OpOK(ops[t])
        BY <1>2, <3>1 DEF OpsOK, HandlersOK
      <4>2. Alike([ops[t] EXCEPT !.crossed = TRUE], ops[t])
        BY <4>1, Told
      <4> QED BY <4>1, <4>2
    <3>2. CASE ~(tx.call = "mode" /\ ops[t] # NoOp /\ ops[t].of = o.of)
      BY <3>2 DEF Alike
    <3> QED BY <3>1, <3>2
  <2> HIDE DEF q
  <2>3. /\ OpsOK'
        /\ \A t \in Slots \ {s} : Waits(ops[t]) => Waits(ops'[t])
        /\ \A t \in Slots \ {s}, c \in Coins : DepositOnItsWay(t, c) =>
              DepositOnItsWay(t, c)' /\ ops'[t].amount = ops[t].amount
    <3>1. Alike(ops'[s], q) BY <2>1 DEF Alike
    <3> QED BY <1>0, <1>2, <2>1, <2>2, <3>1, OthersTold
  <2>4. \A t \in Slots : Waits(ops[t]) => Waits(ops'[t])
    BY <1>1, <2>3
  <2>5. asked' = asked \/ Touch(page, o.of, TRUE)
    <3> HIDE DEF o, tx
    <3> QED BY DEF Effect
  <2>6. AskedOK'
    <3>1. CASE asked' = asked
      BY <1>2, <2>4, <3>1, QuestionsSame
    <3>2. CASE Touch(page, o.of, TRUE)
      <4>1. asked' = [i \in DOMAIN asked |->
                         StaleIf(asked[i], TRUE \/ asked[i].what = "balances", o.of)]
        BY <3>2 DEF Touch
      <4> HIDE DEF o
      <4> QED BY <1>2, <2>4, <4>1, Dated
    <3> QED BY <2>5, <3>1, <3>2
  <2> QED BY <2>3, <2>6
<1> DEFINE d == Tx("deposit", o, o.coin)
           a == [call |-> "approve", coin |-> o.coin, amount |-> o.amount]
           e == [call |-> "approve", coin |-> o.coin, amount |-> 0]
<1>7. CASE o.kind = "deposit"
  <2>1. o.txs \in {<<d>>, <<a, d>>, <<e, a, d>>} /\ o.coin \in Coins /\ o.amount \in Nat
    BY <1>1, <1>2, <1>7 DEF OpOK, DepositTxs
  <2>2. \/ tx = d /\ more = <<>>
        \/ tx = a /\ more = <<d>>
        \/ tx = e /\ more = <<a, d>>
    <3> HIDE DEF o, d, a, e
    <3>1. CASE o.txs = <<d>>
      BY <3>1, HeadsAndTails, Zenon
    <3>2. CASE o.txs = <<a, d>>
      <4>1. Head(<<a, d>>) = a /\ Tail(<<a, d>>) = <<d>> BY HeadsAndTails
      <4> QED BY <3>2, <4>1, Zenon
    <3>3. CASE o.txs = <<e, a, d>>
      <4>1. Head(<<e, a, d>>) = e /\ Tail(<<e, a, d>>) = <<a, d>>
        <5>1. Head(<<e, a, d>>) = e BY HeadsAndTails, Zenon
        <5>2. Tail(<<e, a, d>>) = <<a, d>> BY RestOfThree, Zenon
        <5> QED BY <5>1, <5>2
      <4> QED BY <3>3, <4>1, Zenon
    <3> QED BY <2>1, <3>1, <3>2, <3>3
  <2>3. /\ tx = d => /\ tx.call = "deposit" /\ tx.coin = o.coin /\ tx.amount = o.amount
        /\ tx = a => /\ tx.call = "approve" /\ tx.coin = o.coin /\ tx.amount = o.amount
        /\ tx = e => /\ tx.call = "approve" /\ tx.coin = o.coin /\ tx.amount = 0
    <3> HIDE DEF tx, o
    <3>1. ASSUME tx = d PROVE tx.call = "deposit" /\ tx.coin = o.coin /\ tx.amount = o.amount
      BY <3>1 DEF Tx
    <3>2. ASSUME tx = a PROVE tx.call = "approve" /\ tx.coin = o.coin /\ tx.amount = o.amount
      BY <3>2
    <3>3. ASSUME tx = e PROVE tx.call = "approve" /\ tx.coin = o.coin /\ tx.amount = 0
      BY <3>3
    <3> HIDE DEF d, a, e
    <3> QED BY <3>1, <3>2, <3>3
  <2>4. next # "end" /\ q = p
    BY <1>5, <1>7
  <2>5. OpOK(p)
    <3>1. more # <<>> => p.txs \in DepositTxs(p)
      <4> HIDE DEF o, tx, more, next, p
      <4> QED BY <1>6, <2>2 DEF DepositTxs, Tx
    <3>2. InFlight(p) => more # <<>>
      <4> HIDE DEF o, tx, more, next, p
      <4> QED BY <1>5, <1>6 DEF InFlight
    <3> HIDE DEF o, tx, more, next, p
    <3> QED BY <1>2, <1>5, <1>6, <1>7, <2>1, <3>1, <3>2 DEF OpOK
  <2>6. ASSUME OpsOK', AskedOK',
               \A t \in Slots \ {s}, c \in Coins : DepositOnItsWay(t, c) =>
                    DepositOnItsWay(t, c)' /\ ops'[t].amount = ops[t].amount
        PROVE  PageInv'
    <3>1. ops'[s] = p
      BY <2>4
    <3> HIDE DEF o, tx, more, next, p, q, d, a, e
    <3>2. CASE tx = d /\ more = <<>>
      <4>1. allowance' = [allowance EXCEPT ![o.coin] = @ - o.amount] /\ allowance[o.coin] >= o.amount
        BY <2>3, <3>2 DEF Effect, Lands
      <4>2. allowance' \in [Coins -> Nat]
        BY <1>2, <2>1, <4>1
      <4>3. ASSUME NEW c \in Coins, allowance'[c] > 0, c \notin spoiled
            PROVE  \E t \in Slots : DepositOnItsWay(t, c)' /\ ops'[t].amount >= allowance'[c]
        <5>1. allowance'[c] <= allowance[c] /\ (c = o.coin => allowance[c] - o.amount = allowance'[c])
          BY <1>2, <2>1, <4>1
        <5>2. allowance[c] \in Nat /\ allowance'[c] \in Nat
          BY <1>2, <4>2
        <5>3. PICK t \in Slots : DepositOnItsWay(t, c) /\ ops[t].amount >= allowance[c]
          BY <1>2, <4>3, <5>1, <5>2 DEF Covered
        <5>4. CASE t # s
          <6>1. ops[t].amount \in Nat
            BY <1>2, <5>3 DEF OpsOK, HandlersOK, OpOK, DepositOnItsWay, NoOp
          <6>2. DepositOnItsWay(t, c)' /\ ops'[t].amount = ops[t].amount
            BY <2>6, <5>3, <5>4
          <6> QED BY <5>1, <5>2, <5>3, <6>1, <6>2
        <5>5. CASE t = s
          <6>1. c = o.coin /\ o.amount >= allowance[c]
            BY <5>3, <5>5 DEF DepositOnItsWay, o
          <6> QED BY <2>1, <4>3, <5>1, <5>2, <6>1
        <5> QED BY <5>4, <5>5
      <4>4. Covered'
        BY <4>3 DEF Covered
      <4> QED BY <1>1, <1>2, <2>6, <4>2, <4>4 DEF PageInv
    <3>3. CASE (tx = a \/ tx = e) /\ more # <<>>
      <4>1. /\ allowance' = [allowance EXCEPT ![o.coin] = tx.amount]
            /\ tx.amount \in {0, o.amount}
        BY <2>3, <3>3 DEF Effect
      <4>2. allowance' \in [Coins -> Nat]
        BY <1>2, <2>1, <4>1
      <4>3. ops'[s].amount = o.amount /\ \A c \in Coins : c = o.coin => DepositOnItsWay(s, c)'
        BY <1>5, <1>6, <1>7, <3>1, <3>3 DEF DepositOnItsWay
      <4>4. ASSUME NEW c \in Coins, allowance'[c] > 0, c \notin spoiled
            PROVE  \E t \in Slots : DepositOnItsWay(t, c)' /\ ops'[t].amount >= allowance'[c]
        <5>1. CASE c = o.coin
          <6>1. allowance'[c] \in {0, o.amount}
            BY <1>2, <2>1, <4>1, <5>1
          <6>2. ops'[s].amount >= allowance'[c]
            BY <2>1, <4>3, <4>4, <6>1
          <6> QED BY <4>3, <5>1, <6>2
        <5>2. CASE c # o.coin
          <6>1. allowance'[c] = allowance[c]
            BY <1>2, <4>1, <5>2
          <6>2. PICK t \in Slots : DepositOnItsWay(t, c) /\ ops[t].amount >= allowance[c]
            BY <1>2, <4>4, <6>1 DEF Covered
          <6>3. t # s
            BY <5>2, <6>2 DEF DepositOnItsWay, o
          <6> QED BY <2>6, <6>1, <6>2, <6>3
        <5> QED BY <5>1, <5>2
      <4>5. Covered'
        BY <4>4 DEF Covered
      <4> QED BY <1>1, <1>2, <2>6, <4>2, <4>5 DEF PageInv
    <3>4. (tx = d /\ more = <<>>) \/ ((tx = a \/ tx = e) /\ more # <<>>)
      BY <2>2
    <3> QED BY <3>2, <3>3, <3>4
  <2> QED BY <1>0, <2>4, <2>5, <2>6
<1>8. CASE o.kind # "deposit"
  <2>1. o.txs \in Seq(OtherTx) \ {<<>>}
    BY <1>1, <1>2, <1>8 DEF OpOK
  <2>2. tx \in OtherTx /\ more \in Seq(OtherTx)
    <3> DEFINE x == o.txs
    <3> HIDE DEF x
    <3>1. x \in Seq(OtherTx) /\ x # <<>> BY <2>1 DEF x
    <3>2. Head(x) \in OtherTx /\ Tail(x) \in Seq(OtherTx)
      BY <3>1, HeadTailProperties, Zenon
    <3> QED BY <3>2 DEF x
  <2>3. tx.call \notin {"approve", "deposit"}
    <3> HIDE DEF tx
    <3> QED BY <2>2 DEF OtherTx, Kinds
  <2>4. allowance' = allowance
    <3> HIDE DEF o, tx
    <3> QED BY <2>3 DEF Effect
  <2>5. OpOK(p)
    <3> HIDE DEF o, tx, more, next, p
    <3> QED BY <1>2, <1>5, <1>6, <1>8, <2>2 DEF OpOK, InFlight
  <2>6. q = NoOp \/ q = p OBVIOUS
  <2> HIDE DEF tx, more, next, p, q
  <2>7. Covered'
    <3>1. \A c \in Coins : ~DepositOnItsWay(s, c)
      BY <1>8 DEF DepositOnItsWay
    <3> HIDE DEF o
    <3>2. ASSUME NEW c \in Coins, NEW t \in Slots, DepositOnItsWay(t, c)
          PROVE  DepositOnItsWay(t, c)' /\ ops'[t].amount = ops[t].amount
      BY <1>0, <2>5, <2>6, <3>1, <3>2
    <3> QED BY <1>2, <2>4, <3>2, CoveredKept
  <2> QED BY <1>0, <1>1, <1>2, <2>4, <2>5, <2>6, <2>7 DEF PageInv
<1> QED BY <1>7, <1>8

\* The inductive invariant is kept by every step.
LEMMA PageInvStep == PageInv /\ [PageNext]_pageVars => PageInv'
<1> SUFFICES ASSUME PageInv, [PageNext]_pageVars PROVE PageInv'
  OBVIOUS
<1>1. CASE UNCHANGED pageVars
  <2>1. active' \in Vaults /\ UNCHANGED <<asked, ops, allowance, spoiled, bound>>
    BY <1>1 DEF pageVars, chainVars, boundVars, PageInv
  <2> QED BY <2>1, Elsewhere
<1>2. CASE PageWorks
  <2>1. ASSUME NEW s \in Slots, ReadAllowance(s) PROVE PageInv'
    BY <2>1, ReadAllowanceStep
  <2>2. ASSUME NEW s \in Slots, Reload(s) PROVE PageInv'
    BY <2>2, ReloadStep
  <2>3. ASSUME NEW s \in Slots, AskLimits(s) PROVE PageInv'
    BY <2>3, AskLimitsStep
  <2>4. ASSUME NEW s \in Slots, NEW failed \in BOOLEAN, Network(s, failed) PROVE PageInv'
    BY <2>4, NetworkStep
  <2>5. ASSUME NEW s \in Slots, NEW failed \in BOOLEAN, Check(s, failed) PROVE PageInv'
    BY <2>5, CheckStep
  <2>6. ASSUME NEW s \in Slots, NEW failed \in BOOLEAN, Mined(s, failed) PROVE PageInv'
    BY <2>6, MinedStep
  <2>7. ASSUME NEW s \in Slots, NEW failed \in BOOLEAN, Reloaded(s, failed) PROVE PageInv'
    BY <2>7, ReloadStep
  <2>8. ASSUME NEW i \in DOMAIN asked, NEW failed \in BOOLEAN, AnswerLimits(i, failed) PROVE PageInv'
    BY <2>8, AnswerLimitsStep
  <2>9. ASSUME \/ Render \/ AskAddress
               \/ \E r \in local, failed \in BOOLEAN : AnswerSection(r, failed)
               \/ \E r \in refreshes, failed \in BOOLEAN : Look(r, failed)
        PROVE  PageInv'
    BY <2>9, QuietStep
  <2>10. ASSUME \/ \E r \in refreshes : SweepMined(r) \/ AskBalances(r)
                \/ \E i \in DOMAIN asked, failed \in BOOLEAN : AnswerBalances(i, failed)
         PROVE  PageInv'
    BY <2>10, BalancesStep
  <2> QED BY <1>2, <2>1, <2>2, <2>3, <2>4, <2>5, <2>6, <2>7, <2>8, <2>9, <2>10 DEF PageWorks
<1>3. CASE Others
  <2>1. ASSUME \/ PressRefresh \/ \E v \in Vaults, c \in Coins : Keeper(v, c)
               \/ \E r \in refreshes, yes \in BOOLEAN : SweepPrompt(r, yes)
        PROVE  PageInv'
    BY <2>1, QuietStep
  <2>2. ASSUME NEW s \in Slots, NEW yes \in BOOLEAN, Prompt(s, yes) PROVE PageInv'
    BY <2>2, PromptStep
  <2>3. ASSUME NEW s \in Slots,
               \/ \E v \in Vaults : SelectVault(s, v)
               \/ \E c \in Coins, a \in bound.amounts : PressDeposit(s, c, a)
               \/ \E c \in Coins, k \in {"withdraw", "penalty", "bypass", "execute"} :
                     PressWithdrawal(s, k, c)
               \/ \E c \in Coins, k \in {"mode", "modes"}, on \in {0, 1} : PressEarning(s, k, c, on)
        PROVE  PageInv'
    BY <2>3, PressStep
  <2> QED BY <1>3, <2>1, <2>2, <2>3 DEF Others
<1> QED BY <1>1, <1>2, <1>3 DEF PageNext

\* Whatever is approved and not spoiled, one deposit on its way takes all of,
\* and every question about limits is waited for by the handler that asked it.
THEOREM PageInvariant == PageSpec => []PageInv
  BY PageInvInit, PageInvStep, PTL DEF PageSpec

\* Of an approval nothing is left unless a deposit of that coin broke off:
\* for any number of handlers, amounts that differ, and any order in which
\* deposits of a coin read, raise, reset and spend the allowance they share.
THEOREM ApprovedProof == PageSpec => []NothingLeftApproved
<1>1. PageInv => NothingLeftApproved
  BY DEF PageInv, Covered, NothingLeftApproved
<1> QED BY <1>1, PageInvariant, PTL

-----------------------------------------------------------------------------
(* What becomes of a handler.                                              *)

\* The handler p is o gone on, to the place pc, the vault v and what is then
\* left to send; it may have been told something besides.
Passes(p, o, pc, v, txs) ==
    /\ OpShape(p) /\ p.pc = pc /\ p.of = v /\ p.txs = txs
    /\ p.kind = o.kind /\ p.on = o.on /\ p.coin = o.coin /\ p.amount = o.amount
    /\ p.excused \in {o.excused, TRUE} /\ p.crossed \in {o.crossed, TRUE}
    /\ p.alive \in {o.alive, FALSE}

Stays(p, o) == Passes(p, o, o.pc, o.of, o.txs)

\* One that a button started.
Starts(p) ==
    /\ OpShape(p) /\ p.on = page.screen /\ p.excused = (page.screen # active)
    /\ \/ p.pc = "who" /\ p.kind = "select"
       \/ p.pc = "network" /\ p.kind = "deposit" /\ active' = active
       \/ /\ p.pc = "check" /\ p.kind \notin {"select", "deposit"} /\ active' = active
          /\ p.of = active

\* Its transaction has landed; if it is a switch, that coin is switched.
Landed(o) ==
    Head(o.txs).call = "mode" =>
        earning' = [earning EXCEPT ![o.of] = IF o.amount > 0 THEN @ \cup {Head(o.txs).coin}
                                             ELSE @ \ {Head(o.txs).coin}]

\* One that goes on by itself; nobody selects anything meanwhile.
GoesOn(p, o) ==
    \/ o.pc = "network" /\ Passes(p, o, "check", active, o.txs)
    \/ o.pc = "check" /\ o.kind = "deposit" /\ Passes(p, o, "allowance", o.of, <<>>)
    \/ /\ o.pc = "check" /\ o.kind # "deposit" /\ Resolves(o)
       /\ Passes(p, o, "prompt", o.of, Transactions(o))
    \/ o.pc = "allowance" /\ \E txs : Passes(p, o, "prompt", o.of, txs)
    \/ o.pc = "prompt" /\ Passes(p, o, "mine", o.of, o.txs)
    \/ /\ o.pc = "mine" /\ Tail(o.txs) # <<>> /\ Landed(o)
       /\ Passes(p, o, "prompt", o.of, Tail(o.txs))
    \/ /\ o.pc = "mine" /\ Tail(o.txs) = <<>> /\ Landed(o) /\ AfterTransactions(o) # "end"
       /\ Passes(p, o, AfterTransactions(o), o.of, Tail(o.txs))
    \/ o.pc = "saved" /\ Passes(p, o, "reload", active, o.txs)
    \/ o.pc = "reload" /\ Passes(p, o, "who", o.of, o.txs)
    \/ o.pc = "who" /\ Passes(p, o, "limits", o.of, o.txs)
    \/ o.pc = "who2" /\ Passes(p, o, "limits2", o.of, o.txs)
    \/ o.pc = "limits" /\ Passes(p, o, "who2", o.of, o.txs)

Fate(p, o) ==
    \/ p = NoOp /\ o.pc \notin {"saved", "who", "who2"}
    \/ o = NoOp /\ Starts(p)
    \/ /\ o # NoOp /\ Stays(p, o)
       /\ active' # active /\ o.pc = "network" /\ o.kind = "deposit" => p.excused = TRUE
    \/ o # NoOp /\ GoesOn(p, o) /\ active' = active

Fates == \A t \in Slots : Fate(ops'[t], ops[t])

\* Each field of a handler on its own.
LEMMA FieldOnly ==
  ASSUME NEW o, OpShape(o), NEW x
  PROVE  LET Rest(p) == /\ OpShape(p) /\ p.pc = o.pc /\ p.of = o.of /\ p.txs = o.txs
                        /\ p.kind = o.kind /\ p.on = o.on /\ p.coin = o.coin
                        /\ p.amount = o.amount
             a == [o EXCEPT !.alive = x]
             c == [o EXCEPT !.crossed = x]
             e == [o EXCEPT !.excused = x]
         IN /\ Rest(a) /\ a.alive = x /\ a.crossed = o.crossed /\ a.excused = o.excused
            /\ Rest(c) /\ c.crossed = x /\ c.alive = o.alive /\ c.excused = o.excused
            /\ Rest(e) /\ e.excused = x /\ e.alive = o.alive /\ e.crossed = o.crossed
  BY DEF OpShape

LEMMA PassesField ==
  ASSUME NEW o, OpShape(o), NEW x
  PROVE  /\ Passes(o, o, o.pc, o.of, o.txs)
         /\ Passes([o EXCEPT !.pc = x], o, x, o.of, o.txs)
         /\ Passes([o EXCEPT !.of = x], o, o.pc, x, o.txs)
         /\ Passes([o EXCEPT !.txs = x], o, o.pc, o.of, x)
         /\ Stays([o EXCEPT !.alive = FALSE], o) /\ [o EXCEPT !.alive = FALSE].alive = FALSE
         /\ Stays([o EXCEPT !.crossed = TRUE], o) /\ [o EXCEPT !.crossed = TRUE].crossed = TRUE
         /\ Stays([o EXCEPT !.excused = TRUE], o) /\ [o EXCEPT !.excused = TRUE].excused = TRUE
<1>1. Passes(o, o, o.pc, o.of, o.txs) BY DEF Passes
<1>2. Passes([o EXCEPT !.pc = x], o, x, o.of, o.txs) BY DEF Passes, OpShape
<1>3. Passes([o EXCEPT !.of = x], o, o.pc, x, o.txs) BY DEF Passes, OpShape
<1>4. Passes([o EXCEPT !.txs = x], o, o.pc, o.of, x) BY DEF Passes, OpShape
<1>5. ASSUME NEW y
      PROVE  /\ y = FALSE => /\ Stays([o EXCEPT !.alive = y], o) /\ [o EXCEPT !.alive = y].alive = y
             /\ y = TRUE => /\ Stays([o EXCEPT !.crossed = y], o) /\ [o EXCEPT !.crossed = y].crossed = y
                            /\ Stays([o EXCEPT !.excused = y], o) /\ [o EXCEPT !.excused = y].excused = y
  <2> DEFINE Rest(p) == /\ OpShape(p) /\ p.pc = o.pc /\ p.of = o.of /\ p.txs = o.txs
                        /\ p.kind = o.kind /\ p.on = o.on /\ p.coin = o.coin
                        /\ p.amount = o.amount
             a == [o EXCEPT !.alive = y]
             c == [o EXCEPT !.crossed = y]
             e == [o EXCEPT !.excused = y]
  <2>1. /\ Rest(a) /\ a.alive = y /\ a.crossed = o.crossed /\ a.excused = o.excused
        /\ Rest(c) /\ c.crossed = y /\ c.alive = o.alive /\ c.excused = o.excused
        /\ Rest(e) /\ e.excused = y /\ e.alive = o.alive /\ e.crossed = o.crossed
    BY FieldOnly
  <2> HIDE DEF a, c, e
  <2> SUFFICES /\ y = FALSE => Stays(a, o)
               /\ y = TRUE => Stays(c, o) /\ Stays(e, o)
    BY <2>1 DEF a, c, e
  <2> QED BY <2>1, Zenon DEF Stays, Passes
<1>6. Stays([o EXCEPT !.alive = FALSE], o) /\ [o EXCEPT !.alive = FALSE].alive = FALSE
  BY <1>5, Zenon
<1>7. /\ Stays([o EXCEPT !.crossed = TRUE], o) /\ [o EXCEPT !.crossed = TRUE].crossed = TRUE
      /\ Stays([o EXCEPT !.excused = TRUE], o) /\ [o EXCEPT !.excused = TRUE].excused = TRUE
  BY <1>5, Zenon
<1> QED BY <1>1, <1>2, <1>3, <1>4, <1>6, <1>7, Zenon

\* Two changes in a row.
LEMMA PassesOn ==
  ASSUME NEW o, NEW q, NEW p, NEW pc, NEW v, NEW txs, NEW pc2, NEW v2, NEW txs2,
         Passes(q, o, pc, v, txs), Passes(p, q, pc2, v2, txs2)
  PROVE  Passes(p, o, pc2, v2, txs2)
  BY DEF Passes

LEMMA StaysItself == ASSUME OpsOK, NEW t \in Slots, active' = active PROVE Fate(ops[t], ops[t])
<1>1. CASE ops[t] = NoOp BY <1>1 DEF Fate, NoOp
<1>2. CASE ops[t] # NoOp
  <2>1. OpShape(ops[t]) BY <1>2 DEF OpsOK, HandlersOK, OpOK
  <2>2. Stays(ops[t], ops[t]) BY <2>1, PassesField DEF Stays
  <2> QED BY <1>2, <2>2 DEF Fate
<1> QED BY <1>1, <1>2

LEMMA NobodyMoves == ASSUME OpsOK, UNCHANGED <<ops, active>> PROVE Fates
  BY StaysItself DEF Fates

\* Most steps move one handler.
LEMMA OneFate ==
  ASSUME OpsOK, NEW s \in Slots, NEW q, Fate(q, ops[s]), ops' = [ops EXCEPT ![s] = q],
         active' = active
  PROVE  Fates
<1>1. ops'[s] = q /\ \A t \in Slots \ {s} : ops'[t] = ops[t]
  BY DEF OpsOK, HandlersOK
<1> QED BY <1>1, StaysItself DEF Fates

\* The handlers of a section that is gone are told so.
LEMMA UnmountedStays ==
  ASSUME NEW os, HandlersOK(os), NEW t \in Slots
  PROVE  \/ Unmounted(os)[t] = NoOp /\ os[t] = NoOp
         \/ os[t] # NoOp /\ Stays(Unmounted(os)[t], os[t]) /\ Unmounted(os)[t].alive = FALSE
<1>1. CASE os[t] = NoOp
  BY <1>1 DEF Unmounted
<1>2. CASE os[t] # NoOp
  <2>1. Unmounted(os)[t] = [os[t] EXCEPT !.alive = FALSE] /\ OpShape(os[t])
    BY <1>2 DEF Unmounted, HandlersOK, OpOK
  <2> QED BY <1>2, <2>1, PassesField, Zenon
<1> QED BY <1>1, <1>2

LEMMA QuietFates ==
  ASSUME PageInv,
         \/ Render \/ AskAddress \/ PressRefresh
         \/ \E r \in local, failed \in BOOLEAN : AnswerSection(r, failed)
         \/ \E r \in refreshes, failed \in BOOLEAN : Look(r, failed)
         \/ \E r \in refreshes, yes \in BOOLEAN : SweepPrompt(r, yes)
         \/ \E v \in Vaults, c \in Coins : Keeper(v, c)
         \/ \E r \in refreshes : SweepMined(r) \/ AskBalances(r)
         \/ \E i \in DOMAIN asked, failed \in BOOLEAN : AnswerBalances(i, failed)
  PROVE  Fates
<1>0. OpsOK BY DEF PageInv
<1>1. CASE Render
  <2>1. ops' = Unmounted(ops) /\ active' = active BY <1>1 DEF Render
  <2>2. ASSUME NEW t \in Slots PROVE Fate(ops'[t], ops[t])
    <3>1. \/ ops'[t] = NoOp /\ ops[t] = NoOp
          \/ ops[t] # NoOp /\ Stays(ops'[t], ops[t])
      BY <1>0, <2>1, UnmountedStays DEF OpsOK
    <3> QED BY <2>1, <3>1 DEF Fate, NoOp
  <2> QED BY <2>2 DEF Fates
<1>2. CASE ~Render
  <2>1. UNCHANGED <<ops, active>>
    BY <1>2 DEF AskAddress, PressRefresh, AnswerSection, Look, SweepPrompt, Keeper, SweepMined,
       AskBalances, AnswerBalances
  <2> QED BY <1>0, <2>1, NobodyMoves
<1> QED BY <1>1, <1>2

\* A button.
LEMMA PressFates ==
  ASSUME PageInv, NEW s \in Slots,
         \/ \E v \in Vaults : SelectVault(s, v)
         \/ \E c \in Coins, a \in bound.amounts : PressDeposit(s, c, a)
         \/ \E c \in Coins, k \in {"withdraw", "penalty", "bypass", "execute"} : PressWithdrawal(s, k, c)
         \/ \E c \in Coins, k \in {"mode", "modes"}, on \in {0, 1} : PressEarning(s, k, c, on)
  PROVE  Fates
<1>0. OpsOK BY DEF PageInv
<1>1. ASSUME NEW kind, NEW pc, NEW v, NEW coin, NEW amount
      PROVE  LET q == Op(kind, pc, v, coin, amount)
             IN  /\ OpShape(q) /\ q.kind = kind /\ q.pc = pc /\ q.of = v
                 /\ q.on = page.screen /\ q.excused = (page.screen # active)
  BY DEF Op, OpShape
<1>2. ASSUME NEW v \in Vaults, SelectVault(s, v) PROVE Fates
  <2>1. /\ ops[s] = NoOp
        /\ ops' = [i \in Slots |->
                     IF i = s THEN Op("select", "who", v, Nothing, 0)
                     ELSE IF ops[i] # NoOp /\ ops[i].kind = "deposit" /\ ops[i].pc = "network"
                     THEN [ops[i] EXCEPT !.excused = TRUE] ELSE ops[i]]
    BY <1>2 DEF SelectVault, Free
  <2> DEFINE q == Op("select", "who", v, Nothing, 0)
  <2>2. OpShape(q) /\ q.kind = "select" /\ q.pc = "who" /\ q.on = page.screen
        /\ q.excused = (page.screen # active)
    BY <1>1
  <2>3. ops'[s] = q BY <2>1
  <2> HIDE DEF q
  <2>4. Fate(ops'[s], ops[s])
    BY <2>1, <2>2, <2>3 DEF Fate, Starts
  <2>5. ASSUME NEW t \in Slots, t # s PROVE Fate(ops'[t], ops[t])
    <3>1. CASE ops[t] = NoOp
      BY <2>1, <2>5, <3>1 DEF Fate, NoOp
    <3>2. CASE ops[t] # NoOp /\ ops[t].kind = "deposit" /\ ops[t].pc = "network"
      <4>1. ops'[t] = [ops[t] EXCEPT !.excused = TRUE] /\ OpShape(ops[t])
        BY <1>0, <2>1, <2>5, <3>2 DEF OpsOK, HandlersOK, OpOK
      <4>2. Stays(ops'[t], ops[t]) /\ ops'[t].excused = TRUE
        BY <4>1, PassesField, Zenon
      <4> QED BY <3>2, <4>2 DEF Fate
    <3>3. CASE ops[t] # NoOp /\ ~(ops[t].kind = "deposit" /\ ops[t].pc = "network")
      <4>1. ops'[t] = ops[t] /\ OpShape(ops[t])
        BY <1>0, <2>1, <2>5, <3>3 DEF OpsOK, HandlersOK, OpOK
      <4>2. Stays(ops'[t], ops[t])
        BY <4>1, PassesField DEF Stays
      <4> QED BY <3>3, <4>2 DEF Fate
    <3> QED BY <3>1, <3>2, <3>3
  <2> QED BY <2>4, <2>5 DEF Fates
<1>3. ASSUME NEW kind, NEW pc, NEW v, NEW coin, NEW amount,
             ops' = [ops EXCEPT ![s] = Op(kind, pc, v, coin, amount)],
             ops[s] = NoOp, active' = active,
             \/ pc = "network" /\ kind = "deposit"
             \/ pc = "check" /\ kind \notin {"select", "deposit"} /\ v = active
      PROVE  Fates
  <2> DEFINE q == Op(kind, pc, v, coin, amount)
  <2>1. OpShape(q) /\ q.kind = kind /\ q.pc = pc /\ q.of = v /\ q.on = page.screen
        /\ q.excused = (page.screen # active)
    BY <1>1
  <2>2. ops' = [ops EXCEPT ![s] = q] BY <1>3
  <2> HIDE DEF q
  <2>3. Fate(q, ops[s])
    BY <1>3, <2>1 DEF Fate, Starts
  <2> QED BY <1>0, <1>3, <2>2, <2>3, OneFate
<1>4. ASSUME NEW c \in Coins, NEW a \in bound.amounts, PressDeposit(s, c, a) PROVE Fates
  BY <1>3, <1>4 DEF PressDeposit, Free
<1>5. ASSUME NEW c \in Coins, NEW k \in {"withdraw", "penalty", "bypass", "execute"},
             PressWithdrawal(s, k, c)
      PROVE  Fates
  <2>1. ops' = [ops EXCEPT ![s] = Op(k, "check", active, c, 0)] /\ ops[s] = NoOp /\ active' = active
    BY <1>5 DEF PressWithdrawal, Free, RequireActiveVault
  <2> QED BY <1>3, <2>1
<1>6. ASSUME NEW c \in Coins, NEW k \in {"mode", "modes"}, NEW on \in {0, 1}, PressEarning(s, k, c, on)
      PROVE  Fates
  <2>1. ops' = [ops EXCEPT ![s] = Op(k, "check", active, c, on)] /\ ops[s] = NoOp /\ active' = active
    BY <1>6 DEF PressEarning, Free, RequireActiveVault
  <2> QED BY <1>3, <2>1
<1> QED BY <1>2, <1>4, <1>5, <1>6
\* A handler goes on or ends, before its transactions and after them.
LEMMA WalkFates ==
  ASSUME PageInv, NEW s \in Slots,
         \/ \E failed \in BOOLEAN : Network(s, failed) \/ Check(s, failed) \/ Reloaded(s, failed)
         \/ ReadAllowance(s) \/ \E yes \in BOOLEAN : Prompt(s, yes)
         \/ Reload(s) \/ AskLimits(s)
  PROVE  Fates
<1> DEFINE o == ops[s]
<1>0. OpsOK BY DEF PageInv
<1>1. active' = active
  BY DEF Network, Check, Reloaded, ReadAllowance, Prompt, Reload, AskLimits
<1>2. ASSUME NEW q, ops' = [ops EXCEPT ![s] = q], Fate(q, o) PROVE Fates
  BY <1>0, <1>1, <1>2, OneFate
<1>3. ASSUME ops' = [ops EXCEPT ![s] = NoOp], o.pc \notin {"saved", "who", "who2"} PROVE Fates
  BY <1>2, <1>3 DEF Fate
<1>4. ASSUME o.pc # "none" PROVE OpOK(o) /\ OpShape(o) /\ o # NoOp
  BY <1>0, <1>4 DEF OpsOK, HandlersOK, OpOK, NoOp
<1>5. ASSUME NEW pc, NEW v, NEW txs, NEW q, OpShape(o),
             \/ q = [o EXCEPT !.pc = pc] /\ v = o.of /\ txs = o.txs
             \/ q = [[o EXCEPT !.of = v] EXCEPT !.pc = pc] /\ txs = o.txs
             \/ q = [[o EXCEPT !.pc = pc] EXCEPT !.of = v] /\ txs = o.txs
             \/ q = [[o EXCEPT !.pc = pc] EXCEPT !.txs = txs] /\ v = o.of
      PROVE  Passes(q, o, pc, v, txs)
  <2> HIDE DEF o
  <2> DEFINE a == [o EXCEPT !.pc = pc]
             b == [o EXCEPT !.of = v]
  <2>1. Passes(a, o, pc, o.of, o.txs) /\ Passes(b, o, o.pc, v, o.txs)
    BY <1>5, PassesField
  <2>2. OpShape(a) /\ OpShape(b) /\ a.pc = pc /\ a.of = o.of /\ a.txs = o.txs
        /\ b.pc = o.pc /\ b.of = v /\ b.txs = o.txs
    BY <2>1 DEF Passes
  <2> HIDE DEF a, b
  <2>3. /\ Passes([b EXCEPT !.pc = pc], b, pc, v, o.txs)
        /\ Passes([a EXCEPT !.of = v], a, pc, v, o.txs)
        /\ Passes([a EXCEPT !.txs = txs], a, pc, o.of, txs)
    BY <2>2, PassesField
  <2>4. /\ Passes([b EXCEPT !.pc = pc], o, pc, v, o.txs)
        /\ Passes([a EXCEPT !.of = v], o, pc, v, o.txs)
        /\ Passes([a EXCEPT !.txs = txs], o, pc, o.of, txs)
    BY <2>1, <2>3, PassesOn
  <2> QED BY <1>5, <2>1, <2>4, Zenon DEF a, b
<1>6. ASSUME NEW failed \in BOOLEAN, Network(s, failed) PROVE Fates
  <2>1. o.pc = "network" BY <1>6 DEF Network, At
  <2> DEFINE q == [[o EXCEPT !.of = active] EXCEPT !.pc = "check"]
  <2>2. ops' = [ops EXCEPT ![s] = q] \/ ops' = [ops EXCEPT ![s] = NoOp]
    BY <1>6 DEF Network, GivesUp, RequireActiveVault
  <2>3. Passes(q, o, "check", active, o.txs)
    BY <1>4, <1>5, <2>1
  <2> HIDE DEF q, o
  <2>4. Fate(q, o)
    BY <1>1, <1>4, <2>1, <2>3 DEF Fate, GoesOn
  <2> QED BY <1>2, <1>3, <2>1, <2>2, <2>4
<1>7. ASSUME NEW failed \in BOOLEAN, Check(s, failed) PROVE Fates
  <2>1. o.pc = "check" BY <1>7 DEF Check, At
  <2> DEFINE pc == IF o.kind = "deposit" THEN "allowance" ELSE "prompt"
             txs == IF o.kind = "deposit" THEN <<>> ELSE Transactions(o)
             q == [[o EXCEPT !.pc = pc] EXCEPT !.txs = txs]
  <2>2. (Resolves(o) /\ ops' = [ops EXCEPT ![s] = q]) \/ ops' = [ops EXCEPT ![s] = NoOp]
    BY <1>7 DEF Check, GivesUp
  <2>3. Passes(q, o, pc, o.of, txs)
    BY <1>4, <1>5, <2>1
  <2> HIDE DEF q, o
  <2>4. ASSUME Resolves(o) PROVE Fate(q, o)
    BY <1>1, <1>4, <2>1, <2>3, <2>4 DEF Fate, GoesOn
  <2> QED BY <1>2, <1>3, <2>1, <2>2, <2>4
<1>8. CASE ReadAllowance(s)
  <2>1. o.pc = "allowance" BY <1>8 DEF ReadAllowance, At
  <2>2. \E txs : ops' = [ops EXCEPT ![s] = [[o EXCEPT !.pc = "prompt"] EXCEPT !.txs = txs]]
    BY <1>8 DEF ReadAllowance
  <2>3. PICK txs : ops' = [ops EXCEPT ![s] = [[o EXCEPT !.pc = "prompt"] EXCEPT !.txs = txs]]
    BY <2>2
  <2> DEFINE q == [[o EXCEPT !.pc = "prompt"] EXCEPT !.txs = txs]
  <2>4. Passes(q, o, "prompt", o.of, txs)
    BY <1>4, <1>5, <2>1
  <2>5. ops' = [ops EXCEPT ![s] = q] BY <2>3
  <2> HIDE DEF q, o
  <2>6. Fate(q, o)
    BY <1>1, <1>4, <2>1, <2>4 DEF Fate, GoesOn
  <2> QED BY <1>2, <2>5, <2>6
<1>9. ASSUME NEW yes \in BOOLEAN, Prompt(s, yes) PROVE Fates
  <2>1. o.pc = "prompt" BY <1>9 DEF Prompt, At
  <2> DEFINE q == [o EXCEPT !.pc = "mine"]
  <2>2. ops' = [ops EXCEPT ![s] = q] \/ ops' = [ops EXCEPT ![s] = NoOp]
    BY <1>9 DEF Prompt, GivesUp
  <2>3. Passes(q, o, "mine", o.of, o.txs)
    BY <1>4, <1>5, <2>1
  <2> HIDE DEF q, o
  <2>4. Fate(q, o)
    BY <1>1, <1>4, <2>1, <2>3 DEF Fate, GoesOn
  <2> QED BY <1>2, <1>3, <2>1, <2>2, <2>4
<1>10. CASE Reload(s)
  <2>1. o.pc = "saved" BY <1>10 DEF Reload, At
  <2> DEFINE q == [[o EXCEPT !.pc = "reload"] EXCEPT !.of = active]
  <2>2. ops' = [ops EXCEPT ![s] = q]
    BY <1>10 DEF Reload
  <2>3. Passes(q, o, "reload", active, o.txs)
    BY <1>4, <1>5, <2>1
  <2> HIDE DEF q, o
  <2>4. Fate(q, o)
    BY <1>1, <1>4, <2>1, <2>3 DEF Fate, GoesOn
  <2> QED BY <1>2, <2>2, <2>4
<1>11. ASSUME NEW failed \in BOOLEAN, Reloaded(s, failed) PROVE Fates
  <2>1. o.pc = "reload" BY <1>11 DEF Reloaded, At
  <2> DEFINE q == [o EXCEPT !.pc = "who"]
  <2>2. ops' = [ops EXCEPT ![s] = q] \/ ops' = [ops EXCEPT ![s] = NoOp]
    BY <1>11 DEF Reloaded
  <2>3. Passes(q, o, "who", o.of, o.txs)
    BY <1>4, <1>5, <2>1
  <2> HIDE DEF q, o
  <2>4. Fate(q, o)
    BY <1>1, <1>4, <2>1, <2>3 DEF Fate, GoesOn
  <2> QED BY <1>2, <1>3, <2>1, <2>2, <2>4
<1>12. CASE AskLimits(s)
  <2>1. o.pc \in {"who", "who2"} BY <1>12 DEF AskLimits, At
  <2> DEFINE pc == IF o.pc = "who" THEN "limits" ELSE "limits2"
             q == [o EXCEPT !.pc = pc]
  <2>2. ops' = [ops EXCEPT ![s] = q]
    BY <1>12 DEF AskLimits
  <2>3. Passes(q, o, pc, o.of, o.txs)
    BY <1>4, <1>5, <2>1
  <2> HIDE DEF q, o
  <2>4. Fate(q, o)
    BY <1>1, <1>4, <2>1, <2>3 DEF Fate, GoesOn
  <2> QED BY <1>2, <2>2, <2>4
<1> QED BY <1>6, <1>7, <1>8, <1>9, <1>10, <1>11, <1>12

\* A transaction is mined or refused, and crosses the switches of its vault.
LEMMA MinedFates ==
  ASSUME PageInv, NEW s \in Slots, NEW refused \in BOOLEAN, Mined(s, refused)
  PROVE  Fates
<1> DEFINE o == ops[s]
           tx == Head(o.txs)
           more == Tail(o.txs)
           next == IF more # <<>> THEN "prompt" ELSE AfterTransactions(o)
           p == [[o EXCEPT !.txs = more] EXCEPT !.pc = next]
           q == IF next = "end" THEN NoOp ELSE p
<1>1. o.pc = "mine" /\ active' = active BY DEF Mined, At
<1>2. OpsOK /\ OpOK(o) /\ OpShape(o) /\ o # NoOp
  BY <1>1 DEF PageInv, OpsOK, HandlersOK, OpOK, NoOp
<1>3. \/ ops' = [ops EXCEPT ![s] = NoOp]
      \/ Landed(o) /\ ops' = [i \in Slots |->
                      IF i = s THEN q
                      ELSE IF tx.call = "mode" /\ ops[i] # NoOp /\ ops[i].of = o.of
                      THEN [ops[i] EXCEPT !.crossed = TRUE] ELSE ops[i]]
  BY DEF Mined, GivesUp, Effect, Landed
<1>4. Fate(NoOp, o)
  BY <1>1 DEF Fate
<1>5. Passes(p, o, next, o.of, more)
  <2> HIDE DEF o, more, next
  <2> DEFINE a == [o EXCEPT !.txs = more]
  <2>1. Passes(a, o, o.pc, o.of, more) BY <1>2, PassesField
  <2>2. OpShape(a) /\ a.of = o.of /\ a.txs = more BY <2>1 DEF Passes
  <2> HIDE DEF a
  <2>3. Passes([a EXCEPT !.pc = next], a, next, o.of, more) BY <2>2, PassesField
  <2>4. Passes([a EXCEPT !.pc = next], o, next, o.of, more) BY <2>1, <2>3, PassesOn
  <2> QED BY <2>4 DEF a
<1>6. ASSUME Landed(o) PROVE Fate(q, o)
  <2>1. CASE next = "end" BY <1>4, <2>1
  <2>2. CASE next # "end"
    <3>1. GoesOn(p, o)
      <4> HIDE DEF p, o
      <4>1. CASE more # <<>> BY <1>1, <1>5, <1>6, <4>1 DEF GoesOn
      <4>2. CASE more = <<>> BY <1>1, <1>5, <1>6, <2>2, <4>2 DEF GoesOn
      <4> QED BY <4>1, <4>2
    <3>2. q = p BY <2>2
    <3> HIDE DEF p, o, q
    <3> QED BY <1>1, <1>2, <3>1, <3>2 DEF Fate
  <2> QED BY <2>1, <2>2
<1>7. CASE ops' = [ops EXCEPT ![s] = NoOp]
  BY <1>1, <1>2, <1>4, <1>7, OneFate
<1>8. CASE Landed(o) /\ ops' = [i \in Slots |->
                      IF i = s THEN q
                      ELSE IF tx.call = "mode" /\ ops[i] # NoOp /\ ops[i].of = o.of
                      THEN [ops[i] EXCEPT !.crossed = TRUE] ELSE ops[i]]
  <2> HIDE DEF q, tx
  <2>1. Fate(ops'[s], ops[s]) BY <1>6, <1>8
  <2>2. ASSUME NEW t \in Slots, t # s PROVE Fate(ops'[t], ops[t])
    <3>1. CASE ops'[t] = ops[t]
      BY <1>1, <1>2, <3>1, StaysItself
    <3>2. CASE ops[t] # NoOp /\ ops'[t] = [ops[t] EXCEPT !.crossed = TRUE]
      <4>1. OpShape(ops[t]) BY <1>2, <3>2 DEF OpsOK, HandlersOK, OpOK
      <4>2. Stays(ops'[t], ops[t]) BY <3>2, <4>1, PassesField, Zenon
      <4> QED BY <1>1, <3>2, <4>2 DEF Fate
    <3> QED BY <1>8, <2>2, <3>1, <3>2
  <2> QED BY <2>1, <2>2 DEF Fates
<1> QED BY <1>3, <1>7, <1>8
\* The limits are answered, and the page may hide its sections or bring them back.
LEMMA AnswerLimitsFates ==
  ASSUME PageInv, NEW i \in DOMAIN asked, NEW failed \in BOOLEAN, AnswerLimits(i, failed)
  PROVE  Fates
<1> DEFINE s == asked[i].op
           o == ops[s]
           q == IF Again(o) THEN [o EXCEPT !.pc = "who2"] ELSE NoOp
           now == [ops EXCEPT ![s] = q]
<1>1. active' = active /\ (ops' = now \/ ops' = Unmounted(now)) /\ asked[i].what = "limits"
  BY DEF AnswerLimits
<1>2. OpsOK /\ AskedOK /\ i \in 1 .. Len(asked)
  BY DEF PageInv, AskedOK
<1>3. s \in Slots /\ Waits(o)
  BY <1>1, <1>2 DEF AskedOK
<1>4. OpOK(o) /\ OpShape(o) /\ o # NoOp
  BY <1>2, <1>3 DEF OpsOK, HandlersOK, OpOK, NoOp, Waits
<1>5. q = NoOp \/ (q # NoOp /\ o.pc = "limits" /\ OpOK(q) /\ Passes(q, o, "who2", o.of, o.txs))
  <2> HIDE DEF o
  <2>1. CASE Again(o)
    <3>1. q = [o EXCEPT !.pc = "who2"] /\ o.pc = "limits" BY <2>1 DEF Again
    <3> HIDE DEF q
    <3>2. Passes(q, o, "who2", o.of, o.txs) BY <1>4, <3>1, PassesField
    <3>3. OpOK(q) BY <1>4, <3>1, Resting
    <3> QED BY <3>1, <3>2, <3>3 DEF Passes, NoOp
  <2>2. CASE ~Again(o)
    BY <2>2
  <2> QED BY <2>1, <2>2
<1> HIDE DEF q
<1>6. now[s] = q /\ (\A t \in Slots \ {s} : now[t] = ops[t]) /\ HandlersOK(now)
  <2>1. now[s] = q /\ \A t \in Slots \ {s} : now[t] = ops[t]
    BY <1>2, <1>3 DEF OpsOK, HandlersOK
  <2>2. DOMAIN now = Slots /\ now = [t \in Slots |-> now[t]]
    BY <1>2, <1>3 DEF OpsOK, HandlersOK
  <2>3. ASSUME NEW t \in Slots PROVE now[t] = NoOp \/ OpOK(now[t])
    <3> HIDE DEF now
    <3> QED BY <1>2, <1>5, <2>1 DEF OpsOK, HandlersOK
  <2> HIDE DEF now
  <2> QED BY <2>1, <2>2, <2>3 DEF HandlersOK
<1> HIDE DEF now
<1>7. ASSUME NEW t \in Slots
      PROVE  ops'[t] = now[t] \/ (now[t] # NoOp /\ Stays(ops'[t], now[t]))
  BY <1>1, <1>6, UnmountedStays
<1>8. ASSUME NEW t \in Slots, t # s PROVE Fate(ops'[t], ops[t])
  <2>1. ops'[t] = ops[t] \/ (ops[t] # NoOp /\ Stays(ops'[t], ops[t]))
    BY <1>6, <1>7, <1>8
  <2> QED BY <1>1, <1>2, <2>1, StaysItself DEF Fate
<1>9. Fate(ops'[s], o)
  <2> HIDE DEF o
  <2>1. CASE ops'[s] = q /\ q = NoOp
    BY <1>3, <2>1 DEF Fate, Waits
  <2>2. CASE ops'[s] = q /\ q # NoOp
    BY <1>1, <1>4, <1>5, <2>2 DEF Fate, GoesOn
  <2>3. CASE q # NoOp /\ Stays(ops'[s], q)
    <3>1. q.pc = "who2" /\ q.of = o.of /\ q.txs = o.txs /\ Passes(q, o, "who2", o.of, o.txs)
      BY <1>5, <2>3 DEF Passes
    <3>2. Passes(ops'[s], q, "who2", o.of, o.txs)
      BY <2>3, <3>1 DEF Stays
    <3>3. Passes(ops'[s], o, "who2", o.of, o.txs)
      BY <3>1, <3>2, PassesOn
    <3> QED BY <1>1, <1>4, <1>5, <2>3, <3>3 DEF Fate, GoesOn
  <2> QED BY <1>3, <1>6, <1>7, <2>1, <2>2, <2>3
<1> QED BY <1>8, <1>9 DEF Fates

\* Whatever happens, each handler ends, starts, is told something or goes on.
LEMMA FatesStep == PageInv /\ [PageNext]_pageVars => Fates
<1> SUFFICES ASSUME PageInv, [PageNext]_pageVars PROVE Fates
  OBVIOUS
<1>1. CASE UNCHANGED pageVars
  BY <1>1, NobodyMoves DEF pageVars, PageInv
<1>2. CASE PageWorks
  <2>1. ASSUME NEW s \in Slots, ReadAllowance(s) \/ Reload(s) \/ AskLimits(s) PROVE Fates
    BY <2>1, WalkFates
  <2>2. ASSUME NEW s \in Slots, NEW failed \in BOOLEAN,
               Network(s, failed) \/ Check(s, failed) \/ Reloaded(s, failed)
        PROVE  Fates
    BY <2>2, WalkFates
  <2>3. ASSUME NEW s \in Slots, NEW failed \in BOOLEAN, Mined(s, failed) PROVE Fates
    BY <2>3, MinedFates
  <2>4. ASSUME NEW i \in DOMAIN asked, NEW failed \in BOOLEAN, AnswerLimits(i, failed) PROVE Fates
    BY <2>4, AnswerLimitsFates
  <2>5. ASSUME \/ Render \/ AskAddress
               \/ \E r \in local, failed \in BOOLEAN : AnswerSection(r, failed)
               \/ \E r \in refreshes, failed \in BOOLEAN : Look(r, failed)
               \/ \E r \in refreshes : SweepMined(r) \/ AskBalances(r)
               \/ \E i \in DOMAIN asked, failed \in BOOLEAN : AnswerBalances(i, failed)
        PROVE  Fates
    BY <2>5, QuietFates
  <2> QED BY <1>2, <2>1, <2>2, <2>3, <2>4, <2>5 DEF PageWorks
<1>3. CASE Others
  <2>1. ASSUME \/ PressRefresh \/ \E v \in Vaults, c \in Coins : Keeper(v, c)
               \/ \E r \in refreshes, yes \in BOOLEAN : SweepPrompt(r, yes)
        PROVE  Fates
    BY <2>1, QuietFates
  <2>2. ASSUME NEW s \in Slots, NEW yes \in BOOLEAN, Prompt(s, yes) PROVE Fates
    BY <2>2, WalkFates
  <2>3. ASSUME NEW s \in Slots,
               \/ \E v \in Vaults : SelectVault(s, v)
               \/ \E c \in Coins, a \in bound.amounts : PressDeposit(s, c, a)
               \/ \E c \in Coins, k \in {"withdraw", "penalty", "bypass", "execute"} :
                     PressWithdrawal(s, k, c)
               \/ \E c \in Coins, k \in {"mode", "modes"}, on \in {0, 1} : PressEarning(s, k, c, on)
        PROVE  Fates
    BY <2>3, PressFates
  <2> QED BY <1>3, <2>1, <2>2, <2>3 DEF Others
<1> QED BY <1>1, <1>2, <1>3 DEF PageNext

-----------------------------------------------------------------------------
(* Acting on what was pressed.                                             *)

\* A handler that has its vault has the one on screen when the button was
\* pressed, or an excuse; one that has yet to ask would be given that one.
OpActs(o) ==
    /\ o.pc \in {"check", "allowance", "prompt", "mine"} => o.of = o.on \/ o.excused = TRUE
    /\ o.pc = "network" => o.kind = "deposit" /\ (o.on = active \/ o.excused = TRUE)

HandlersAct == \A s \in Slots : OpActs(ops[s])

LEMMA ActsStep == PageInv /\ HandlersAct /\ [PageNext]_pageVars => HandlersAct'
<1> SUFFICES ASSUME PageInv, HandlersAct, [PageNext]_pageVars, NEW s \in Slots
             PROVE  OpActs(ops[s])'
  BY DEF HandlersAct
<1> DEFINE o == ops[s]
           p == ops'[s]
<1>1. OpActs(o) /\ Fate(p, o)
  BY FatesStep DEF Fates, HandlersAct
<1> HIDE DEF o, p
<1>2. CASE p = NoOp
  BY <1>2 DEF OpActs, NoOp, p
<1>3. CASE Starts(p)
  <2>1. p.excused = TRUE \/ page.screen = active
    BY <1>3 DEF Starts
  <2> QED BY <1>3, <2>1 DEF OpActs, Starts, p
<1>4. CASE Stays(p, o) /\ (active' # active /\ o.pc = "network" /\ o.kind = "deposit" => p.excused = TRUE)
  <2>1. p.pc = o.pc /\ p.of = o.of /\ p.on = o.on /\ p.kind = o.kind
        /\ (o.excused = TRUE => p.excused = TRUE)
    BY <1>4 DEF Stays, Passes
  <2> QED BY <1>1, <1>4, <2>1 DEF OpActs, p
<1>5. CASE GoesOn(p, o) /\ active' = active
  <2>1. p.on = o.on /\ p.kind = o.kind /\ (o.excused = TRUE => p.excused = TRUE)
    BY <1>5 DEF GoesOn, Passes
  <2>2. \/ p.pc \notin {"check", "allowance", "prompt", "mine", "network"}
        \/ o.pc = "network" /\ p.pc = "check" /\ p.of = active
        \/ o.pc \in {"check", "allowance", "prompt", "mine"} /\ p.of = o.of /\ p.pc # "network"
    BY <1>5 DEF GoesOn, Passes, AfterTransactions
  <2> QED BY <1>1, <1>5, <2>1, <2>2 DEF OpActs, p
<1> QED BY <1>1, <1>2, <1>3, <1>4, <1>5 DEF Fate

\* What is signed for concerns the vault that was on screen when the button
\* was pressed, unless the page had not caught up: for any vaults and
\* handlers, and selections at any moment in between (requireActiveVault).
THEOREM ActsProof == PageSpec => []ActsOnWhatWasPressed
<1>1. PageInit => HandlersAct
  BY DEF PageInit, HandlersAct, OpActs, NoOp
<1>2. HandlersAct => ActsOnWhatWasPressed
  BY DEF HandlersAct, OpActs, ActsOnWhatWasPressed
<1> QED BY <1>1, <1>2, ActsStep, PageInvariant, PTL DEF PageSpec

-----------------------------------------------------------------------------
(* Sweeping every coin.                                                    *)

RefreshShape(r) ==
    r = [of |-> r.of, pc |-> r.pc, todo |-> r.todo, whole |-> r.whole, owed |-> r.owed]

\* What a refresh owes is still on the address and still to be looked at.
SweepOK(r) ==
    /\ RefreshShape(r)
    /\ r.of \in Vaults /\ r.todo \in Seq(Coins)
    /\ r.pc \in {"prompt", "mine"} => r.todo # <<>>
    /\ r.whole = TRUE => r.owed \subseteq Range(r.todo) \cap arrived[r.of]

\* The same once the coin c of v is gone.
SweptOK(r, v, c) ==
    /\ RefreshShape(r)
    /\ r.of \in Vaults /\ r.todo \in Seq(Coins)
    /\ r.pc \in {"prompt", "mine"} => r.todo # <<>>
    /\ r.whole = TRUE =>
          r.owed \ (IF r.of = v THEN {c} ELSE {}) \subseteq Range(r.todo) \cap arrived[r.of]

Sweeps ==
    /\ arrived \in [Vaults -> SUBSET Coins]
    /\ \A r \in refreshes : SweepOK(r)

\* A coin of a row is its first or one of the rest.
LEMMA FirstOrRest ==
  ASSUME NEW T, NEW row \in Seq(T), row # <<>>
  PROVE  /\ Head(row) \in T /\ Tail(row) \in Seq(T)
         /\ Range(row) = {Head(row)} \cup Range(Tail(row))
<1>1. /\ Len(row) \in Nat /\ Len(row) >= 1 /\ Head(row) = row[1] /\ DOMAIN row = 1 .. Len(row)
      /\ Head(row) \in T
  OBVIOUS
<1>2. Tail(row) \in Seq(T) /\ Len(Tail(row)) = Len(row) - 1 /\ DOMAIN Tail(row) = 1 .. Len(row) - 1
  OBVIOUS
<1>3. \A i \in 1 .. Len(row) - 1 : Tail(row)[i] = row[i + 1]
  OBVIOUS
<1>4. ASSUME NEW x \in Range(row) PROVE x \in {Head(row)} \cup Range(Tail(row))
  <2>1. PICK i \in 1 .. Len(row) : x = row[i]
    BY <1>1 DEF Range
  <2>2. CASE i = 1 BY <1>1, <2>1, <2>2
  <2>3. CASE i # 1
    <3>1. i - 1 \in 1 .. Len(row) - 1 /\ (i - 1) + 1 = i BY <1>1, <2>3
    <3>2. Tail(row)[i - 1] = x BY <1>3, <2>1, <3>1
    <3> QED BY <1>2, <3>1, <3>2 DEF Range
  <2> QED BY <2>2, <2>3
<1>5. ASSUME NEW x \in {Head(row)} \cup Range(Tail(row)) PROVE x \in Range(row)
  <2>1. CASE x = Head(row)
    <3>1. 1 \in 1 .. Len(row) BY <1>1
    <3> QED BY <1>1, <2>1, <3>1 DEF Range
  <2>2. CASE x \in Range(Tail(row))
    <3>1. PICK i \in 1 .. Len(row) - 1 : x = Tail(row)[i]
      BY <1>2, <2>2 DEF Range
    <3>2. i + 1 \in 1 .. Len(row) BY <1>1
    <3>3. x = row[i + 1] BY <1>3, <3>1
    <3> QED BY <1>1, <3>2, <3>3 DEF Range
  <2> QED BY <1>5, <2>1, <2>2
<1>6. Range(row) = {Head(row)} \cup Range(Tail(row))
  BY <1>4, <1>5
<1> QED BY <1>1, <1>2, <1>6

\* A refresh that begins now.
LEMMA BeginsWell ==
  ASSUME PageInv, arrived \in [Vaults -> SUBSET Coins]
  PROVE  SweepOK(Refresh(active))
<1> DEFINE r == Refresh(active)
<1>1. active \in Vaults /\ Takes[active] \in Seq(Coins) /\ arrived[active] \subseteq Coins
  BY PageAssumption DEF PageInv
<1>2. /\ r.of = active /\ r.pc = "look" /\ r.todo = Takes[active]
      /\ r.owed = arrived[active] \cap Range(Takes[active])
      /\ RefreshShape(r)
  BY DEF Refresh, RefreshShape
<1> HIDE DEF r
<1>3. SweepOK(r)
  BY <1>1, <1>2 DEF SweepOK
<1> QED BY <1>3 DEF r

\* A coin is dealt with.
LEMMA NextCoinFields ==
  ASSUME NEW r, RefreshShape(r)
  PROVE  LET n == NextCoin(r) IN
         /\ RefreshShape(n) /\ n.of = r.of /\ n.pc = "look" /\ n.todo = Tail(r.todo)
         /\ n.whole = r.whole /\ n.owed = r.owed
<1> DEFINE t == Tail(r.todo)
           x == [r EXCEPT !.todo = t]
           n == NextCoin(r)
<1> HIDE DEF t
<1>1. RefreshShape(x) /\ x.of = r.of /\ x.todo = t /\ x.whole = r.whole /\ x.owed = r.owed
  BY DEF RefreshShape
<1>2. n = [x EXCEPT !.pc = "look"]
  BY DEF NextCoin, t
<1> HIDE DEF x, n
<1>3. /\ RefreshShape(n) /\ n.of = r.of /\ n.pc = "look" /\ n.todo = t
      /\ n.whole = r.whole /\ n.owed = r.owed
  BY <1>1, <1>2 DEF RefreshShape
<1> QED BY <1>3 DEF n, t

\* It is dealt with a coin that is not owed, is aborted, or is at another place.
LEMMA SweepMoves ==
  ASSUME NEW r, SweepOK(r)
  PROVE  /\ SweepOK(Aborted(r))
         /\ r.todo # <<>> /\ (r.whole = TRUE => Head(r.todo) \notin r.owed) => SweepOK(NextCoin(r))
         /\ r.todo # <<>> => SweepOK([r EXCEPT !.pc = "prompt"]) /\ SweepOK([r EXCEPT !.pc = "mine"])
<1> DEFINE a == Aborted(r)
           n == NextCoin(r)
           p == [r EXCEPT !.pc = "prompt"]
           m == [r EXCEPT !.pc = "mine"]
<1>0. RefreshShape(r) BY DEF SweepOK
<1>1. RefreshShape(a) /\ a.of = r.of /\ a.pc = "look" /\ a.todo = <<>> /\ a.whole = FALSE
  <2> DEFINE x == [r EXCEPT !.todo = <<>>]
             y == [x EXCEPT !.pc = "look"]
  <2>1. RefreshShape(x) /\ x.of = r.of /\ x.todo = <<>>
    BY <1>0 DEF RefreshShape
  <2> HIDE DEF x
  <2>2. RefreshShape(y) /\ y.of = r.of /\ y.pc = "look" /\ y.todo = <<>>
    BY <2>1 DEF RefreshShape
  <2>3. a = [y EXCEPT !.whole = FALSE]
    BY DEF Aborted, x
  <2> HIDE DEF y, a
  <2>4. ASSUME NEW b, a = [y EXCEPT !.whole = b]
        PROVE  RefreshShape(a) /\ a.of = y.of /\ a.pc = y.pc /\ a.todo = y.todo /\ a.whole = b
    BY <2>2, <2>4 DEF RefreshShape
  <2> QED BY <2>2, <2>3, <2>4
<1>2. /\ RefreshShape(n) /\ n.of = r.of /\ n.pc = "look" /\ n.todo = Tail(r.todo)
      /\ n.whole = r.whole /\ n.owed = r.owed
  BY <1>0, NextCoinFields
<1>3. RefreshShape(p) /\ p.of = r.of /\ p.todo = r.todo /\ p.whole = r.whole /\ p.owed = r.owed
  BY <1>0 DEF RefreshShape
<1>4. RefreshShape(m) /\ m.of = r.of /\ m.todo = r.todo /\ m.whole = r.whole /\ m.owed = r.owed
  BY <1>0 DEF RefreshShape
<1>5. r.of \in Vaults /\ r.todo \in Seq(Coins)
      /\ (r.whole = TRUE => r.owed \subseteq Range(r.todo) \cap arrived[r.of])
  BY DEF SweepOK
<1> HIDE DEF a, n, p, m
<1>6. SweepOK(a)
  BY <1>1, <1>5 DEF SweepOK
<1>7. ASSUME r.todo # <<>>, r.whole = TRUE => Head(r.todo) \notin r.owed PROVE SweepOK(n)
  <2>1. Tail(r.todo) \in Seq(Coins) /\ Range(r.todo) = {Head(r.todo)} \cup Range(Tail(r.todo))
    BY <1>5, <1>7, FirstOrRest
  <2>2. n.whole = TRUE => n.owed \subseteq Range(n.todo) \cap arrived[n.of]
    BY <1>2, <1>5, <1>7, <2>1
  <2> QED BY <1>2, <1>5, <2>1, <2>2 DEF SweepOK
<1>8. ASSUME r.todo # <<>> PROVE SweepOK(p) /\ SweepOK(m)
  BY <1>3, <1>4, <1>5, <1>8 DEF SweepOK
<1> QED BY <1>6, <1>7, <1>8 DEF a, n, p, m

\* A coin leaves an address, and nobody is owed it any more.
LEMMA GoneSweeps ==
  ASSUME arrived \in [Vaults -> SUBSET Coins], NEW v \in Vaults, NEW c,
         arrived' = [arrived EXCEPT ![v] = @ \ {c}],
         NEW rs, refreshes' = Gone(rs, v, c),
         \A r \in rs : SweptOK(r, v, c)
  PROVE  Sweeps'
<1>1. arrived' \in [Vaults -> SUBSET Coins] /\ arrived'[v] = arrived[v] \ {c}
      /\ \A w \in Vaults : w # v => arrived'[w] = arrived[w]
  OBVIOUS
<1>2. ASSUME NEW q \in refreshes' PROVE SweepOK(q)'
  <2>1. PICK r \in rs : q = IF r.of = v THEN [r EXCEPT !.owed = @ \ {c}] ELSE r
    BY DEF Gone
  <2> DEFINE Fine(x) == /\ RefreshShape(x)
                        /\ x.of \in Vaults /\ x.todo \in Seq(Coins)
                        /\ x.pc \in {"prompt", "mine"} => x.todo # <<>>
  <2>2. Fine(r) /\ (r.whole = TRUE =>
                             r.owed \ (IF r.of = v THEN {c} ELSE {})
                                \subseteq Range(r.todo) \cap arrived[r.of])
    BY DEF SweptOK
  <2>3. CASE r.of = v
    <3> DEFINE x == r.owed \ {c}
    <3>1. q = [r EXCEPT !.owed = x] BY <2>1, <2>3
    <3>2. r.whole = TRUE => x \subseteq Range(r.todo) \cap arrived[v] /\ c \notin x
      BY <2>2, <2>3
    <3> HIDE DEF x
    <3>3. /\ RefreshShape(q)
          /\ q.of = r.of /\ q.pc = r.pc /\ q.todo = r.todo /\ q.whole = r.whole /\ q.owed = x
      BY <2>2, <3>1 DEF RefreshShape
    <3> HIDE DEF Fine
    <3>4. q.whole = TRUE => q.owed \subseteq Range(q.todo) \cap arrived'[q.of]
      BY <1>1, <2>3, <3>2, <3>3
    <3> QED BY <2>2, <3>3, <3>4 DEF SweepOK, Fine
  <2>4. CASE r.of # v
    <3>1. q = r BY <2>1, <2>4
    <3>2. r.whole = TRUE => r.owed \subseteq Range(r.todo) \cap arrived'[r.of]
      BY <1>1, <2>2, <2>4
    <3> QED BY <2>2, <3>1, <3>2 DEF SweepOK
  <2> QED BY <2>3, <2>4
<1> QED BY <1>1, <1>2 DEF Sweeps
\* Refreshes begin, or one of them moves.
LEMMA SweepsMove ==
  ASSUME PageInv, Sweeps, arrived' = arrived,
         \A q \in refreshes' : q \in refreshes \/ q = Refresh(active) \/ SweepOK(q)
  PROVE  Sweeps'
<1>1. \A q \in refreshes' : SweepOK(q)
  BY BeginsWell DEF Sweeps
<1> QED BY <1>1 DEF Sweeps, SweepOK

LEMMA SweepsStep == PageInv /\ Sweeps /\ [PageNext]_pageVars => Sweeps'
<1> SUFFICES ASSUME PageInv, Sweeps, [PageNext]_pageVars PROVE Sweeps'
  OBVIOUS
<1>0. arrived \in [Vaults -> SUBSET Coins] /\ \A r \in refreshes : SweepOK(r)
  BY DEF Sweeps
<1>1. CASE UNCHANGED <<refreshes, arrived>>
  BY <1>1, SweepsMove
<1>2. CASE arrived' = arrived /\ refreshes' = With(refreshes, active)
  BY <1>2, SweepsMove DEF With
<1>3. ASSUME NEW r \in refreshes, NEW failed \in BOOLEAN, Look(r, failed) PROVE Sweeps'
  <2>1. arrived' = arrived /\ r.todo # <<>> /\ SweepOK(r)
    BY <1>0, <1>3 DEF Look, Sweeping, chainVars
  <2>2. SweepOK(Aborted(r)) /\ SweepOK([r EXCEPT !.pc = "prompt"])
    BY <2>1, SweepMoves
  <2>3. ASSUME Head(r.todo) \notin arrived[r.of] PROVE SweepOK(NextCoin(r))
    <3>1. r.whole = TRUE => Head(r.todo) \notin r.owed
      BY <2>1, <2>3 DEF SweepOK
    <3> QED BY <2>1, <3>1, SweepMoves
  <2>4. \A q \in refreshes' : q \in refreshes \/ SweepOK(q)
    BY <1>3, <2>2, <2>3 DEF Look, Replaced
  <2> QED BY <2>1, <2>4, SweepsMove
<1>4. ASSUME NEW r \in refreshes, NEW yes \in BOOLEAN, SweepPrompt(r, yes) PROVE Sweeps'
  <2>1. arrived' = arrived /\ r.todo # <<>> /\ SweepOK(r)
    BY <1>0, <1>4 DEF SweepPrompt, SweepOK, chainVars
  <2>2. SweepOK(Aborted(r)) /\ SweepOK([r EXCEPT !.pc = "mine"])
    BY <2>1, SweepMoves
  <2>3. \A q \in refreshes' : q \in refreshes \/ SweepOK(q)
    BY <1>4, <2>2 DEF SweepPrompt, Replaced
  <2> QED BY <2>1, <2>3, SweepsMove
<1>5. ASSUME NEW r \in refreshes, SweepMined(r) PROVE Sweeps'
  <2>1. r.todo # <<>> /\ SweepOK(r)
    BY <1>0, <1>5 DEF SweepMined, SweepOK
  <2> DEFINE c == Head(r.todo)
             n == NextCoin(r)
             v == r.of
  <2>2. CASE c \notin arrived[r.of]
    <3>1. arrived' = arrived /\ refreshes' = Replaced(r, Aborted(r))
      BY <1>5, <2>2 DEF SweepMined
    <3>2. SweepOK(Aborted(r)) BY <2>1, SweepMoves
    <3>3. \A q \in refreshes' : q \in refreshes \/ SweepOK(q)
      BY <3>1, <3>2 DEF Replaced
    <3> QED BY <3>1, <3>3, SweepsMove
  <2>3. CASE c \in arrived[r.of]
    <3>1. arrived' = [arrived EXCEPT ![v] = @ \ {c}] /\ refreshes' = Gone(Replaced(r, n), v, c)
      BY <1>5, <2>3 DEF SweepMined
    <3>2. /\ RefreshShape(n) /\ n.of = r.of /\ n.pc = "look" /\ n.todo = Tail(r.todo)
          /\ n.whole = r.whole /\ n.owed = r.owed
      BY <2>1, NextCoinFields DEF SweepOK
    <3>3. Tail(r.todo) \in Seq(Coins) /\ Range(r.todo) = {c} \cup Range(Tail(r.todo)) /\ v \in Vaults
      BY <2>1, FirstOrRest DEF SweepOK
    <3> HIDE DEF n, c, v
    <3>4. ASSUME NEW q \in Replaced(r, n)
          PROVE  SweptOK(q, v, c)
      <4>1. CASE q = n
        <5>1. r.whole = TRUE => r.owed \subseteq Range(r.todo) \cap arrived[r.of]
          BY <2>1 DEF SweepOK
        <5>2. r.of = v BY DEF v
        <5> QED BY <3>2, <3>3, <4>1, <5>1, <5>2 DEF SweptOK
      <4>2. CASE q # n
        <5>1. SweepOK(q) BY <1>0, <3>4, <4>2 DEF Replaced
        <5> QED BY <5>1 DEF SweepOK, SweptOK
      <4> QED BY <4>1, <4>2
    <3> DEFINE rs == Replaced(r, n)
    <3>5. refreshes' = Gone(rs, v, c) BY <3>1
    <3>6. \A q \in rs : SweptOK(q, v, c)
      BY <3>4
    <3> HIDE DEF rs
    <3> QED BY <1>0, <3>1, <3>3, <3>5, <3>6, GoneSweeps
  <2> QED BY <2>2, <2>3
<1>6. ASSUME NEW v \in Vaults, NEW c \in Coins, Keeper(v, c) PROVE Sweeps'
  <2>1. arrived' = [arrived EXCEPT ![v] = @ \ {c}] /\ refreshes' = Gone(refreshes, v, c)
    BY <1>6 DEF Keeper
  <2>2. \A q \in refreshes : SweptOK(q, v, c)
    BY <1>0 DEF SweepOK, SweptOK
  <2> QED BY <1>0, <2>1, <2>2, GoneSweeps
<1>7. ASSUME NEW r \in refreshes, AskBalances(r) PROVE Sweeps'
  <2>1. arrived' = arrived /\ refreshes' = refreshes \ {r}
    BY <1>7 DEF AskBalances, chainVars
  <2> QED BY <2>1, SweepsMove
<1>8. CASE UNCHANGED pageVars
  BY <1>1, <1>8 DEF pageVars, chainVars
<1>9. CASE PageWorks
  <2>1. CASE Render
    BY <1>2, <2>1 DEF Render, chainVars
  <2>2. CASE AskAddress \/ \E r \in local, failed \in BOOLEAN : AnswerSection(r, failed)
    BY <1>1, <2>2 DEF AskAddress, AnswerSection, chainVars
  <2>3. ASSUME NEW i \in DOMAIN asked, NEW failed \in BOOLEAN,
               AnswerBalances(i, failed) \/ AnswerLimits(i, failed)
        PROVE  Sweeps'
    <3>1. arrived' = arrived /\ (refreshes' = refreshes \/ refreshes' = With(refreshes, active))
      BY <2>3 DEF AnswerBalances, AnswerLimits, chainVars
    <3> QED BY <1>1, <1>2, <3>1
  <2>4. ASSUME NEW s \in Slots, ReadAllowance(s) \/ Reload(s) \/ AskLimits(s) PROVE Sweeps'
    BY <1>1, <2>4 DEF ReadAllowance, Reload, AskLimits, chainVars
  <2>5. ASSUME NEW s \in Slots, NEW failed \in BOOLEAN,
               Network(s, failed) \/ Check(s, failed) \/ Mined(s, failed) \/ Reloaded(s, failed)
        PROVE  Sweeps'
    BY <1>1, <2>5 DEF Network, Check, Mined, Reloaded, chainVars
  <2> QED BY <1>3, <1>5, <1>7, <1>9, <2>1, <2>2, <2>3, <2>4, <2>5 DEF PageWorks
<1>10. CASE Others
  <2>1. CASE PressRefresh
    BY <1>2, <2>1 DEF PressRefresh, chainVars
  <2>2. ASSUME NEW s \in Slots,
               \/ \E yes \in BOOLEAN : Prompt(s, yes)
               \/ \E v \in Vaults : SelectVault(s, v)
               \/ \E c \in Coins, a \in bound.amounts : PressDeposit(s, c, a)
               \/ \E c \in Coins, k \in {"withdraw", "penalty", "bypass", "execute"} :
                     PressWithdrawal(s, k, c)
               \/ \E c \in Coins, k \in {"mode", "modes"}, on \in {0, 1} : PressEarning(s, k, c, on)
        PROVE  Sweeps'
    BY <1>1, <2>2 DEF Prompt, SelectVault, PressDeposit, PressWithdrawal, PressEarning, chainVars
  <2> QED BY <1>4, <1>6, <1>10, <2>1, <2>2 DEF Others
<1> QED BY <1>8, <1>9, <1>10 DEF PageNext

-----------------------------------------------------------------------------
(* Switching every coin.                                                   *)

SwitchKinds == {"mode", "modes"}

SetAsAsked(o, e, c) == (c \in e[o.of]) <=> (o.amount > 0)

\* What a handler that is no deposit has still to send: one switch per coin, or
\* the one transaction it is for.
SendsOwn(o) ==
    IF o.kind \in SwitchKinds
    THEN /\ o.of \in Vaults
         /\ \A i \in DOMAIN o.txs : o.txs[i].call = "mode" /\ o.txs[i].coin \in Range(Takes[o.of])
    ELSE Head(o.txs).call = o.kind /\ Tail(o.txs) = <<>>

\* Of a switch for the whole vault that nobody crossed, each coin is set as
\* asked or has a transaction still to come; e are the coins set to earn.
SwitchOK(o, e) ==
    /\ InFlight(o) /\ o.kind # "deposit" => SendsOwn(o)
    /\ o.kind = "modes" /\ (InFlight(o) \/ o.pc = "saved") => o.of \in Vaults
    /\ o.kind = "modes" /\ o.crossed # TRUE /\ (InFlight(o) \/ o.pc = "saved") =>
         \A c \in Range(Takes[o.of]) :
            SetAsAsked(o, e, c) \/ (InFlight(o) /\ \E i \in DOMAIN o.txs : o.txs[i].coin = c)

Switches ==
    /\ earning \in [Vaults -> SUBSET Coins]
    /\ \A v \in Vaults : earning[v] \subseteq Range(Takes[v])
    /\ \A s \in Slots : ops[s] = NoOp \/ SwitchOK(ops[s], earning)

\* Who switches a coin crosses all others at work on that vault.
Crosses(s) ==
    /\ ops[s] # NoOp /\ ops[s].pc = "mine" /\ ops'[s].pc # "mine" /\ Head(ops[s].txs).call = "mode"
    /\ earning' = [earning EXCEPT ![ops[s].of] =
                       IF ops[s].amount > 0 THEN @ \cup {Head(ops[s].txs).coin}
                       ELSE @ \ {Head(ops[s].txs).coin}]
    /\ \A t \in Slots \ {s} :
          ops[t] # NoOp /\ ops[t].of = ops[s].of => ops'[t] # NoOp /\ ops'[t].crossed = TRUE

LEMMA MinedCrosses ==
  ASSUME PageInv, NEW s \in Slots, NEW refused \in BOOLEAN, Mined(s, refused)
  PROVE  earning' = earning \/ Crosses(s)
<1> DEFINE o == ops[s]
           tx == Head(o.txs)
           more == Tail(o.txs)
           next == IF more # <<>> THEN "prompt" ELSE AfterTransactions(o)
           p == [[o EXCEPT !.txs = more] EXCEPT !.pc = next]
           q == IF next = "end" THEN NoOp ELSE p
<1>1. o.pc = "mine" BY DEF Mined, At
<1>2. OpsOK /\ OpShape(o) /\ o # NoOp
  BY <1>1 DEF PageInv, OpsOK, HandlersOK, OpOK, NoOp
<1>3. \/ earning' = earning
      \/ /\ tx.call = "mode"
         /\ earning' = [earning EXCEPT ![o.of] = IF o.amount > 0 THEN @ \cup {tx.coin} ELSE @ \ {tx.coin}]
         /\ ops' = [i \in Slots |->
                      IF i = s THEN q
                      ELSE IF tx.call = "mode" /\ ops[i] # NoOp /\ ops[i].of = o.of
                      THEN [ops[i] EXCEPT !.crossed = TRUE] ELSE ops[i]]
  BY DEF Mined, GivesUp, Effect
<1>4. SUFFICES ASSUME tx.call = "mode",
             earning' = [earning EXCEPT ![o.of] = IF o.amount > 0 THEN @ \cup {tx.coin} ELSE @ \ {tx.coin}],
             ops' = [i \in Slots |->
                      IF i = s THEN q
                      ELSE IF tx.call = "mode" /\ ops[i] # NoOp /\ ops[i].of = o.of
                      THEN [ops[i] EXCEPT !.crossed = TRUE] ELSE ops[i]]
             PROVE  Crosses(s)
  BY <1>3
<1>5. q.pc # "mine"
  <2>1. next # "mine" BY DEF AfterTransactions
  <2>2. CASE next = "end" BY <2>2 DEF NoOp
  <2>3. CASE next # "end"
    <3> DEFINE a == [o EXCEPT !.txs = more]
    <3> HIDE DEF o, more, next
    <3>1. OpShape(a) BY <1>2, PassesField DEF Passes
    <3> HIDE DEF a
    <3>2. Passes([a EXCEPT !.pc = next], a, next, a.of, a.txs) BY <3>1, PassesField
    <3>3. q = [a EXCEPT !.pc = next] BY <2>3 DEF a
    <3> QED BY <2>1, <3>2, <3>3 DEF Passes
  <2> QED BY <2>2, <2>3
<1>6. ops'[s] = q
  BY <1>4
<1>7. ASSUME NEW t \in Slots \ {s}, ops[t] # NoOp, ops[t].of = o.of
      PROVE  ops'[t] # NoOp /\ ops'[t].crossed = TRUE
  <2>1. ops'[t] = [ops[t] EXCEPT !.crossed = TRUE] /\ OpShape(ops[t])
    BY <1>2, <1>4, <1>7 DEF OpsOK, HandlersOK, OpOK
  <2>2. Stays(ops'[t], ops[t]) /\ ops'[t].crossed = TRUE
    BY <2>1, PassesField, Zenon
  <2>3. ops'[t].pc = ops[t].pc /\ OpShape(ops'[t])
    BY <2>2 DEF Stays, Passes
  <2> QED BY <2>2, <2>3 DEF OpShape, NoOp
<1> QED BY <1>1, <1>2, <1>4, <1>5, <1>6, <1>7 DEF Crosses

\* Nobody else touches what is switched.
LEMMA EarningStep ==
  ASSUME PageInv, [PageNext]_pageVars
  PROVE  earning' = earning \/ \E s \in Slots : Crosses(s)
<1>1. CASE UNCHANGED pageVars
  BY <1>1 DEF pageVars, chainVars
<1>2. CASE PageWorks
  <2>1. ASSUME NEW s \in Slots, NEW failed \in BOOLEAN, Mined(s, failed)
        PROVE  earning' = earning \/ \E t \in Slots : Crosses(t)
    BY <2>1, MinedCrosses
  <2>2. ASSUME \/ Render \/ AskAddress \/ \E r \in refreshes : SweepMined(r) \/ AskBalances(r)
               \/ \E r \in local, failed \in BOOLEAN : AnswerSection(r, failed)
               \/ \E r \in refreshes, failed \in BOOLEAN : Look(r, failed)
        PROVE  earning' = earning
    BY <2>2 DEF Render, AskAddress, SweepMined, AskBalances, AnswerSection, Look, chainVars
  <2>3. ASSUME NEW i \in DOMAIN asked, NEW failed \in BOOLEAN,
               AnswerBalances(i, failed) \/ AnswerLimits(i, failed)
        PROVE  earning' = earning
    BY <2>3 DEF AnswerBalances, AnswerLimits, chainVars
  <2>4. ASSUME NEW s \in Slots,
               \/ ReadAllowance(s) \/ Reload(s) \/ AskLimits(s)
               \/ \E failed \in BOOLEAN : Network(s, failed) \/ Check(s, failed) \/ Reloaded(s, failed)
        PROVE  earning' = earning
    BY <2>4 DEF ReadAllowance, Reload, AskLimits, Network, Check, Reloaded, chainVars
  <2> QED BY <1>2, <2>1, <2>2, <2>3, <2>4 DEF PageWorks
<1>3. CASE Others
  BY <1>3 DEF Others, PressRefresh, SweepPrompt, Prompt, SelectVault, PressDeposit, PressWithdrawal,
     PressEarning, Keeper, chainVars
<1> QED BY <1>1, <1>2, <1>3 DEF PageNext

\* What a handler is to send, when it begins to.
LEMMA TransactionsOwn ==
  ASSUME NEW o, OpOK(o), o.kind # "deposit", o.of \in Vaults, Resolves(o),
         NEW p, p.kind = o.kind, p.of = o.of, p.txs = Transactions(o)
  PROVE  /\ SendsOwn(p)
         /\ p.kind = "modes" =>
               \A c \in Range(Takes[p.of]) : \E i \in DOMAIN p.txs : p.txs[i].coin = c
<1>1. CASE o.kind \in SwitchKinds
  <2> DEFINE f == Targets(o)
             tx(i) == Tx("mode", o, f[i])
  <2>1. p.txs = [i \in DOMAIN f |-> tx(i)]
    BY <1>1 DEF Transactions, SwitchKinds
  <2>2. \A i \in DOMAIN f : f[i] \in Range(Takes[o.of])
    <3>1. CASE o.kind = "mode"
      <4>1. f = <<o.coin>> /\ o.coin \in Range(Takes[o.of])
        BY <3>1 DEF Targets, Resolves
      <4> HIDE DEF f
      <4> QED BY <4>1
    <3>2. CASE o.kind = "modes"
      <4>1. f = Takes[o.of] BY <3>2 DEF Targets
      <4> HIDE DEF f
      <4> QED BY <4>1 DEF Range
    <3> QED BY <1>1, <3>1, <3>2 DEF SwitchKinds
  <2>3. \A i : tx(i).call = "mode" /\ tx(i).coin = f[i]
    BY DEF Tx
  <2>4. o.kind = "modes" => f = Takes[o.of]
    BY DEF Targets
  <2> HIDE DEF f, tx
  <2>5. DOMAIN p.txs = DOMAIN f /\ \A i \in DOMAIN f : p.txs[i] = tx(i)
    BY <2>1
  <2>6. SendsOwn(p)
    BY <1>1, <2>2, <2>3, <2>5 DEF SendsOwn
  <2>7. ASSUME p.kind = "modes", NEW c \in Range(Takes[p.of])
        PROVE  \E i \in DOMAIN p.txs : p.txs[i].coin = c
    BY <2>3, <2>4, <2>5, <2>7 DEF Range
  <2> QED BY <2>6, <2>7
<1>2. CASE o.kind \notin SwitchKinds
  <2> DEFINE x == Tx(o.kind, o, o.coin)
  <2>1. p.txs = <<x>> /\ x.call = o.kind
    BY <1>2 DEF Transactions, SwitchKinds, Tx
  <2> HIDE DEF x
  <2>2. Head(p.txs) = x /\ Tail(p.txs) = <<>>
    BY <2>1, HeadsAndTails
  <2> QED BY <1>2, <2>1, <2>2 DEF SendsOwn, SwitchKinds
<1> QED BY <1>1, <1>2

\* A switch of a coin leaves the others as they are.
LEMMA OneSwitched ==
  ASSUME earning \in [Vaults -> SUBSET Coins], NEW v \in Vaults, NEW c, NEW a,
         earning' = [earning EXCEPT ![v] = IF a > 0 THEN @ \cup {c} ELSE @ \ {c}]
  PROVE  /\ earning'[v] = IF a > 0 THEN earning[v] \cup {c} ELSE earning[v] \ {c}
         /\ \A w \in Vaults \ {v} : earning'[w] = earning[w]
         /\ earning' = [w \in Vaults |-> earning'[w]]
  OBVIOUS

\* A row but for its first.
LEMMA RestOfRow ==
  ASSUME NEW T, NEW row \in Seq(T), row # <<>>
  PROVE  /\ 1 \in DOMAIN row /\ Head(row) = row[1]
         /\ \A i \in DOMAIN Tail(row) : i + 1 \in DOMAIN row /\ Tail(row)[i] = row[i + 1]
         /\ \A i \in DOMAIN row : i = 1 \/ (i - 1 \in DOMAIN Tail(row) /\ row[i] = Tail(row)[i - 1])
<1>1. /\ Len(row) \in Nat /\ Len(row) >= 1 /\ Head(row) = row[1] /\ DOMAIN row = 1 .. Len(row)
      /\ DOMAIN Tail(row) = 1 .. Len(row) - 1
  OBVIOUS
<1>2. \A i \in 1 .. Len(row) - 1 : Tail(row)[i] = row[i + 1]
  OBVIOUS
<1>3. \A i \in DOMAIN row : i = 1 \/ (i - 1 \in DOMAIN Tail(row) /\ row[i] = Tail(row)[i - 1])
  <2> SUFFICES ASSUME NEW i \in 1 .. Len(row), i # 1
               PROVE  i - 1 \in 1 .. Len(row) - 1 /\ row[i] = Tail(row)[i - 1]
    BY <1>1
  <2>1. i - 1 \in 1 .. Len(row) - 1 /\ (i - 1) + 1 = i BY <1>1
  <2> QED BY <1>2, <2>1
<1>4. \A i \in DOMAIN Tail(row) : i + 1 \in DOMAIN row /\ Tail(row)[i] = row[i + 1]
  BY <1>1, <1>2
<1> QED BY <1>1, <1>3, <1>4

\* A handler that stays, or is told something, is as good as before.
LEMMA SwitchStands ==
  ASSUME NEW o, NEW p, NEW e, NEW f, SwitchOK(o, e),
         p.of = o.of, p.txs = o.txs, p.kind = o.kind, p.amount = o.amount,
         p.crossed \in {o.crossed, TRUE},
         InFlight(p) <=> InFlight(o), p.pc = "saved" <=> o.pc = "saved",
         \/ p.crossed = TRUE
         \/ o.of \in Vaults => f[o.of] = e[o.of]
  PROVE  SwitchOK(p, f)
<1>1. InFlight(p) /\ p.kind # "deposit" => SendsOwn(p)
  BY DEF SwitchOK, SendsOwn
<1>2. p.kind = "modes" /\ (InFlight(p) \/ p.pc = "saved") => p.of \in Vaults
  BY DEF SwitchOK
<1>3. ASSUME p.kind = "modes", p.crossed # TRUE, InFlight(p) \/ p.pc = "saved",
             NEW c \in Range(Takes[p.of])
      PROVE  SetAsAsked(p, f, c) \/ (InFlight(p) /\ \E i \in DOMAIN p.txs : p.txs[i].coin = c)
  <2>1. SetAsAsked(o, e, c) \/ (InFlight(o) /\ \E i \in DOMAIN o.txs : o.txs[i].coin = c)
    BY <1>3 DEF SwitchOK
  <2>2. f[o.of] = e[o.of]
    BY <1>2, <1>3
  <2> QED BY <2>1, <2>2 DEF SetAsAsked
<1> QED BY <1>1, <1>2, <1>3 DEF SwitchOK

\* One that is about to send for every coin.
LEMMA SwitchBegins ==
  ASSUME NEW p, NEW f, p.of \in Vaults, InFlight(p), SendsOwn(p),
         p.kind = "modes" => \A c \in Range(Takes[p.of]) : \E i \in DOMAIN p.txs : p.txs[i].coin = c
  PROVE  SwitchOK(p, f)
  BY DEF SwitchOK

\* One whose first transaction has landed.
LEMMA SwitchLands ==
  ASSUME NEW o, NEW e, NEW p, NEW f, SwitchOK(o, e), InFlight(o), o.kind # "deposit",
         o.txs \in Seq(OtherTx), o.txs # <<>>,
         p.of = o.of, p.txs = Tail(o.txs), p.kind = o.kind, p.amount = o.amount,
         p.crossed \in {o.crossed, TRUE},
         InFlight(p) => Tail(o.txs) # <<>>,
         p.pc = "saved" => Tail(o.txs) = <<>>,
         o.kind \in SwitchKinds =>
            \A c \in Range(Takes[o.of]) :
               (c \in f[o.of]) <=> (IF c = Head(o.txs).coin THEN o.amount > 0 ELSE c \in e[o.of])
  PROVE  SwitchOK(p, f)
<1> DEFINE row == o.txs
           more == Tail(row)
<1>1. /\ 1 \in DOMAIN row /\ Head(row) = row[1]
      /\ \A i \in DOMAIN more : i + 1 \in DOMAIN row /\ more[i] = row[i + 1]
      /\ \A i \in DOMAIN row : i = 1 \/ (i - 1 \in DOMAIN more /\ row[i] = more[i - 1])
  BY RestOfRow
<1>2. more = <<>> => DOMAIN more = {} OBVIOUS
<1>3. SendsOwn(o) BY DEF SwitchOK
<1>4. row = o.txs /\ p.txs = more OBVIOUS
<1> HIDE DEF row, more
<1>5. InFlight(p) => SendsOwn(p)
  <2>1. CASE o.kind \in SwitchKinds
    BY <1>1, <1>3, <1>4, <2>1 DEF SendsOwn
  <2>2. CASE o.kind \notin SwitchKinds
    BY <1>3, <1>4, <2>2 DEF SendsOwn
  <2> QED BY <2>1, <2>2
<1>6. o.kind = "modes" => o.of \in Vaults BY <1>3 DEF SendsOwn, SwitchKinds
<1>7. ASSUME p.kind = "modes", p.crossed # TRUE, InFlight(p) \/ p.pc = "saved",
             NEW c \in Range(Takes[p.of])
      PROVE  SetAsAsked(p, f, c) \/ (InFlight(p) /\ \E i \in DOMAIN p.txs : p.txs[i].coin = c)
  <2>1. SetAsAsked(o, e, c) \/ \E i \in DOMAIN row : row[i].coin = c
    BY <1>4, <1>7 DEF SwitchOK
  <2>2. (c \in f[o.of]) <=> (IF c = Head(row).coin THEN o.amount > 0 ELSE c \in e[o.of])
    BY <1>4, <1>7 DEF SwitchKinds
  <2>3. CASE c = Head(row).coin
    BY <2>2, <2>3 DEF SetAsAsked
  <2>4. CASE c # Head(row).coin /\ SetAsAsked(o, e, c)
    BY <2>2, <2>4 DEF SetAsAsked
  <2>5. CASE c # Head(row).coin /\ \E i \in DOMAIN row : row[i].coin = c
    <3>1. \E i \in DOMAIN more : more[i].coin = c
      BY <1>1, <2>5
    <3>2. InFlight(p)
      BY <1>2, <1>4, <1>7, <3>1
    <3> QED BY <1>4, <3>1, <3>2
  <2> QED BY <2>1, <2>3, <2>4, <2>5
<1> QED BY <1>5, <1>6, <1>7 DEF SwitchOK

LEMMA SwitchesStep == PageInv /\ Switches /\ [PageNext]_pageVars => Switches'
<1> SUFFICES ASSUME PageInv, Switches, [PageNext]_pageVars PROVE Switches'
  OBVIOUS
<1>0. /\ OpsOK /\ earning \in [Vaults -> SUBSET Coins]
      /\ \A v \in Vaults : earning[v] \subseteq Range(Takes[v])
      /\ \A s \in Slots : ops[s] = NoOp \/ (SwitchOK(ops[s], earning) /\ OpOK(ops[s]))
  BY DEF PageInv, Switches, OpsOK, HandlersOK
<1>1. Fates /\ (earning' = earning \/ \E s \in Slots : Crosses(s))
  BY FatesStep, EarningStep
<1>2. \A v \in Vaults : Takes[v] \in Seq(Coins) /\ Range(Takes[v]) \subseteq Coins
  <2>1. \A v \in Vaults : Takes[v] \in Seq(Coins) BY PageAssumption
  <2> QED BY <2>1 DEF Range
\* What a switch in flight sends next.
<1>3. ASSUME NEW s \in Slots, ops[s] # NoOp, InFlight(ops[s]), Head(ops[s].txs).call = "mode"
      PROVE  LET o == ops[s] IN
             /\ o.kind \in SwitchKinds /\ o.of \in Vaults /\ o.txs \in Seq(OtherTx) /\ o.txs # <<>>
             /\ Head(o.txs).coin \in Range(Takes[o.of])
  <2> DEFINE o == ops[s]
  <2>1. SwitchOK(o, earning) /\ OpOK(o) /\ InFlight(o) BY <1>0, <1>3
  <2>2. Head(o.txs).call = "mode" BY <1>3
  <2> HIDE DEF o
  <2>3. o.kind # "deposit"
    <3> SUFFICES ASSUME o.kind = "deposit" PROVE FALSE OBVIOUS
    <3> DEFINE d == Tx("deposit", o, o.coin)
               a == [call |-> "approve", coin |-> o.coin, amount |-> o.amount]
               r == [call |-> "approve", coin |-> o.coin, amount |-> 0]
    <3>1. o.txs \in {<<d>>, <<a, d>>, <<r, a, d>>}
      BY <2>1 DEF OpOK, DepositTxs
    <3>2. d.call # "mode" /\ a.call # "mode" /\ r.call # "mode"
      BY DEF Tx
    <3> HIDE DEF d, a, r
    <3>3. Head(<<d>>) = d /\ Head(<<a, d>>) = a /\ Head(<<r, a, d>>) = r
      OBVIOUS
    <3> QED BY <2>2, <3>1, <3>2, <3>3
  <2>4. o.txs \in Seq(OtherTx) /\ o.txs # <<>>
    BY <2>1, <2>3 DEF OpOK
  <2>5. SendsOwn(o) BY <2>1, <2>3 DEF SwitchOK
  <2>6. o.kind \in SwitchKinds
    BY <2>2, <2>5 DEF SendsOwn, SwitchKinds
  <2>7. 1 \in DOMAIN o.txs /\ Head(o.txs) = o.txs[1]
    BY <2>4, RestOfRow
  <2>8. Head(o.txs).coin \in Range(Takes[o.of]) /\ o.of \in Vaults
    BY <2>5, <2>6, <2>7 DEF SendsOwn
  <2> QED BY <2>4, <2>6, <2>8 DEF o
<1>4. earning' \in [Vaults -> SUBSET Coins] /\ \A v \in Vaults : earning'[v] \subseteq Range(Takes[v])
  <2>1. CASE earning' = earning BY <1>0, <2>1
  <2>2. ASSUME NEW s \in Slots, Crosses(s)
        PROVE  earning' \in [Vaults -> SUBSET Coins] /\ \A v \in Vaults : earning'[v] \subseteq Range(Takes[v])
    <3> DEFINE v == ops[s].of
               c == Head(ops[s].txs).coin
               a == ops[s].amount
    <3>1. v \in Vaults /\ c \in Range(Takes[v])
      BY <1>3, <2>2 DEF Crosses, InFlight
    <3>2. earning' = [earning EXCEPT ![v] = IF a > 0 THEN @ \cup {c} ELSE @ \ {c}]
      BY <2>2 DEF Crosses
    <3> HIDE DEF v, c, a
    <3>3. /\ earning'[v] = IF a > 0 THEN earning[v] \cup {c} ELSE earning[v] \ {c}
          /\ \A w \in Vaults \ {v} : earning'[w] = earning[w]
          /\ earning' = [w \in Vaults |-> earning'[w]]
      BY <1>0, <3>1, <3>2, OneSwitched
    <3>4. \A w \in Vaults : earning'[w] \subseteq Range(Takes[w])
      BY <1>0, <3>1, <3>3
    <3> QED BY <1>2, <3>3, <3>4
  <2> QED BY <1>1, <2>1, <2>2
\* Whoever crosses a vault tells the others at work on it.
<1>5. ASSUME NEW t \in Slots, ops[t] # NoOp, ops'[t] # NoOp, ops'[t].pc = ops[t].pc
      PROVE  \/ ops'[t].crossed = TRUE
             \/ ops[t].of \in Vaults => earning'[ops[t].of] = earning[ops[t].of]
  <2>1. ASSUME NEW s \in Slots, Crosses(s), ops[t].of \in Vaults
        PROVE  ops'[t].crossed = TRUE \/ earning'[ops[t].of] = earning[ops[t].of]
    <3>1. CASE s = t
      BY <1>5, <2>1, <3>1 DEF Crosses
    <3>2. CASE s # t /\ ops[s].of = ops[t].of
      BY <1>5, <2>1, <3>2 DEF Crosses
    <3>3. CASE s # t /\ ops[s].of # ops[t].of
      BY <1>0, <2>1, <3>3 DEF Crosses
    <3> QED BY <3>1, <3>2, <3>3
  <2> QED BY <1>1, <2>1
\* A step that only one handler makes on its way leaves the others' coins alone.
<1>6. ASSUME NEW t \in Slots, ops[t] # NoOp, ops'[t] # NoOp, ops'[t].of = ops[t].of,
             ops[t].pc = "prompt"
      PROVE  \/ ops'[t].crossed = TRUE
             \/ ops[t].of \in Vaults => earning'[ops[t].of] = earning[ops[t].of]
  <2>1. ASSUME NEW s \in Slots, Crosses(s), ops[t].of \in Vaults
        PROVE  ops'[t].crossed = TRUE \/ earning'[ops[t].of] = earning[ops[t].of]
    <3>1. s # t
      BY <1>6, <2>1 DEF Crosses
    <3>2. CASE ops[s].of = ops[t].of
      BY <1>6, <2>1, <3>1, <3>2 DEF Crosses
    <3>3. CASE ops[s].of # ops[t].of
      BY <1>0, <2>1, <3>3 DEF Crosses
    <3> QED BY <3>2, <3>3
  <2> QED BY <1>1, <2>1
<1>7. ASSUME NEW t \in Slots, NEW p, p = ops'[t], p # NoOp
      PROVE  SwitchOK(p, earning')
  <2> DEFINE o == ops[t]
  <2>1. Fate(p, o) BY <1>1, <1>7 DEF Fates
  <2>2. o = NoOp \/ (SwitchOK(o, earning) /\ OpOK(o)) BY <1>0
  <2>3. /\ o # NoOp /\ o.pc = p.pc =>
             p.crossed = TRUE \/ (o.of \in Vaults => earning'[o.of] = earning[o.of])
        /\ o # NoOp /\ o.pc = "prompt" /\ p.of = o.of =>
             p.crossed = TRUE \/ (o.of \in Vaults => earning'[o.of] = earning[o.of])
    BY <1>5, <1>6, <1>7
  <2>4. o # NoOp /\ InFlight(o) /\ Head(o.txs).call = "mode" =>
             /\ o.kind \in SwitchKinds /\ o.of \in Vaults /\ o.txs \in Seq(OtherTx) /\ o.txs # <<>>
             /\ Head(o.txs).coin \in Range(Takes[o.of])
    BY <1>3
  <2> HIDE DEF o
  <2>5. CASE o = NoOp /\ Starts(p)
    <3>1. ~InFlight(p) /\ p.pc # "saved" BY <2>5 DEF Starts, InFlight
    <3> QED BY <3>1 DEF SwitchOK
  <2>6. CASE o # NoOp /\ Stays(p, o)
    <3>1. /\ p.pc = o.pc /\ p.of = o.of /\ p.txs = o.txs /\ p.kind = o.kind /\ p.amount = o.amount
          /\ p.crossed \in {o.crossed, TRUE}
      BY <2>6 DEF Stays, Passes
    <3>2. InFlight(p) <=> InFlight(o) BY <3>1 DEF InFlight
    <3> QED BY <2>2, <2>3, <2>6, <3>1, <3>2, SwitchStands
  <2>7. CASE o # NoOp /\ GoesOn(p, o)
    <3>1. CASE o.pc \in {"check", "allowance"} /\ p.pc = "prompt"
      <4>1. CASE o.kind = "deposit"
        BY <2>7, <4>1 DEF SwitchOK, GoesOn, Passes
      <4>2. CASE o.kind # "deposit"
        <5>1. Resolves(o) /\ Passes(p, o, "prompt", o.of, Transactions(o))
          BY <2>2, <2>7, <3>1, <4>2 DEF GoesOn, Passes, OpOK
        <5>2. o.of \in Vaults BY <2>2, <2>7, <3>1, <4>2 DEF OpOK
        <5>3. p.kind = o.kind /\ p.of = o.of /\ p.txs = Transactions(o) BY <5>1 DEF Passes
        <5>4. /\ SendsOwn(p)
              /\ p.kind = "modes" =>
                    \A c \in Range(Takes[p.of]) : \E i \in DOMAIN p.txs : p.txs[i].coin = c
          BY <2>2, <2>7, <4>2, <5>1, <5>2, <5>3, TransactionsOwn
        <5>5. InFlight(p) BY <3>1 DEF InFlight
        <5> QED BY <5>2, <5>3, <5>4, <5>5, SwitchBegins
      <4> QED BY <4>1, <4>2
    <3>2. CASE o.pc = "prompt"
      <4>1. Passes(p, o, "mine", o.of, o.txs) BY <2>7, <3>2 DEF GoesOn
      <4>2. /\ p.of = o.of /\ p.txs = o.txs /\ p.kind = o.kind /\ p.amount = o.amount
            /\ p.crossed \in {o.crossed, TRUE} /\ p.pc = "mine"
        BY <4>1 DEF Passes
      <4>3. InFlight(p) /\ InFlight(o) /\ p.pc # "saved" /\ o.pc # "saved"
        BY <3>2, <4>2 DEF InFlight
      <4> QED BY <2>2, <2>3, <2>7, <3>2, <4>2, <4>3, SwitchStands
    <3>3. CASE o.pc = "mine"
      <4>0. InFlight(o) BY <3>3 DEF InFlight
      <4>1. /\ p.of = o.of /\ p.txs = Tail(o.txs) /\ p.kind = o.kind /\ p.amount = o.amount
            /\ p.crossed \in {o.crossed, TRUE}
            /\ p.pc = "prompt" \/ Tail(o.txs) = <<>>
            /\ p.pc \in {"prompt", "saved", "who"}
            /\ p.pc = "saved" => Tail(o.txs) = <<>>
            /\ Landed(o)
        BY <2>7, <3>3 DEF GoesOn, Passes, AfterTransactions
      <4>2. CASE o.kind = "deposit"
        BY <2>2, <4>1, <4>2 DEF SwitchOK, GoesOn, Passes
      <4>3. CASE o.kind # "deposit"
        <5>1. o.txs \in Seq(OtherTx) /\ o.txs # <<>>
          BY <2>2, <2>7, <4>0, <4>3 DEF OpOK
        <5>2. InFlight(p) => Tail(o.txs) # <<>>
          BY <2>7, <3>3 DEF GoesOn, Passes, AfterTransactions, InFlight
        <5>3. o.kind \in SwitchKinds =>
                \A c \in Range(Takes[o.of]) :
                   (c \in earning'[o.of]) <=>
                      (IF c = Head(o.txs).coin THEN o.amount > 0 ELSE c \in earning[o.of])
          <6> SUFFICES ASSUME o.kind \in SwitchKinds PROVE
                \A c \in Range(Takes[o.of]) :
                   (c \in earning'[o.of]) <=>
                      (IF c = Head(o.txs).coin THEN o.amount > 0 ELSE c \in earning[o.of])
            OBVIOUS
          <6>1. SendsOwn(o) BY <2>2, <2>7, <4>0, <4>3 DEF SwitchOK
          <6>2. o.of \in Vaults /\ Head(o.txs).call = "mode"
            BY <5>1, <6>1, RestOfRow DEF SendsOwn
          <6> DEFINE v == o.of
                     x == Head(o.txs).coin
                     a == o.amount
          <6>3. earning' = [earning EXCEPT ![v] = IF a > 0 THEN @ \cup {x} ELSE @ \ {x}]
            BY <4>1, <6>2 DEF Landed
          <6>4. v \in Vaults BY <6>2
          <6> HIDE DEF v, x, a
          <6>5. earning'[v] = IF a > 0 THEN earning[v] \cup {x} ELSE earning[v] \ {x}
            BY <1>0, <6>3, <6>4, OneSwitched
          <6>6. \A c : (c \in earning'[v]) <=> (IF c = x THEN a > 0 ELSE c \in earning[v])
            BY <6>5
          <6> QED BY <6>6 DEF v, x, a
        <5>4. SwitchOK(o, earning) BY <2>2, <2>7
        <5> QED BY <4>0, <4>1, <4>3, <5>1, <5>2, <5>3, <5>4, SwitchLands
      <4> QED BY <4>2, <4>3
    <3>4. CASE ~InFlight(p) /\ p.pc # "saved"
      BY <3>4 DEF SwitchOK
    <3>5. p.pc \in {"prompt", "mine", "saved"} => o.pc \in {"check", "allowance", "prompt", "mine"}
      BY <2>7 DEF GoesOn, Passes, AfterTransactions
    <3>6. o.pc \in {"check", "allowance"} => p.pc \notin {"mine", "saved"}
      BY <2>7 DEF GoesOn, Passes, AfterTransactions
    <3> QED BY <3>1, <3>2, <3>3, <3>4, <3>5, <3>6 DEF InFlight
  <2> QED BY <1>7, <2>1, <2>5, <2>6, <2>7 DEF Fate
<1>8. \A t \in Slots : ops'[t] = NoOp \/ SwitchOK(ops'[t], earning')
  BY <1>7
<1> QED BY <1>4, <1>8 DEF Switches

-----------------------------------------------------------------------------
(* The theorem.                                                            *)

LEMMA SwitchesBegin == PageInit => Switches
  BY DEF PageInit, Switches

LEMMA SweepsBegin == PageInit => Sweeps
<1> SUFFICES ASSUME PageInit PROVE Sweeps
  OBVIOUS
<1>1. arrived \in [Vaults -> SUBSET Coins] BY DEF PageInit
<1>2. SweepOK(Refresh(Own))
  <2>1. PageInv /\ active = Own BY PageInvInit DEF PageInit
  <2> QED BY <1>1, <2>1, BeginsWell
<1>3. refreshes \subseteq {Refresh(Own)}
  BY DEF PageInit, With
<1> QED BY <1>1, <1>2, <1>3 DEF Sweeps

\* What is done coin by coin is done for every coin or is known not to be:
\* for any vaults and any rows of coins, whoever sweeps or switches meanwhile.
THEOREM EveryCoinProof == PageSpec => []EveryCoin
<1>1. PageInit => PageInv /\ Switches /\ Sweeps
  BY PageInvInit, SwitchesBegin, SweepsBegin
<1>2. PageInv /\ Switches /\ Sweeps /\ [PageNext]_pageVars => (PageInv /\ Switches /\ Sweeps)'
  BY PageInvStep, SwitchesStep, SweepsStep
<1>3. ASSUME Switches, NEW s \in Slots, ops[s].pc = "saved", ops[s].kind = "modes", ~ops[s].crossed
      PROVE  earning[ops[s].of] = IF ops[s].amount > 0 THEN Range(Takes[ops[s].of]) ELSE {}
  <2> DEFINE o == ops[s]
  <2>1. o # NoOp BY <1>3 DEF NoOp
  <2>2. SwitchOK(o, earning) BY <1>3, <2>1 DEF Switches
  <2>3. o.crossed # TRUE BY <1>3
  <2>4. o.pc = "saved" /\ o.kind = "modes" BY <1>3
  <2> HIDE DEF o
  <2>5. o.of \in Vaults /\ \A c \in Range(Takes[o.of]) : SetAsAsked(o, earning, c)
    BY <2>2, <2>3, <2>4 DEF SwitchOK, InFlight
  <2>6. earning[o.of] \subseteq Range(Takes[o.of])
    BY <1>3, <2>5 DEF Switches
  <2>7. earning[o.of] = IF o.amount > 0 THEN Range(Takes[o.of]) ELSE {}
    BY <2>5, <2>6 DEF SetAsAsked
  <2> QED BY <2>7 DEF o
<1>4. ASSUME Sweeps, NEW r \in refreshes, r.todo = <<>>, r.whole PROVE r.owed = {}
  <2>1. Range(r.todo) = {}
    BY <1>4 DEF Range
  <2>2. SweepOK(r) BY <1>4 DEF Sweeps
  <2>3. r.whole = TRUE => r.owed \subseteq Range(r.todo) BY <2>2 DEF SweepOK
  <2> QED BY <1>4, <2>1, <2>3
<1>5. PageInv /\ Switches /\ Sweeps => EveryCoin
  BY <1>3, <1>4 DEF EveryCoin, SwitchedForEveryCoin, SweepsEveryCoin
<1> QED BY <1>1, <1>2, <1>5, PTL DEF PageSpec

-----------------------------------------------------------------------------
(* What the page shows.                                                    *)

PageShape(p) ==
    p = [screen |-> p.screen, committed |-> p.committed, sections |-> p.sections,
         busy |-> p.busy, limits |-> p.limits, balances |-> p.balances,
         disordered |-> p.disordered, blind |-> p.blind]

\* The page q is p, with the sections, the limits and the balances given.
Looks(q, p, sections, limits, balances) ==
    /\ PageShape(q)
    /\ q.screen = p.screen /\ q.committed = p.committed
    /\ q.disordered = p.disordered /\ q.blind = p.blind
    /\ q.sections = sections /\ q.limits = limits /\ q.balances = balances

LooksLike(q, p) == Looks(q, p, p.sections, p.limits, p.balances)

\* Each field of the page on its own.
LEMMA PageField ==
  ASSUME NEW p, PageShape(p), NEW x
  PROVE  /\ LooksLike(p, p)
         /\ LooksLike([p EXCEPT !.busy = x], p)
         /\ Looks([p EXCEPT !.sections = x], p, x, p.limits, p.balances)
         /\ Looks([p EXCEPT !.limits = x], p, p.sections, x, p.balances)
         /\ Looks([p EXCEPT !.balances = x], p, p.sections, p.limits, x)
<1>1. LooksLike(p, p) BY DEF LooksLike, Looks
<1>2. LooksLike([p EXCEPT !.busy = x], p) BY DEF LooksLike, Looks, PageShape
<1>3. Looks([p EXCEPT !.sections = x], p, x, p.limits, p.balances) BY DEF Looks, PageShape
<1>4. Looks([p EXCEPT !.limits = x], p, p.sections, x, p.balances) BY DEF Looks, PageShape
<1>5. Looks([p EXCEPT !.balances = x], p, p.sections, p.limits, x) BY DEF Looks, PageShape
<1> QED BY <1>1, <1>2, <1>3, <1>4, <1>5

\* The page q is p, with what else it knows given.
Knows(q, p, screen, committed, disordered, blind) ==
    /\ PageShape(q)
    /\ q.sections = p.sections /\ q.limits = p.limits /\ q.balances = p.balances
    /\ q.screen = screen /\ q.committed = committed /\ q.disordered = disordered /\ q.blind = blind

LEMMA PageFlag ==
  ASSUME NEW p, PageShape(p), NEW x
  PROVE  /\ Knows([p EXCEPT !.screen = x], p, x, p.committed, p.disordered, p.blind)
         /\ Knows([p EXCEPT !.committed = x], p, p.screen, x, p.disordered, p.blind)
         /\ Knows([p EXCEPT !.disordered = x], p, p.screen, p.committed, x, p.blind)
         /\ Knows([p EXCEPT !.blind = x], p, p.screen, p.committed, p.disordered, x)
<1>1. Knows([p EXCEPT !.screen = x], p, x, p.committed, p.disordered, p.blind)
  BY DEF Knows, PageShape
<1>2. Knows([p EXCEPT !.committed = x], p, p.screen, x, p.disordered, p.blind)
  BY DEF Knows, PageShape
<1>3. Knows([p EXCEPT !.disordered = x], p, p.screen, p.committed, x, p.blind)
  BY DEF Knows, PageShape
<1>4. Knows([p EXCEPT !.blind = x], p, p.screen, p.committed, p.disordered, x)
  BY DEF Knows, PageShape
<1> QED BY <1>1, <1>2, <1>3, <1>4

\* A busy flag is no look.
LEMMA FlagLooks ==
  ASSUME NEW p, PageShape(p), NEW o, NEW kind
  PROVE  LooksLike(Busy(p, kind), p) /\ LooksLike(Finally(p, o), p)
<1>1. \A x : LooksLike([p EXCEPT !.busy = x], p) BY PageField
<1>2. LooksLike(Busy(p, kind), p) BY <1>1 DEF Busy
<1>3. LooksLike(Finally(p, o), p) BY <1>1, PageField DEF Finally
<1> QED BY <1>2, <1>3

\* A section has been read.
LEMMA SectionLooks ==
  ASSUME NEW p, PageShape(p), NEW x, NEW v
  PROVE  Looks([p EXCEPT !.sections[x] = v], p, [p.sections EXCEPT ![x] = v], p.limits, p.balances)
<1> DEFINE y == [p.sections EXCEPT ![x] = v]
<1>1. [p EXCEPT !.sections[x] = v] = [p EXCEPT !.sections = y]
  OBVIOUS
<1> HIDE DEF y
<1>2. Looks([p EXCEPT !.sections = y], p, y, p.limits, p.balances) BY PageField
<1> QED BY <1>1, <1>2 DEF y

\* Limits or balances are out of date.
LEMMA TouchLooks ==
  ASSUME PageShape(page), NEW v, NEW limitsToo, Touch(page, v, limitsToo)
  PROVE  Looks(page', page, page.sections, StaleIf(page.limits, limitsToo, v),
               StaleIf(page.balances, TRUE, v))
<1> DEFINE b == StaleIf(page.balances, TRUE, v)
           l == StaleIf(page.limits, limitsToo, v)
           q == [page EXCEPT !.balances = b]
<1>1. page' = [q EXCEPT !.limits = l]
  BY DEF Touch
<1> HIDE DEF b, l
<1>2. Looks(q, page, page.sections, page.limits, b) BY PageField
<1> HIDE DEF q
<1>3. PageShape(q) BY <1>2 DEF Looks
<1>4. Looks(page', q, q.sections, l, q.balances) BY <1>1, <1>3, PageField
<1>5. Looks(page', page, page.sections, l, b) BY <1>2, <1>4 DEF Looks
<1> QED BY <1>5 DEF b, l

\* An answer may be out of order, or no answer.
LEMMA DisorderShows ==
  ASSUME NEW p, PageShape(p), NEW q, NEW failed
  PROVE  LET d == Disorder(p, q, failed) IN
         /\ PageShape(d) /\ d.screen = p.screen /\ d.committed = p.committed
         /\ d.sections = p.sections /\ d.limits = p.limits /\ d.balances = p.balances
         /\ d.disordered = (p.disordered \/ q.late) /\ d.blind = (p.blind \/ failed)
<1> DEFINE x == p.disordered \/ q.late
           y == p.blind \/ failed
           e == [p EXCEPT !.disordered = x]
           d == Disorder(p, q, failed)
<1>1. d = [e EXCEPT !.blind = p.blind \/ failed]
  BY DEF Disorder
<1>2. d = [e EXCEPT !.blind = y]
  BY <1>1
<1> HIDE DEF x, y
<1>3. Knows(e, p, p.screen, p.committed, x, p.blind)
  BY PageFlag
<1> HIDE DEF e, d
<1>4. Knows(d, e, e.screen, e.committed, e.disordered, y)
  <2>1. PageShape(e) BY <1>3 DEF Knows
  <2> QED BY <1>2, <2>1, PageFlag
<1>5. /\ PageShape(d) /\ d.screen = p.screen /\ d.committed = p.committed
      /\ d.sections = p.sections /\ d.limits = p.limits /\ d.balances = p.balances
      /\ d.disordered = x /\ d.blind = y
  BY <1>3, <1>4 DEF Knows
<1> QED BY <1>5 DEF d, x, y

\* The sections are mounted afresh.
LEMMA MountedShows ==
  ASSUME NEW p, PageShape(p), NEW v
  PROVE  LET m == Mounted(p, v) IN
         /\ PageShape(m) /\ m.screen = v /\ m.committed = p.committed
         /\ m.sections = [x \in Sections |-> Nothing] /\ m.limits = p.limits /\ m.balances = p.balances
         /\ m.disordered = p.disordered /\ m.blind = p.blind
<1> DEFINE e == [x \in Sections |-> Nothing]
           n == {}
           a == [p EXCEPT !.screen = v]
           b == [a EXCEPT !.sections = e]
           m == Mounted(p, v)
<1>1. m = [b EXCEPT !.busy = {}]
  BY DEF Mounted
<1>1a. m = [b EXCEPT !.busy = n] BY <1>1
<1> HIDE DEF e, n
<1>2. Knows(a, p, v, p.committed, p.disordered, p.blind)
  BY PageFlag
<1> HIDE DEF a
<1>3. Looks(b, a, e, a.limits, a.balances) BY <1>2, PageField DEF Knows
<1> HIDE DEF b, m
<1>4. LooksLike(m, b) BY <1>1a, <1>3, PageField DEF Looks
<1>5. /\ PageShape(m) /\ m.screen = v /\ m.committed = p.committed
      /\ m.sections = e /\ m.limits = p.limits /\ m.balances = p.balances
      /\ m.disordered = p.disordered /\ m.blind = p.blind
  BY <1>2, <1>3, <1>4 DEF LooksLike, Looks, Knows
<1> QED BY <1>5 DEF m, e

-----------------------------------------------------------------------------
(* What the sections show.                                                 *)

Reloads(o) == o.pc = "reload" /\ o.alive = TRUE

Views ==
    /\ PageShape(page) /\ page.screen \in Vaults
    /\ page.sections \in [Sections -> Vaults \cup {Nothing}]
    /\ \A r \in local : r.of \in Vaults \cup {Nothing}
    /\ \A s \in Slots : ops[s].pc = "reload" => ops[s].of \in Vaults
    /\ page.screen = active =>
         /\ \A x \in Sections : page.sections[x] \in {Nothing, active}
         /\ \A r \in local : r.of \in {Nothing, active}
         /\ \A s \in Slots : Reloads(ops[s]) => ops[s].of = active

\* What a section may be told.
MayHold(v) ==
    v = Nothing \/ (\E r \in local : v = r.of) \/ \E s \in Slots : Reloads(ops[s]) /\ v = ops[s].of

\* The sections of the selected vault are mounted afresh and nobody is at work
\* in them; the selection changes before the page does; or the page stays.
Remount ==
    /\ active' = active /\ PageShape(page') /\ page'.screen = active
    /\ page'.sections = [x \in Sections |-> Nothing]
    /\ \A r \in local' : r.of \in {Nothing, active}
    /\ \A t \in Slots : ops'[t] = NoOp \/ ops'[t].alive = FALSE

Turn == active' # page.screen /\ UNCHANGED <<page, local>>

Keep ==
    /\ active' = active /\ PageShape(page') /\ page'.screen = page.screen
    /\ \/ page'.sections = page.sections
       \/ \E x, v : MayHold(v) /\ page'.sections = [page.sections EXCEPT ![x] = v]
    /\ \A r \in local' : r \in local \/ r.of = active

ViewStep == Remount \/ Turn \/ Keep

LEMMA ViewsStep == PageInv /\ Views /\ Fates /\ active' \in Vaults /\ ViewStep => Views'
<1> SUFFICES ASSUME PageInv, Views, Fates, active' \in Vaults, ViewStep PROVE Views'
  OBVIOUS
<1>1. ASSUME NEW t \in Slots, ops'[t].pc = "reload"
      PROVE  \/ ops[t].pc = "reload" /\ ops'[t].of = ops[t].of /\ (Reloads(ops'[t]) => Reloads(ops[t]))
             \/ ops'[t].of = active
  <2> DEFINE o == ops[t]
             p == ops'[t]
  <2>1. Fate(p, o) BY DEF Fates
  <2>2. p.pc = "reload" BY <1>1
  <2> HIDE DEF o, p
  <2>3. CASE p = NoOp BY <2>2, <2>3 DEF NoOp
  <2>4. CASE Starts(p) BY <2>2, <2>4 DEF Starts
  <2>5. CASE Stays(p, o) BY <2>2, <2>5 DEF Stays, Passes, Reloads, o, p
  <2>6. CASE GoesOn(p, o)
    <3>1. p.of = active BY <2>2, <2>6 DEF GoesOn, Passes, AfterTransactions
    <3> QED BY <3>1 DEF p
  <2> QED BY <2>1, <2>3, <2>4, <2>5, <2>6 DEF Fate
<1>2. active \in Vaults BY DEF PageInv
<1>3. \A t \in Slots : ops'[t].pc = "reload" => ops'[t].of \in Vaults
  BY <1>1, <1>2 DEF Views
<1>4. CASE Remount
  <2>1. \A t \in Slots : ~Reloads(ops'[t])
    BY <1>4 DEF Remount, Reloads, NoOp
  <2> QED BY <1>2, <1>3, <1>4, <2>1 DEF Views, Remount
<1>5. CASE Turn
  BY <1>3, <1>5 DEF Views, Turn
<1>6. CASE Keep
  <2>1. ASSUME NEW v, MayHold(v)
        PROVE  v \in Vaults \cup {Nothing} /\ (page.screen = active => v \in {Nothing, active})
    BY <2>1 DEF MayHold, Views, Reloads
  <2>2. /\ page'.sections \in [Sections -> Vaults \cup {Nothing}]
        /\ page.screen = active => \A x \in Sections : page'.sections[x] \in {Nothing, active}
    BY <1>6, <2>1 DEF Views, Keep
  <2>3. ASSUME page.screen = active, NEW t \in Slots, Reloads(ops'[t]) PROVE ops'[t].of = active
    BY <1>1, <2>3 DEF Views, Reloads
  <2> QED BY <1>2, <1>3, <1>6, <2>2, <2>3 DEF Views, Keep
<1> QED BY <1>4, <1>5, <1>6 DEF ViewStep

LEMMA Looked ==
  ASSUME Views, active' = active, LooksLike(page', page), \A r \in local' : r \in local \/ r.of = active
  PROVE  Keep
  BY DEF Keep, LooksLike, Looks

LEMMA PageWorksViews ==
  ASSUME PageInv, Views,
         \/ Render \/ AskAddress
         \/ \E r \in local, failed \in BOOLEAN : AnswerSection(r, failed)
         \/ \E r \in refreshes, failed \in BOOLEAN : Look(r, failed)
         \/ \E r \in refreshes, yes \in BOOLEAN : SweepPrompt(r, yes)
         \/ \E r \in refreshes : SweepMined(r) \/ AskBalances(r)
         \/ PressRefresh \/ \E v \in Vaults, c \in Coins : Keeper(v, c)
  PROVE  ViewStep
<1>0. PageShape(page) /\ OpsOK BY DEF Views, PageInv
<1>1. CASE Render
  <2>1. /\ active' = active /\ page' = Mounted(page, active) /\ local' = MountReads(active)
        /\ ops' = Unmounted(ops)
    BY <1>1 DEF Render, Remounted
  <2>2. PageShape(page') /\ page'.screen = active /\ page'.sections = [x \in Sections |-> Nothing]
    BY <1>0, <2>1, MountedShows
  <2>3. \A t \in Slots : ops'[t] = NoOp \/ ops'[t].alive = FALSE
    BY <1>0, <2>1, UnmountedStays DEF OpsOK
  <2>4. \A r \in local' : r.of \in {Nothing, active}
    BY <2>1 DEF MountReads
  <2> QED BY <2>1, <2>2, <2>3, <2>4 DEF ViewStep, Remount
<1>2. CASE AskAddress
  <2>1. LooksLike(page', page) BY <1>0, <1>2, PageField DEF AskAddress
  <2> QED BY <1>2, <2>1, Looked DEF AskAddress, ViewStep
<1>3. ASSUME NEW r \in local, NEW failed \in BOOLEAN, AnswerSection(r, failed) PROVE ViewStep
  <2> DEFINE v == IF failed THEN Nothing ELSE r.of
  <2>1. /\ page' = [page EXCEPT !.sections[r.what] = v]
        /\ active' = active /\ local' = local \ {r}
    BY <1>3 DEF AnswerSection
  <2>2. MayHold(v) BY DEF MayHold
  <2> HIDE DEF v
  <2>3. /\ page'.sections = [page.sections EXCEPT ![r.what] = v] /\ PageShape(page')
        /\ page'.screen = page.screen
    BY <1>0, <2>1, SectionLooks DEF Looks
  <2> QED BY <2>1, <2>2, <2>3 DEF ViewStep, Keep
<1>4. ASSUME NEW r \in refreshes, SweepMined(r) PROVE ViewStep
  <2>1. active' = active /\ local' = local /\ (Touch(page, r.of, FALSE) \/ UNCHANGED page)
    BY <1>4 DEF SweepMined
  <2>2. CASE Touch(page, r.of, FALSE)
    <3>1. PageShape(page') /\ page'.screen = page.screen /\ page'.sections = page.sections
      BY <1>0, <2>2, TouchLooks DEF Looks
    <3> QED BY <2>1, <3>1 DEF ViewStep, Keep
  <2>3. CASE UNCHANGED page
    BY <1>0, <2>1, <2>3 DEF ViewStep, Keep
  <2> QED BY <2>1, <2>2, <2>3
<1>5. ASSUME UNCHANGED <<page, local, active>> PROVE ViewStep
  BY <1>0, <1>5 DEF ViewStep, Keep
<1> QED BY <1>1, <1>2, <1>3, <1>4, <1>5 DEF Look, SweepPrompt, AskBalances, PressRefresh, Keeper

\* The handler whose answer came goes on or ends; the others are as they were.
LEMMA AnsweredNow ==
  ASSUME PageInv, NEW i \in DOMAIN asked, asked[i].what = "limits"
  PROVE  LET s == asked[i].op
             q == IF Again(ops[s]) THEN [ops[s] EXCEPT !.pc = "who2"] ELSE NoOp
         IN  HandlersOK([ops EXCEPT ![s] = q])
<1> DEFINE s == asked[i].op
           o == ops[s]
           q == IF Again(o) THEN [o EXCEPT !.pc = "who2"] ELSE NoOp
           now == [ops EXCEPT ![s] = q]
<1>1. OpsOK /\ AskedOK /\ i \in 1 .. Len(asked)
  BY DEF PageInv, AskedOK
<1>2. s \in Slots /\ Waits(o)
  BY <1>1 DEF AskedOK
<1>3. OpOK(o)
  BY <1>1, <1>2 DEF OpsOK, HandlersOK, NoOp, Waits
<1>4. q = NoOp \/ OpOK(q)
  BY <1>3, Resting
<1> HIDE DEF q
<1>5. now[s] = q /\ \A t \in Slots \ {s} : now[t] = ops[t]
  BY <1>1, <1>2 DEF OpsOK, HandlersOK
<1>6. DOMAIN now = Slots /\ now = [t \in Slots |-> now[t]]
  BY <1>1, <1>2 DEF OpsOK, HandlersOK
<1>7. HandlersOK(now)
  <2> HIDE DEF now
  <2> QED BY <1>1, <1>4, <1>5, <1>6 DEF OpsOK, HandlersOK
<1> QED BY <1>7 DEF now, q

LEMMA AnswersViews ==
  ASSUME PageInv, Views, NEW i \in DOMAIN asked, NEW failed \in BOOLEAN,
         AnswerBalances(i, failed) \/ AnswerLimits(i, failed)
  PROVE  ViewStep
<1>0. PageShape(page) /\ OpsOK BY DEF Views, PageInv
<1> DEFINE d == Disorder(page, asked[i], failed)
<1>1. PageShape(d) /\ d.screen = page.screen /\ d.sections = page.sections
  BY <1>0, DisorderShows
<1>2. CASE AnswerBalances(i, failed)
  <2> DEFINE b == IF failed THEN NoBalances ELSE [of |-> asked[i].of, fresh |-> asked[i].fresh]
  <2>1. page' = [d EXCEPT !.balances = b] /\ active' = active /\ local' = local
    BY <1>2 DEF AnswerBalances
  <2> HIDE DEF d, b
  <2>2. Looks(page', d, d.sections, d.limits, b)
    BY <1>1, <2>1, PageField
  <2> QED BY <1>1, <2>1, <2>2 DEF ViewStep, Keep, Looks
<1>3. CASE AnswerLimits(i, failed)
  <2> DEFINE s == asked[i].op
             o == ops[s]
             q == IF Again(o) THEN [o EXCEPT !.pc = "who2"] ELSE NoOp
             now == [ops EXCEPT ![s] = q]
             c == ~failed
             l == IF failed THEN [of |-> Nothing, fresh |-> TRUE]
                  ELSE [of |-> asked[i].of, fresh |-> asked[i].fresh]
             p == [[d EXCEPT !.committed = c] EXCEPT !.limits = l]
  <2>1. /\ active' = active /\ asked[i].what = "limits"
        /\ \/ /\ page' = Mounted(p, active) /\ (local' = MountReads(active) \/ local' = {})
              /\ ops' = Unmounted(now)
           \/ (page' = p \/ page' = Finally(p, o)) /\ (local' = local \/ local' = local \cup LastReads(o))
    BY <1>3 DEF AnswerLimits
  <2> HIDE DEF d, c, l, p, now
  <2>2. PageShape(p) /\ p.screen = page.screen /\ p.sections = page.sections
    <3> DEFINE e == [d EXCEPT !.committed = c]
    <3>1. Knows(e, d, d.screen, c, d.disordered, d.blind) BY <1>1, PageFlag
    <3>2. p = [e EXCEPT !.limits = l] BY DEF p
    <3> HIDE DEF e
    <3>3. Looks(p, e, e.sections, l, e.balances) BY <3>1, <3>2, PageField DEF Knows
    <3> QED BY <1>1, <3>1, <3>3 DEF Knows, Looks
  <2>3. CASE page' = Mounted(p, active) /\ (local' = MountReads(active) \/ local' = {}) /\ ops' = Unmounted(now)
    <3>1. PageShape(page') /\ page'.screen = active /\ page'.sections = [x \in Sections |-> Nothing]
      BY <2>2, <2>3, MountedShows
    <3>2. \A r \in local' : r.of \in {Nothing, active}
      BY <2>3 DEF MountReads
    <3>3. HandlersOK(now)
      BY <2>1, AnsweredNow DEF now
    <3>4. \A t \in Slots : ops'[t] = NoOp \/ ops'[t].alive = FALSE
      BY <2>3, <3>3, UnmountedStays
    <3> QED BY <2>1, <3>1, <3>2, <3>4 DEF ViewStep, Remount
  <2>4. CASE (page' = p \/ page' = Finally(p, o)) /\ (local' = local \/ local' = local \cup LastReads(o))
    <3> HIDE DEF o
    <3>1. LooksLike(page', p)
      BY <2>2, <2>4, FlagLooks, PageField
    <3>2. \A r \in local' : r \in local \/ r.of = active
      BY <2>4 DEF LastReads
    <3> QED BY <2>1, <2>2, <3>1, <3>2 DEF LooksLike, Looks, ViewStep, Keep
  <2> QED BY <2>1, <2>3, <2>4
<1> QED BY <1>2, <1>3

LEMMA HandlersViews ==
  ASSUME PageInv, Views, NEW s \in Slots,
         \/ ReadAllowance(s) \/ Reload(s) \/ AskLimits(s)
         \/ \E failed \in BOOLEAN : \/ Network(s, failed) \/ Check(s, failed)
                                    \/ Mined(s, failed) \/ Reloaded(s, failed)
         \/ \E yes \in BOOLEAN : Prompt(s, yes)
  PROVE  ViewStep
<1>0. PageShape(page) BY DEF Views
<1> DEFINE o == ops[s]
<1>1. ASSUME active' = active, local' = local, UNCHANGED page \/ page' = Finally(page, o)
      PROVE  ViewStep
  <2>1. LooksLike(page', page) BY <1>0, <1>1, FlagLooks, PageField
  <2> QED BY <1>1, <2>1, Looked DEF ViewStep
<1>2. ASSUME NEW failed \in BOOLEAN, Mined(s, failed) PROVE ViewStep
  <2>1. /\ active' = active
        /\ \/ local' = local /\ page' = Finally(page, o)
           \/ /\ UNCHANGED page \/ Touch(page, o.of, TRUE)
              /\ local' = local \/ local' = local \cup LastReads(o)
    BY <1>2 DEF Mined, GivesUp, Effect
  <2> HIDE DEF o
  <2>2. \A r \in local' : r \in local \/ r.of = active
    <3>1. \A r \in LastReads(o) : r.of = active BY DEF LastReads
    <3> QED BY <2>1, <3>1
  <2>3. PageShape(page') /\ page'.screen = page.screen /\ page'.sections = page.sections
    <3>1. LooksLike(Finally(page, o), page) BY <1>0, FlagLooks
    <3>2. CASE page' = Finally(page, o) BY <3>1, <3>2 DEF LooksLike, Looks
    <3>3. CASE UNCHANGED page BY <1>0, <3>3
    <3>4. CASE Touch(page, o.of, TRUE)
      <4>1. Looks(page', page, page.sections, StaleIf(page.limits, TRUE, o.of),
                  StaleIf(page.balances, TRUE, o.of))
        BY <1>0, <3>4, TouchLooks
      <4> QED BY <4>1 DEF Looks
    <3> QED BY <2>1, <3>2, <3>3, <3>4
  <2> QED BY <2>1, <2>2, <2>3 DEF ViewStep, Keep
<1>3. ASSUME NEW failed \in BOOLEAN, Reloaded(s, failed) PROVE ViewStep
  <2> DEFINE v == IF failed THEN Nothing ELSE o.of
             f == Finally(page, o)
  <2>1. /\ active' = active /\ local' = local /\ o.pc = "reload"
        /\ (o.alive /\ page' = [f EXCEPT !.sections["earning"] = v]) \/ page' = page
    BY <1>3 DEF Reloaded, At
  <2>2. LooksLike(f, page) BY <1>0, FlagLooks
  <2>3. CASE page' = page BY <1>1, <2>1, <2>3
  <2>4. CASE o.alive /\ page' = [f EXCEPT !.sections["earning"] = v]
    <3>1. MayHold(v) BY <2>1, <2>4 DEF MayHold, Reloads
    <3> HIDE DEF v, f
    <3>2. PageShape(f) /\ f.sections = page.sections /\ f.screen = page.screen
      BY <2>2 DEF LooksLike, Looks
    <3>3. Looks(page', f, [f.sections EXCEPT !["earning"] = v], f.limits, f.balances)
      BY <2>4, <3>2, SectionLooks
    <3>4. PageShape(page') /\ page'.screen = page.screen
          /\ page'.sections = [page.sections EXCEPT !["earning"] = v]
      BY <3>2, <3>3 DEF Looks
    <3> QED BY <2>1, <3>1, <3>4 DEF ViewStep, Keep
  <2> QED BY <2>1, <2>3, <2>4
<1>4. ASSUME NEW failed \in BOOLEAN, Network(s, failed) \/ Check(s, failed) PROVE ViewStep
  BY <1>1, <1>4 DEF Network, Check, GivesUp
<1>5. ASSUME ReadAllowance(s) \/ Reload(s) \/ AskLimits(s) \/ \E yes \in BOOLEAN : Prompt(s, yes) PROVE ViewStep
  BY <1>1, <1>5 DEF ReadAllowance, Reload, AskLimits, Prompt, GivesUp
<1> QED BY <1>2, <1>3, <1>4, <1>5

LEMMA ButtonsViews ==
  ASSUME PageInv, Views, NEW s \in Slots,
         \/ \E v \in Vaults : SelectVault(s, v)
         \/ \E c \in Coins, a \in bound.amounts : PressDeposit(s, c, a)
         \/ \E c \in Coins, k \in {"withdraw", "penalty", "bypass", "execute"} : PressWithdrawal(s, k, c)
         \/ \E c \in Coins, k \in {"mode", "modes"}, on \in {0, 1} : PressEarning(s, k, c, on)
  PROVE  ViewStep
<1>0. PageShape(page) BY DEF Views
<1>1. CASE \E v \in Vaults : SelectVault(s, v)
  BY <1>1 DEF SelectVault, ViewStep, Turn
<1>2. ASSUME NEW k, page' = Busy(page, k), active' = active, local' = local PROVE ViewStep
  <2>1. LooksLike(page', page) BY <1>0, <1>2, FlagLooks
  <2> QED BY <1>2, <2>1, Looked DEF ViewStep
<1> QED BY <1>1, <1>2 DEF PressDeposit, PressWithdrawal, PressEarning

LEMMA EveryView == PageInv /\ Views /\ [PageNext]_pageVars => ViewStep
<1> SUFFICES ASSUME PageInv, Views, [PageNext]_pageVars PROVE ViewStep
  OBVIOUS
<1>1. CASE UNCHANGED pageVars
  BY <1>1 DEF pageVars, Views, ViewStep, Keep
<1>2. CASE PageWorks
  BY <1>2, PageWorksViews, AnswersViews, HandlersViews DEF PageWorks
<1>3. CASE Others
  BY <1>3, PageWorksViews, HandlersViews, ButtonsViews DEF Others
<1> QED BY <1>1, <1>2, <1>3 DEF PageNext

-----------------------------------------------------------------------------
(* The wallet.                                                             *)

\* A deposit that lands takes what the wallet has.
LEMMA MinedWallet ==
  ASSUME PageInv, wallet \in [Coins -> Nat], NEW s \in Slots, NEW refused \in BOOLEAN, Mined(s, refused)
  PROVE  wallet' \in [Coins -> Nat]
<1> DEFINE o == ops[s]
           tx == Head(o.txs)
<1>1. /\ o.pc = "mine"
      /\ \/ wallet' = wallet
         \/ /\ tx.call = "deposit" /\ Lands(o, tx)
            /\ wallet' = [wallet EXCEPT ![tx.coin] = @ - tx.amount]
  BY DEF Mined, At, Effect
<1>2. OpOK(o) /\ InFlight(o)
  BY <1>1 DEF PageInv, OpsOK, HandlersOK, NoOp, InFlight
<1> HIDE DEF o
<1>3. SUFFICES ASSUME tx.call = "deposit", wallet[tx.coin] >= tx.amount,
                      wallet' = [wallet EXCEPT ![tx.coin] = @ - tx.amount]
               PROVE  wallet' \in [Coins -> Nat]
  BY <1>1 DEF Lands
<1>4. o.kind = "deposit"
  <2> SUFFICES ASSUME o.kind # "deposit" PROVE FALSE OBVIOUS
  <2>1. o.txs \in Seq(OtherTx) /\ o.txs # <<>> BY <1>2 DEF OpOK
  <2>2. tx \in OtherTx BY <2>1, RestOfRow, FirstOrRest
  <2> QED BY <1>3, <2>2 DEF OtherTx, Kinds
<1>5. tx.coin \in Coins /\ tx.amount \in Nat
  <2> DEFINE d == Tx("deposit", o, o.coin)
             a == [call |-> "approve", coin |-> o.coin, amount |-> o.amount]
             r == [call |-> "approve", coin |-> o.coin, amount |-> 0]
  <2>1. o.txs \in {<<d>>, <<a, d>>, <<r, a, d>>} /\ o.coin \in Coins /\ o.amount \in Nat
    BY <1>2, <1>4 DEF OpOK, DepositTxs
  <2>2. \A x \in {d, a, r} : x.coin = o.coin /\ x.amount \in {o.amount, 0}
    BY DEF Tx
  <2> HIDE DEF d, a, r
  <2>3. tx \in {d, a, r} BY <2>1
  <2> QED BY <2>1, <2>2, <2>3
<1> DEFINE c == tx.coin
           x == tx.amount
<1>6. c \in Coins /\ x \in Nat /\ wallet[c] >= x /\ wallet' = [wallet EXCEPT ![c] = @ - x]
  BY <1>3, <1>5
<1> HIDE DEF c, x
<1>7. wallet[c] \in Nat /\ wallet[c] - x \in Nat BY <1>6
<1> QED BY <1>6, <1>7

LEMMA WalletStep ==
  ASSUME PageInv, wallet \in [Coins -> Nat], [PageNext]_pageVars
  PROVE  wallet' \in [Coins -> Nat]
<1>1. CASE UNCHANGED pageVars
  BY <1>1 DEF pageVars, chainVars
<1>2. CASE PageWorks
  <2>1. ASSUME NEW s \in Slots, NEW failed \in BOOLEAN, Mined(s, failed) PROVE wallet' \in [Coins -> Nat]
    BY <2>1, MinedWallet
  <2>2. ASSUME \/ Render \/ AskAddress \/ \E r \in refreshes : SweepMined(r) \/ AskBalances(r)
               \/ \E r \in local, failed \in BOOLEAN : AnswerSection(r, failed)
               \/ \E r \in refreshes, failed \in BOOLEAN : Look(r, failed)
        PROVE  wallet' = wallet
    BY <2>2 DEF Render, AskAddress, SweepMined, AskBalances, AnswerSection, Look, chainVars
  <2>3. ASSUME NEW i \in DOMAIN asked, NEW failed \in BOOLEAN,
               AnswerBalances(i, failed) \/ AnswerLimits(i, failed)
        PROVE  wallet' = wallet
    BY <2>3 DEF AnswerBalances, AnswerLimits, chainVars
  <2>4. ASSUME NEW s \in Slots,
               \/ ReadAllowance(s) \/ Reload(s) \/ AskLimits(s)
               \/ \E failed \in BOOLEAN : Network(s, failed) \/ Check(s, failed) \/ Reloaded(s, failed)
        PROVE  wallet' = wallet
    BY <2>4 DEF ReadAllowance, Reload, AskLimits, Network, Check, Reloaded, chainVars
  <2> QED BY <1>2, <2>1, <2>2, <2>3, <2>4 DEF PageWorks
<1>3. CASE Others
  BY <1>3 DEF Others, PressRefresh, SweepPrompt, Prompt, SelectVault, PressDeposit, PressWithdrawal,
     PressEarning, Keeper, chainVars
<1> QED BY <1>1, <1>2, <1>3 DEF PageNext

-----------------------------------------------------------------------------
(* The theorem.                                                            *)

ViewsInv == PageInv /\ Views /\ wallet \in [Coins -> Nat]

LEMMA ViewsBegin == PageInit => ViewsInv
<1> SUFFICES ASSUME PageInit PROVE ViewsInv
  OBVIOUS
<1>1. PageInv /\ bound \in Bounds /\ Own \in Vaults BY PageInvInit, PageAssumption DEF PageInit
<1>2. wallet \in [Coins -> Nat]
  BY <1>1, PageAssumption DEF PageInit
<1> DEFINE p == [screen |-> Own, committed |-> TRUE, sections |-> {}, busy |-> {},
                 limits |-> [of |-> Own, fresh |-> TRUE],
                 balances |-> [of |-> Nothing, fresh |-> TRUE],
                 disordered |-> FALSE, blind |-> FALSE]
<1>3. PageShape(p) BY DEF PageShape
<1>4. page = Mounted(p, Own) /\ local = MountReads(Own) /\ active = Own
      /\ ops = [s \in Slots |-> NoOp]
  BY DEF PageInit
<1> HIDE DEF p
<1>5. PageShape(page) /\ page.screen = Own /\ page.sections = [x \in Sections |-> Nothing]
  BY <1>3, <1>4, MountedShows
<1>6. \A r \in local : r.of \in {Nothing, Own}
  BY <1>4 DEF MountReads
<1>7. \A s \in Slots : ops[s].pc # "reload"
  BY <1>4 DEF NoOp
<1> QED BY <1>1, <1>2, <1>4, <1>5, <1>6, <1>7 DEF ViewsInv, Views, Reloads

LEMMA ViewsInvStep == ViewsInv /\ [PageNext]_pageVars => ViewsInv'
<1> SUFFICES ASSUME ViewsInv, [PageNext]_pageVars PROVE ViewsInv'
  OBVIOUS
<1>1. PageInv /\ Views /\ wallet \in [Coins -> Nat] BY DEF ViewsInv
<1>2. PageInv' BY <1>1, PageInvStep
<1>3. wallet' \in [Coins -> Nat] BY <1>1, WalletStep
<1>4. Fates /\ ViewStep BY <1>1, FatesStep, EveryView
<1>5. active' \in Vaults BY <1>2 DEF PageInv
<1>6. Views' BY <1>1, <1>4, <1>5, ViewsStep
<1> QED BY <1>2, <1>3, <1>6 DEF ViewsInv

\* Once the page has rendered a selection, every section holds what was read
\* of that vault or nothing: for any vaults and any number of slow answers,
\* and of handlers that outlive the section that began them.
THEOREM FollowProof == PageSpec => []SectionsFollowTheVault
<1>1. ViewsInv => SectionsFollowTheVault
  <2> SUFFICES ASSUME ViewsInv PROVE SectionsFollowTheVault
    OBVIOUS
  <2>1. \A i \in DOMAIN asked : asked[i].what = "limits" =>
           At(asked[i].op, "limits") \/ At(asked[i].op, "limits2")
    <3>1. AskedOK BY DEF ViewsInv, PageInv
    <3>2. DOMAIN asked = 1 .. Len(asked) BY <3>1 DEF AskedOK
    <3> QED BY <3>1, <3>2 DEF AskedOK, Waits, At
  <2>2. PageTypeOK
    <3>1. /\ active \in Vaults /\ page.screen \in Vaults
          /\ \A x \in Sections : page.sections[x] \in Vaults \cup {Nothing}
      BY DEF ViewsInv, Views, PageInv
    <3>2. \A c \in Coins : wallet[c] \in Nat /\ allowance[c] \in Nat
      BY DEF ViewsInv, PageInv
    <3> QED BY <2>1, <3>1, <3>2 DEF PageTypeOK
  <2> QED BY <2>2 DEF SectionsFollowTheVault, ViewsInv, Views
<1> QED BY <1>1, ViewsBegin, ViewsInvStep, PTL DEF PageSpec

-----------------------------------------------------------------------------
(* Coming to rest.                                                         *)

Shown(what) == IF what = "balances" THEN page.balances ELSE page.limits

IsGood(q) == q.of = active /\ q.fresh = TRUE

\* An answer that is overtaken is asked for; the last question is of the
\* selected vault and not out of date; or nothing is asked, and what is shown is.
Late(what) == \E i \in DOMAIN asked : asked[i].what = what /\ asked[i].late = TRUE

LastGood(what) ==
    \E i \in DOMAIN asked :
        /\ asked[i].what = what /\ IsGood(asked[i])
        /\ \A j \in DOMAIN asked : j > i => asked[j].what # what

ShownGood(what) ==
    /\ \A i \in DOMAIN asked : asked[i].what # what
    /\ Shown(what) = [of |-> active, fresh |-> TRUE]

InSight(what) == Late(what) \/ LastGood(what) \/ ShownGood(what)

LimitsAhead == \E s \in Slots : ops[s].pc \in {"who", "who2"}
BalancesAhead ==
    refreshes # {} \/ page.screen # active \/ \E s \in Slots : ops[s].pc \in {"who", "limits"}

\* Unless a read failed or an answer was overtaken, whatever is not in sight
\* is going to be asked for.
Rests ==
    /\ page.blind # TRUE => page.committed = TRUE
    /\ page.blind # TRUE /\ page.disordered # TRUE =>
         /\ LimitsAhead \/ InSight("limits")
         /\ "balances" \in bound.reads => BalancesAhead \/ InSight("balances")

\* A question is asked.
LEMMA AskedSight ==
  ASSUME AskedOK, NEW what, NEW s, asked' = Append(asked, Question(what, s)), active' = active
  PROVE  /\ InSight(what)'
         /\ \A x : x # what /\ Shown(x)' = Shown(x) /\ InSight(x) => InSight(x)'
<1> DEFINE n == Len(asked)
           q == Question(what, s)
<1>1. n \in Nat /\ DOMAIN asked = 1 .. n /\ asked = [i \in 1 .. n |-> asked[i]]
  BY DEF AskedOK
<1>2. /\ DOMAIN asked' = 1 .. n + 1 /\ asked'[n + 1] = q
      /\ \A i \in 1 .. n : asked'[i] = asked[i]
  BY <1>1, Appended
<1>3. q.what = what /\ q.of = active /\ q.fresh = TRUE
  BY DEF Question
<1> HIDE DEF n, q
<1>4. LastGood(what)'
  <2>1. n + 1 \in DOMAIN asked' BY <1>1, <1>2
  <2>2. \A j \in DOMAIN asked' : ~(j > n + 1) BY <1>1, <1>2
  <2> QED BY <1>2, <1>3, <2>1, <2>2 DEF LastGood, IsGood
<1>5. ASSUME NEW x, x # what, Shown(x)' = Shown(x), InSight(x) PROVE InSight(x)'
  <2>1. \A j \in DOMAIN asked' : (j \in DOMAIN asked /\ asked'[j] = asked[j]) \/ asked'[j].what # x
    <3> SUFFICES ASSUME NEW j \in DOMAIN asked'
                 PROVE  (j \in DOMAIN asked /\ asked'[j] = asked[j]) \/ asked'[j].what # x
      OBVIOUS
    <3>1. j \in 1 .. n \/ j = n + 1 BY <1>1, <1>2
    <3> QED BY <1>1, <1>2, <1>3, <1>5, <3>1
  <2>2. \A j \in DOMAIN asked : j \in DOMAIN asked' /\ asked'[j] = asked[j]
    BY <1>1, <1>2
  <2>3. CASE Late(x) BY <2>2, <2>3 DEF Late, InSight
  <2>4. CASE LastGood(x)
    <3>1. PICK i \in DOMAIN asked : /\ asked[i].what = x /\ IsGood(asked[i])
                                    /\ \A j \in DOMAIN asked : j > i => asked[j].what # x
      BY <2>4 DEF LastGood
    <3>2. \A j \in DOMAIN asked' : j > i => asked'[j].what # x
      BY <2>1, <3>1
    <3>3. IsGood(asked[i])' BY <2>2, <3>1 DEF IsGood
    <3> QED BY <2>2, <3>1, <3>2, <3>3 DEF LastGood, InSight, IsGood
  <2>5. CASE ShownGood(x) BY <1>5, <2>1, <2>5 DEF ShownGood, InSight
  <2> QED BY <1>5, <2>3, <2>4, <2>5 DEF InSight
<1> QED BY <1>4, <1>5 DEF InSight

\* A question is answered: the rest move up, and those before it are late.
LEMMA AnsweredQuestions ==
  ASSUME AskedOK, NEW i \in 1 .. Len(asked)
  PROVE  LET n == Len(asked) - 1 IN
         /\ DOMAIN Answered(i) = 1 .. n
         /\ \A j \in 1 .. n : j >= i => Answered(i)[j] = asked[j + 1]
         /\ \A j \in 1 .. n : j < i =>
               /\ Answered(i)[j].what = asked[j].what /\ Answered(i)[j].of = asked[j].of
               /\ Answered(i)[j].fresh = asked[j].fresh
               /\ (asked[j].late = TRUE => Answered(i)[j].late = TRUE)
               /\ asked[j].what = asked[i].what => Answered(i)[j].late = TRUE
<1> DEFINE n == Len(asked) - 1
<1>1. Len(asked) \in Nat /\ n \in Nat
  BY DEF AskedOK
<1>2. DOMAIN Answered(i) = 1 .. n
  BY <1>1 DEF Answered
<1>3. ASSUME NEW j \in 1 .. n, j >= i PROVE Answered(i)[j] = asked[j + 1]
  BY <1>1, <1>3 DEF Answered
<1>4. ASSUME NEW j \in 1 .. n, j < i
      PROVE  /\ Answered(i)[j].what = asked[j].what /\ Answered(i)[j].of = asked[j].of
             /\ Answered(i)[j].fresh = asked[j].fresh
             /\ (asked[j].late = TRUE => Answered(i)[j].late = TRUE)
             /\ asked[j].what = asked[i].what => Answered(i)[j].late = TRUE
  <2> DEFINE x == asked[j].late \/ asked[j].what = asked[i].what
             q == asked[j]
             v == [q EXCEPT !.late = x]
  <2>1. Answered(i)[j] = v
    BY <1>1, <1>4 DEF Answered
  <2>2. QuestionShape(q)
    <3>1. j \in 1 .. Len(asked) BY <1>1
    <3> QED BY <3>1 DEF AskedOK
  <2>3. asked[j].what = asked[i].what \/ asked[j].late = TRUE => x = TRUE OBVIOUS
  <2> HIDE DEF x, q
  <2>5. v.what = q.what /\ v.of = q.of /\ v.fresh = q.fresh /\ v.late = x
    BY <2>2 DEF QuestionShape
  <2> HIDE DEF v
  <2> QED BY <2>1, <2>3, <2>5 DEF q
<1> QED BY <1>2, <1>3, <1>4

\* What it was about is then shown, unless it was overtaken.
LEMMA AnsweredSight ==
  ASSUME AskedOK, NEW i \in 1 .. Len(asked), NEW w, w = asked[i].what, asked' = Answered(i), active' = active
  PROVE  /\ \A x : x # w /\ Shown(x)' = Shown(x) /\ InSight(x) => InSight(x)'
         /\ asked[i].late # TRUE /\ InSight(w)
               /\ Shown(w)' = [of |-> asked[i].of, fresh |-> asked[i].fresh]
            => InSight(w)'
<1> DEFINE n == Len(asked) - 1
<1>1. Len(asked) \in Nat /\ n \in Nat /\ n + 1 = Len(asked) /\ DOMAIN asked = 1 .. n + 1
  BY DEF AskedOK
<1>2. /\ DOMAIN asked' = 1 .. n
      /\ \A j \in 1 .. n : j >= i => asked'[j] = asked[j + 1]
      /\ \A j \in 1 .. n : j < i =>
               /\ asked'[j].what = asked[j].what /\ asked'[j].of = asked[j].of
               /\ asked'[j].fresh = asked[j].fresh
               /\ (asked[j].late = TRUE => asked'[j].late = TRUE)
               /\ asked[j].what = asked[i].what => asked'[j].late = TRUE
  BY AnsweredQuestions
<1>3. i \in 1 .. n + 1 BY <1>1
<1> HIDE DEF n
\* Where a question that stays has gone, and where one has come from.
<1>4. ASSUME NEW m \in 1 .. n + 1, m # i
      PROVE  LET j == IF m < i THEN m ELSE m - 1 IN
             /\ j \in 1 .. n /\ asked'[j].what = asked[m].what /\ asked'[j].of = asked[m].of
             /\ asked'[j].fresh = asked[m].fresh
             /\ (asked[m].late = TRUE => asked'[j].late = TRUE)
             /\ m < i /\ asked[m].what = w => asked'[j].late = TRUE
  <2>1. CASE m < i
    <3>1. m \in 1 .. n BY <1>1, <1>3, <2>1
    <3> QED BY <1>2, <2>1, <3>1
  <2>2. CASE ~(m < i)
    <3>1. m - 1 \in 1 .. n /\ m - 1 >= i /\ (m - 1) + 1 = m BY <1>1, <1>3, <1>4, <2>2
    <3>2. asked'[m - 1] = asked[m] BY <1>2, <3>1
    <3> QED BY <2>2, <3>1, <3>2
  <2> QED BY <2>1, <2>2
<1>5. ASSUME NEW j \in 1 .. n
      PROVE  LET m == IF j < i THEN j ELSE j + 1 IN
             m \in 1 .. n + 1 /\ m # i /\ asked'[j].what = asked[m].what
  <2>1. CASE j < i BY <1>1, <1>2, <1>3, <2>1
  <2>2. CASE ~(j < i)
    <3>1. j >= i /\ j + 1 \in 1 .. n + 1 /\ j + 1 # i BY <1>1, <1>3, <2>2
    <3> QED BY <1>2, <2>2, <3>1
  <2> QED BY <2>1, <2>2
<1>6. ASSUME NEW x, Late(x), x # w \/ asked[i].late # TRUE PROVE Late(x)'
  <2>1. PICK m \in 1 .. n + 1 : asked[m].what = x /\ asked[m].late = TRUE
    BY <1>1, <1>6 DEF Late
  <2>2. m # i BY <1>6, <2>1
  <2> QED BY <1>2, <1>4, <2>1, <2>2 DEF Late
<1>7. ASSUME NEW x, NEW m \in 1 .. n + 1, m # i, asked[m].what = x, IsGood(asked[m]),
             \A j \in 1 .. n + 1 : j > m => asked[j].what # x
      PROVE  LastGood(x)'
  <2> DEFINE k == IF m < i THEN m ELSE m - 1
  <2>1. k \in 1 .. n /\ asked'[k].what = x /\ asked'[k].of = active /\ asked'[k].fresh = TRUE
    BY <1>4, <1>7 DEF IsGood
  <2>2. ASSUME NEW j \in 1 .. n, j > k PROVE asked'[j].what # x
    <3> DEFINE l == IF j < i THEN j ELSE j + 1
    <3>1. l \in 1 .. n + 1 /\ asked'[j].what = asked[l].what /\ l # i BY <1>5
    <3>2. l > m BY <1>1, <1>3, <1>7, <2>2
    <3> HIDE DEF l
    <3> QED BY <1>7, <3>1, <3>2
  <2> HIDE DEF k
  <2> QED BY <1>2, <2>1, <2>2 DEF LastGood, IsGood
<1>8. ASSUME NEW x, x # w, Shown(x)' = Shown(x), InSight(x) PROVE InSight(x)'
  <2>1. CASE Late(x) BY <1>6, <1>8, <2>1 DEF InSight
  <2>2. CASE LastGood(x)
    <3>1. PICK m \in 1 .. n + 1 : /\ asked[m].what = x /\ IsGood(asked[m])
                                  /\ \A j \in 1 .. n + 1 : j > m => asked[j].what # x
      BY <1>1, <2>2 DEF LastGood
    <3> QED BY <1>7, <1>8, <3>1 DEF InSight
  <2>3. CASE ShownGood(x)
    <3>1. \A j \in DOMAIN asked' : asked'[j].what # x
      BY <1>1, <1>2, <1>5, <2>3 DEF ShownGood
    <3> QED BY <1>8, <2>3, <3>1 DEF ShownGood, InSight
  <2> QED BY <1>8, <2>1, <2>2, <2>3 DEF InSight
<1>9. ASSUME asked[i].late # TRUE, InSight(w),
             Shown(w)' = [of |-> asked[i].of, fresh |-> asked[i].fresh]
      PROVE  InSight(w)'
  <2>1. CASE Late(w) BY <1>6, <1>9, <2>1 DEF InSight
  <2>2. CASE LastGood(w)
    <3>1. PICK m \in 1 .. n + 1 : /\ asked[m].what = w /\ IsGood(asked[m])
                                  /\ \A j \in 1 .. n + 1 : j > m => asked[j].what # w
      BY <1>1, <2>2 DEF LastGood
    <3>2. CASE m # i
      BY <1>7, <3>1, <3>2 DEF InSight
    <3>3. CASE m = i /\ \E j \in 1 .. n + 1 : j < i /\ asked[j].what = w
      <4>1. PICK j \in 1 .. n + 1 : j < i /\ asked[j].what = w BY <3>3
      <4>2. j \in 1 .. n /\ asked'[j].what = w /\ asked'[j].late = TRUE
        BY <1>1, <1>2, <1>3, <4>1
      <4> QED BY <1>2, <4>2 DEF Late, InSight
    <3>4. CASE m = i /\ \A j \in 1 .. n + 1 : j < i => asked[j].what # w
      <4>1. \A j \in 1 .. n + 1 : j # i => asked[j].what # w
        BY <1>1, <1>3, <3>1, <3>4
      <4>2. \A j \in DOMAIN asked' : asked'[j].what # w
        BY <1>2, <1>5, <4>1
      <4>3. Shown(w)' = [of |-> active, fresh |-> TRUE]
        BY <1>9, <3>1, <3>4 DEF IsGood
      <4> QED BY <4>2, <4>3 DEF ShownGood, InSight
    <3> QED BY <3>2, <3>3, <3>4
  <2>3. CASE ShownGood(w) BY <1>1, <1>3, <2>3 DEF ShownGood
  <2> QED BY <1>9, <2>1, <2>2, <2>3 DEF InSight
<1> QED BY <1>8, <1>9

\* What is about another vault than the one dated stays as it is.
LEMMA TouchSight ==
  ASSUME AskedOK, PageShape(page), NEW v, NEW limitsToo, Touch(page, v, limitsToo), active' = active,
         NEW what \in {"limits", "balances"}, v # active \/ (what = "limits" /\ limitsToo = FALSE),
         InSight(what)
  PROVE  InSight(what)'
<1>1. /\ DOMAIN asked' = DOMAIN asked
      /\ \A i \in DOMAIN asked :
            asked'[i] = StaleIf(asked[i], limitsToo \/ asked[i].what = "balances", v)
  BY DEF Touch
<1>2. ASSUME NEW i \in DOMAIN asked
      PROVE  /\ asked'[i].what = asked[i].what /\ asked'[i].late = asked[i].late
             /\ asked[i].what = what /\ IsGood(asked[i]) => asked'[i].of = active /\ asked'[i].fresh = TRUE
  <2> DEFINE q == asked[i]
             y == q.fresh /\ ~((limitsToo \/ q.what = "balances") /\ q.of = v)
             u == [q EXCEPT !.fresh = y]
  <2>1. asked'[i] = u BY <1>1 DEF StaleIf
  <2>2. QuestionShape(q) BY DEF AskedOK
  <2>3. q.what = what /\ IsGood(q) => y = TRUE
    BY DEF IsGood
  <2> HIDE DEF y, q
  <2>4. u.what = q.what /\ u.of = q.of /\ u.late = q.late /\ u.fresh = y
    BY <2>2 DEF QuestionShape
  <2> HIDE DEF u
  <2>5. q.what = what /\ IsGood(q) => u.of = active /\ u.fresh = TRUE
    BY <2>3, <2>4 DEF IsGood
  <2> QED BY <2>1, <2>4, <2>5 DEF q
<1>3. Shown(what) = [of |-> active, fresh |-> TRUE] => Shown(what)' = Shown(what)
  <2> DEFINE g == [of |-> active, fresh |-> TRUE]
             b == StaleIf(page.balances, TRUE, v)
             l == StaleIf(page.limits, limitsToo, v)
  <2>1. page'.balances = b /\ page'.limits = l
    <3>1. Looks(page', page, page.sections, l, b) BY TouchLooks
    <3> QED BY <3>1 DEF Looks
  <2>2. v # active => StaleIf(g, TRUE, v) = g /\ StaleIf(g, limitsToo, v) = g
    BY DEF StaleIf
  <2>3. limitsToo = FALSE => StaleIf(g, limitsToo, v) = g
    BY DEF StaleIf
  <2>4. CASE what = "balances"
    <3>1. Shown(what) = page.balances /\ Shown(what)' = page'.balances BY <2>4 DEF Shown
    <3> QED BY <2>1, <2>2, <2>4, <3>1
  <2>5. CASE what = "limits"
    <3>1. Shown(what) = page.limits /\ Shown(what)' = page'.limits BY <2>5 DEF Shown
    <3> QED BY <2>1, <2>2, <2>3, <2>5, <3>1
  <2> QED BY <2>4, <2>5
<1>4. CASE Late(what) BY <1>1, <1>2, <1>4 DEF Late, InSight
<1>5. CASE LastGood(what)
  <2>1. PICK i \in DOMAIN asked : /\ asked[i].what = what /\ IsGood(asked[i])
                                  /\ \A j \in DOMAIN asked : j > i => asked[j].what # what
    BY <1>5 DEF LastGood
  <2>2. \A j \in DOMAIN asked' : j > i => asked'[j].what # what BY <1>1, <1>2, <2>1
  <2>3. asked'[i].what = what /\ IsGood(asked[i])' BY <1>2, <2>1 DEF IsGood
  <2> QED BY <1>1, <2>1, <2>2, <2>3 DEF LastGood, InSight, IsGood
<1>6. CASE ShownGood(what)
  BY <1>1, <1>2, <1>3, <1>6 DEF ShownGood, InSight
<1> QED BY <1>4, <1>5, <1>6 DEF InSight

\* What is shown and asked stays, and so do those who are going to ask.
StillThere == \A t \in Slots : ops[t].pc \in {"who", "who2", "limits"} => ops'[t].pc = ops[t].pc

SameShown ==
    /\ page'.screen = page.screen /\ page'.committed = page.committed
    /\ page'.disordered = page.disordered /\ page'.blind = page.blind
    /\ page'.limits = page.limits /\ page'.balances = page.balances

LEMMA SightKept ==
  ASSUME page'.limits = page.limits, page'.balances = page.balances, UNCHANGED <<asked, active>>
  PROVE  \A x : InSight(x)' <=> InSight(x)
  BY DEF InSight, Late, LastGood, ShownGood, Shown, IsGood

LEMMA RestKept ==
  ASSUME Rests, SameShown, StillThere, UNCHANGED <<asked, active, bound>>, refreshes # {} => refreshes' # {}
  PROVE  Rests'
<1>1. \A x : InSight(x)' <=> InSight(x)
  BY SightKept DEF SameShown
<1>2. (LimitsAhead => LimitsAhead') /\ (BalancesAhead => BalancesAhead')
  BY DEF LimitsAhead, BalancesAhead, StillThere, SameShown
<1> QED BY <1>1, <1>2 DEF Rests, SameShown

\* Nobody who is to ask, or whose answer is to come, goes another way.
LEMMA OthersThere ==
  ASSUME OpsOK, NEW s \in Slots, ops[s].pc \notin {"who", "who2", "limits"},
         \A t \in Slots \ {s} : ops'[t] = ops[t]
  PROVE  StillThere
  BY DEF StillThere

LEMMA ThereByItself ==
  ASSUME PageInv,
         \/ Render \/ AskAddress \/ PressRefresh
         \/ \E r \in local, failed \in BOOLEAN : AnswerSection(r, failed)
         \/ \E r \in refreshes, failed \in BOOLEAN : Look(r, failed)
         \/ \E r \in refreshes, yes \in BOOLEAN : SweepPrompt(r, yes)
         \/ \E v \in Vaults, c \in Coins : Keeper(v, c)
         \/ \E r \in refreshes : SweepMined(r) \/ AskBalances(r)
         \/ \E i \in DOMAIN asked, failed \in BOOLEAN : AnswerBalances(i, failed)
  PROVE  StillThere
<1>1. CASE Render
  <2>1. ops' = Unmounted(ops) BY <1>1 DEF Render
  <2>2. ASSUME NEW t \in Slots PROVE ops'[t].pc = ops[t].pc
    <3>1. \/ ops'[t] = NoOp /\ ops[t] = NoOp
          \/ ops[t] # NoOp /\ Stays(ops'[t], ops[t])
      BY <2>1, UnmountedStays DEF PageInv, OpsOK
    <3> QED BY <3>1 DEF Stays, Passes
  <2> QED BY <2>2 DEF StillThere
<1>2. CASE ~Render
  <2>1. UNCHANGED ops
    BY <1>2 DEF AskAddress, PressRefresh, AnswerSection, Look, SweepPrompt, Keeper, SweepMined,
       AskBalances, AnswerBalances
  <2> QED BY <2>1 DEF StillThere
<1> QED BY <1>1, <1>2

LEMMA ThereByOthers ==
  ASSUME PageInv, NEW s \in Slots,
         \/ \E failed \in BOOLEAN : Network(s, failed) \/ Check(s, failed) \/ Reloaded(s, failed)
         \/ ReadAllowance(s) \/ (\E yes \in BOOLEAN : Prompt(s, yes)) \/ Reload(s)
         \/ \E c \in Coins, a \in bound.amounts : PressDeposit(s, c, a)
         \/ \E c \in Coins, k \in {"withdraw", "penalty", "bypass", "execute"} : PressWithdrawal(s, k, c)
         \/ \E c \in Coins, k \in {"mode", "modes"}, on \in {0, 1} : PressEarning(s, k, c, on)
  PROVE  StillThere
<1>0. OpsOK /\ \A t \in Slots : ops[t] = NoOp => ops[t].pc = "none" BY DEF PageInv, NoOp
<1>1. CASE \E failed \in BOOLEAN : Network(s, failed) \/ Check(s, failed) \/ Reloaded(s, failed)
  <2>1. ops[s].pc \in {"network", "check", "reload"} /\ \A t \in Slots \ {s} : ops'[t] = ops[t]
    BY <1>0, <1>1 DEF Network, Check, Reloaded, GivesUp, At, OpsOK, HandlersOK
  <2> QED BY <1>0, <2>1, OthersThere
<1>2. CASE ReadAllowance(s) \/ (\E yes \in BOOLEAN : Prompt(s, yes)) \/ Reload(s)
  <2>1. ops[s].pc \in {"allowance", "prompt", "saved"} /\ \A t \in Slots \ {s} : ops'[t] = ops[t]
    BY <1>0, <1>2 DEF ReadAllowance, Prompt, Reload, GivesUp, At, OpsOK, HandlersOK
  <2> QED BY <1>0, <2>1, OthersThere
<1>3. CASE \/ \E c \in Coins, a \in bound.amounts : PressDeposit(s, c, a)
           \/ \E c \in Coins, k \in {"withdraw", "penalty", "bypass", "execute"} : PressWithdrawal(s, k, c)
           \/ \E c \in Coins, k \in {"mode", "modes"}, on \in {0, 1} : PressEarning(s, k, c, on)
  <2>1. ops[s] = NoOp /\ \A t \in Slots \ {s} : ops'[t] = ops[t]
    BY <1>0, <1>3 DEF PressDeposit, PressWithdrawal, PressEarning, Free, OpsOK, HandlersOK
  <2> QED BY <1>0, <2>1, OthersThere
<1> QED BY <1>1, <1>2, <1>3

\* The handlers' own steps and the buttons show nothing new.
LEMMA HandlersRest ==
  ASSUME PageInv, Views, Rests, NEW s \in Slots,
         \/ \E failed \in BOOLEAN : Network(s, failed) \/ Check(s, failed) \/ Reloaded(s, failed)
         \/ ReadAllowance(s) \/ (\E yes \in BOOLEAN : Prompt(s, yes)) \/ Reload(s)
         \/ \E c \in Coins, a \in bound.amounts : PressDeposit(s, c, a)
         \/ \E c \in Coins, k \in {"withdraw", "penalty", "bypass", "execute"} : PressWithdrawal(s, k, c)
         \/ \E c \in Coins, k \in {"mode", "modes"}, on \in {0, 1} : PressEarning(s, k, c, on)
  PROVE  Rests'
<1> DEFINE o == ops[s]
<1>0. StillThere /\ PageShape(page) BY ThereByOthers DEF Views
<1>1. ASSUME UNCHANGED <<asked, active, bound, refreshes>>,
             \/ UNCHANGED page \/ page' = Finally(page, o)
             \/ \E k : page' = Busy(page, k)
      PROVE  Rests'
  <2>1. LooksLike(page', page) BY <1>0, <1>1, FlagLooks, PageField
  <2>2. SameShown BY <2>1 DEF SameShown, LooksLike, Looks
  <2> QED BY <1>0, <1>1, <2>2, RestKept
<1>2. ASSUME NEW failed \in BOOLEAN, Reloaded(s, failed) PROVE Rests'
  <2> DEFINE v == IF failed THEN Nothing ELSE o.of
             f == Finally(page, o)
  <2>1. /\ UNCHANGED <<asked, active, bound, refreshes>>
        /\ page' = [f EXCEPT !.sections["earning"] = v] \/ page' = page
    BY <1>2 DEF Reloaded
  <2>2. LooksLike(f, page) BY <1>0, FlagLooks
  <2>3. CASE page' = page BY <1>1, <2>1, <2>3
  <2>4. CASE page' = [f EXCEPT !.sections["earning"] = v]
    <3> HIDE DEF v, f
    <3>1. PageShape(f) BY <2>2 DEF LooksLike, Looks
    <3>2. Looks(page', f, [f.sections EXCEPT !["earning"] = v], f.limits, f.balances)
      BY <2>4, <3>1, SectionLooks
    <3>3. SameShown BY <2>2, <3>2 DEF SameShown, LooksLike, Looks
    <3> QED BY <1>0, <2>1, <3>3, RestKept
  <2> QED BY <2>1, <2>3, <2>4
<1>3. ASSUME NEW failed \in BOOLEAN, Network(s, failed) \/ Check(s, failed) PROVE Rests'
  BY <1>1, <1>3 DEF Network, Check, GivesUp
<1>4. ASSUME ReadAllowance(s) \/ (\E yes \in BOOLEAN : Prompt(s, yes)) \/ Reload(s) PROVE Rests'
  BY <1>1, <1>4 DEF ReadAllowance, Reload, Prompt, GivesUp, boundVars
<1>5. ASSUME \/ \E c \in Coins, a \in bound.amounts : PressDeposit(s, c, a)
             \/ \E c \in Coins, k \in {"withdraw", "penalty", "bypass", "execute"} : PressWithdrawal(s, k, c)
             \/ \E c \in Coins, k \in {"mode", "modes"}, on \in {0, 1} : PressEarning(s, k, c, on)
      PROVE  Rests'
  BY <1>1, <1>5 DEF PressDeposit, PressWithdrawal, PressEarning
<1> QED BY <1>2, <1>3, <1>4, <1>5

\* Neither do the sections, nor a sweep before it is mined.
LEMMA QuietRest ==
  ASSUME PageInv, Views, Rests,
         \/ AskAddress \/ PressRefresh
         \/ \E r \in local, failed \in BOOLEAN : AnswerSection(r, failed)
         \/ \E r \in refreshes, failed \in BOOLEAN : Look(r, failed)
         \/ \E r \in refreshes, yes \in BOOLEAN : SweepPrompt(r, yes)
         \/ \E v \in Vaults, c \in Coins : Keeper(v, c)
  PROVE  Rests'
<1>0. StillThere /\ PageShape(page)
  <2>1. StillThere BY ThereByItself
  <2> QED BY <2>1 DEF Views
<1>1. UNCHANGED <<asked, active, bound>>
  BY DEF AskAddress, PressRefresh, AnswerSection, Look, SweepPrompt, Keeper, boundVars
<1>2. refreshes # {} => refreshes' # {}
  <2>1. CASE AskAddress \/ PressRefresh BY <2>1 DEF AskAddress, PressRefresh, With
  <2>2. CASE \E r \in local, failed \in BOOLEAN : AnswerSection(r, failed) BY <2>2 DEF AnswerSection
  <2>3. CASE \/ \E r \in refreshes, failed \in BOOLEAN : Look(r, failed)
             \/ \E r \in refreshes, yes \in BOOLEAN : SweepPrompt(r, yes)
    <3>1. \E r, q : refreshes' = Replaced(r, q)
      BY <2>3 DEF Look, SweepPrompt
    <3>2. PICK r, q : refreshes' = Replaced(r, q) BY <3>1
    <3> QED BY <3>2 DEF Replaced
  <2>4. CASE \E v \in Vaults, c \in Coins : Keeper(v, c)
    <3>1. PICK v, c : refreshes' = Gone(refreshes, v, c) BY <2>4 DEF Keeper
    <3> QED BY <3>1 DEF Gone
  <2> QED BY <2>1, <2>2, <2>3, <2>4
<1>3. SameShown
  <2>1. CASE UNCHANGED page BY <2>1 DEF SameShown
  <2>2. ASSUME NEW x, NEW v, page' = [page EXCEPT !.sections[x] = v] PROVE SameShown
    <3>1. Looks(page', page, [page.sections EXCEPT ![x] = v], page.limits, page.balances)
      BY <1>0, <2>2, SectionLooks
    <3> QED BY <3>1 DEF SameShown, Looks
  <2>3. ASSUME NEW r \in local, NEW failed \in BOOLEAN, AnswerSection(r, failed) PROVE SameShown
    <3> DEFINE v == IF failed THEN Nothing ELSE r.of
    <3>1. page' = [page EXCEPT !.sections[r.what] = v] BY <2>3 DEF AnswerSection
    <3> HIDE DEF v
    <3> QED BY <2>2, <3>1
  <2> QED BY <2>1, <2>3 DEF AskAddress, PressRefresh, Look, SweepPrompt, Keeper
<1> QED BY <1>0, <1>1, <1>2, <1>3, RestKept

\* A remount begins a refresh; so does every read that is under way when it ends.
LEMMA RenderRest == ASSUME PageInv, Views, Rests, Render PROVE Rests'
<1>1. /\ UNCHANGED <<asked, active, bound>> /\ page' = Mounted(page, active)
      /\ refreshes' = With(refreshes, active)
  BY DEF Render, Remounted, boundVars
<1>2. /\ page'.committed = page.committed /\ page'.disordered = page.disordered
      /\ page'.blind = page.blind /\ page'.limits = page.limits /\ page'.balances = page.balances
  BY <1>1, MountedShows DEF Views
<1>3. StillThere BY ThereByItself
<1>4. \A x : InSight(x)' <=> InSight(x)
  BY <1>1, <1>2, SightKept
<1>5. LimitsAhead => LimitsAhead'
  BY <1>3 DEF LimitsAhead, StillThere
<1>6. "balances" \in bound'.reads => BalancesAhead'
  <2>1. "balances" \in bound'.reads => refreshes' # {}
    BY <1>1 DEF With
  <2> QED BY <2>1 DEF BalancesAhead
<1> QED BY <1>2, <1>4, <1>5, <1>6 DEF Rests

LEMMA SweepMinedRest ==
  ASSUME PageInv, Views, Rests, NEW r \in refreshes, SweepMined(r)
  PROVE  Rests'
<1>0. AskedOK /\ PageShape(page) BY DEF PageInv, Views
<1>1. /\ UNCHANGED <<active, bound>>
      /\ Touch(page, r.of, FALSE) \/ UNCHANGED <<page, asked>>
  BY DEF SweepMined, boundVars
<1>2. refreshes' # {}
  <2>1. \/ \E c : refreshes' = Gone(Replaced(r, NextCoin(r)), r.of, c)
        \/ refreshes' = Replaced(r, Aborted(r))
    BY DEF SweepMined
  <2> QED BY <2>1 DEF Gone, Replaced
<1>3. StillThere
  BY ThereByItself
<1>4. CASE UNCHANGED <<page, asked>>
  BY <1>1, <1>2, <1>3, <1>4, RestKept DEF SameShown
<1>5. CASE Touch(page, r.of, FALSE)
  <2>1. Looks(page', page, page.sections, StaleIf(page.limits, FALSE, r.of),
              StaleIf(page.balances, TRUE, r.of))
    BY <1>0, <1>5, TouchLooks
  <2>2. InSight("limits") => InSight("limits")'
    BY <1>0, <1>1, <1>5, TouchSight
  <2>3. LimitsAhead => LimitsAhead'
    BY <1>3 DEF LimitsAhead, StillThere
  <2>4. BalancesAhead'
    BY <1>2 DEF BalancesAhead
  <2> QED BY <1>1, <2>1, <2>2, <2>3, <2>4 DEF Rests, Looks
<1> QED BY <1>1, <1>4, <1>5

LEMMA AskBalancesRest ==
  ASSUME PageInv, Views, Rests, NEW r \in refreshes, AskBalances(r)
  PROVE  Rests'
<1>1. /\ UNCHANGED <<page, active, bound>> /\ asked' = Append(asked, Question("balances", 0))
  BY DEF AskBalances, boundVars
<1>2. StillThere
  BY ThereByItself
<1>3. AskedOK BY DEF PageInv
<1>4. InSight("balances")' /\ \A x : x # "balances" /\ Shown(x)' = Shown(x) /\ InSight(x) => InSight(x)'
  BY <1>1, <1>3, AskedSight
<1>5. Shown("limits")' = Shown("limits") BY <1>1 DEF Shown
<1>6. InSight("limits") => InSight("limits")' BY <1>4, <1>5
<1>7. LimitsAhead => LimitsAhead'
  BY <1>2 DEF LimitsAhead, StillThere
<1> QED BY <1>1, <1>4, <1>6, <1>7 DEF Rests

LEMMA AskLimitsRest ==
  ASSUME PageInv, Views, Rests, NEW s \in Slots, AskLimits(s)
  PROVE  Rests'
<1>1. /\ UNCHANGED <<page, active, bound, refreshes>> /\ asked' = Append(asked, Question("limits", s))
      /\ ops[s].pc \in {"who", "who2"}
      /\ ops' = [ops EXCEPT ![s].pc = IF @ = "who" THEN "limits" ELSE "limits2"]
  BY DEF AskLimits, boundVars, At
<1>2. AskedOK /\ OpsOK BY DEF PageInv
<1>3. InSight("limits")' /\ \A x : x # "limits" /\ Shown(x)' = Shown(x) /\ InSight(x) => InSight(x)'
  BY <1>1, <1>2, AskedSight
<1>4. Shown("balances")' = Shown("balances") BY <1>1 DEF Shown
<1>5. InSight("balances") => InSight("balances")' BY <1>3, <1>4
<1>6. BalancesAhead => BalancesAhead'
  <2> DEFINE o == ops[s]
             x == IF o.pc = "who" THEN "limits" ELSE "limits2"
  <2>1. OpShape(o)
    BY <1>1, <1>2 DEF OpsOK, HandlersOK, OpOK, NoOp
  <2>2. ops' = [ops EXCEPT ![s] = [o EXCEPT !.pc = x]]
    BY <1>1
  <2>3. o.pc = "who" => x = "limits" OBVIOUS
  <2> HIDE DEF x
  <2>4. [o EXCEPT !.pc = x].pc = x BY <2>1, Moved
  <2>5. ops'[s].pc = x /\ \A t \in Slots \ {s} : ops'[t] = ops[t]
    BY <1>2, <2>2, <2>4 DEF OpsOK, HandlersOK
  <2>6. ASSUME NEW t \in Slots, ops[t].pc \in {"who", "limits"} PROVE ops'[t].pc \in {"who", "limits"}
    BY <1>1, <2>3, <2>5, <2>6
  <2> QED BY <1>1, <2>6 DEF BalancesAhead
<1> QED BY <1>1, <1>3, <1>5, <1>6 DEF Rests

LEMMA SelectRest ==
  ASSUME PageInv, Views, Rests, NEW s \in Slots, NEW v \in Vaults, SelectVault(s, v)
  PROVE  Rests'
<1>1. /\ page' = page /\ ops' = [i \in Slots |->
                 IF i = s THEN Op("select", "who", v, Nothing, 0)
                 ELSE IF ops[i] # NoOp /\ ops[i].kind = "deposit" /\ ops[i].pc = "network"
                 THEN [ops[i] EXCEPT !.excused = TRUE] ELSE ops[i]]
  BY DEF SelectVault
<1>2. ops'[s].pc = "who" BY <1>1 DEF Op
<1>3. LimitsAhead' /\ BalancesAhead'
  BY <1>2 DEF LimitsAhead, BalancesAhead
<1> QED BY <1>1, <1>3 DEF Rests

\* The page's own transaction dates what was read, and its handler asks again.
LEMMA MinedRest ==
  ASSUME PageInv, Views, Switches, Rests, NEW s \in Slots, NEW refused \in BOOLEAN, Mined(s, refused)
  PROVE  Rests'
<1> DEFINE o == ops[s]
           tx == Head(o.txs)
           more == Tail(o.txs)
           next == IF more # <<>> THEN "prompt" ELSE AfterTransactions(o)
           p == [[o EXCEPT !.txs = more] EXCEPT !.pc = next]
           told == {"deposit", "withdraw", "penalty", "execute"}
<1>0. OpsOK /\ AskedOK /\ PageShape(page) BY DEF PageInv, Views
<1>1. /\ o.pc = "mine" /\ UNCHANGED <<active, refreshes, bound>>
      /\ \/ page' = Finally(page, o) /\ UNCHANGED asked /\ ops' = [ops EXCEPT ![s] = NoOp]
         \/ /\ IF tx.call \in told THEN Touch(page, o.of, TRUE) ELSE UNCHANGED <<page, asked>>
            /\ ops' = [i \in Slots |->
                        IF i = s THEN IF next = "end" THEN NoOp ELSE p
                        ELSE IF tx.call = "mode" /\ ops[i] # NoOp /\ ops[i].of = o.of
                        THEN [ops[i] EXCEPT !.crossed = TRUE] ELSE ops[i]]
  BY DEF Mined, At, GivesUp, Effect
<1>2. OpOK(o) /\ InFlight(o) /\ o # NoOp
  <2>1. o.pc = "mine" BY <1>1
  <2>2. o = NoOp \/ OpOK(o) BY <1>0 DEF OpsOK, HandlersOK
  <2> HIDE DEF o
  <2> QED BY <2>1, <2>2 DEF NoOp, InFlight
<1>3. StillThere
  <2>1. CASE ops' = [ops EXCEPT ![s] = NoOp]
    <3>1. \A t \in Slots \ {s} : ops'[t] = ops[t] BY <1>0, <2>1 DEF OpsOK, HandlersOK
    <3> QED BY <1>0, <1>1, <3>1, OthersThere
  <2>2. CASE \A t \in Slots \ {s} : ops'[t] = ops[t] \/
                (ops[t] # NoOp /\ ops'[t] = [ops[t] EXCEPT !.crossed = TRUE])
    <3>1. ASSUME NEW t \in Slots, t # s PROVE ops'[t].pc = ops[t].pc
      <4>1. CASE ops'[t] = ops[t] BY <4>1
      <4>2. CASE ops[t] # NoOp /\ ops'[t] = [ops[t] EXCEPT !.crossed = TRUE]
        <5>1. OpShape(ops[t]) BY <1>0, <4>2 DEF OpsOK, HandlersOK, OpOK
        <5>2. Stays([ops[t] EXCEPT !.crossed = TRUE], ops[t]) BY <5>1, PassesField
        <5> QED BY <4>2, <5>2 DEF Stays, Passes
      <4> QED BY <2>2, <3>1, <4>1, <4>2
    <3> QED BY <1>1, <3>1 DEF StillThere
  <2>3. ops' = [ops EXCEPT ![s] = NoOp] \/
           \A t \in Slots \ {s} : ops'[t] = ops[t] \/
                (ops[t] # NoOp /\ ops'[t] = [ops[t] EXCEPT !.crossed = TRUE])
    BY <1>1
  <2> QED BY <2>1, <2>2, <2>3
<1>4. CASE (page' = Finally(page, o) \/ UNCHANGED page) /\ UNCHANGED asked
  <2>1. LooksLike(page', page) BY <1>0, <1>4, FlagLooks, PageField
  <2>2. SameShown BY <2>1 DEF SameShown, LooksLike, Looks
  <2> QED BY <1>1, <1>3, <1>4, <2>2, RestKept
<1>5. CASE /\ tx.call \in told /\ Touch(page, o.of, TRUE)
           /\ ops'[s] = IF next = "end" THEN NoOp ELSE p
  <2>1. more = <<>> /\ o.kind \in told
    <3> DEFINE txs == o.txs
    <3>1. CASE o.kind = "deposit"
      <4> DEFINE d == Tx("deposit", o, o.coin)
                 a == [call |-> "approve", coin |-> o.coin, amount |-> o.amount]
                 r == [call |-> "approve", coin |-> o.coin, amount |-> 0]
      <4>1. txs \in {<<d>>, <<a, d>>, <<r, a, d>>}
        BY <1>2, <3>1 DEF OpOK, DepositTxs
      <4>2. a.call \notin told /\ r.call \notin told OBVIOUS
      <4>3. Head(txs).call \in told BY <1>5
      <4> HIDE DEF d, a, r, o, txs
      <4>4. txs = <<d>>
        BY <4>1, <4>2, <4>3
      <4>5. Tail(txs) = <<>> BY <4>4
      <4> QED BY <3>1, <4>5 DEF txs
    <3>2. CASE o.kind # "deposit"
      <4>1. SendsOwn(o) /\ txs \in Seq(OtherTx) /\ txs # <<>>
        BY <1>2, <3>2 DEF Switches, SwitchOK, OpOK
      <4>2. Head(txs) = txs[1] /\ 1 \in DOMAIN txs BY <4>1, RestOfRow
      <4>3. o.kind \notin SwitchKinds
        BY <1>5, <4>1, <4>2 DEF SendsOwn
      <4> QED BY <1>5, <4>1, <4>3 DEF SendsOwn
    <3> QED BY <3>1, <3>2
  <2>2. next = "who"
    BY <2>1 DEF AfterTransactions
  <2>3. ops'[s].pc = "who"
    <3>1. ops'[s] = p BY <1>5, <2>2
    <3>2. OpShape(o) BY <1>2 DEF OpOK
    <3> DEFINE a == [o EXCEPT !.txs = more]
    <3>3. p = [a EXCEPT !.pc = next] OBVIOUS
    <3> HIDE DEF o, more, next, p
    <3>4. OpShape(a) BY <3>2, PassesField DEF Passes
    <3> HIDE DEF a
    <3>5. [a EXCEPT !.pc = next].pc = next BY <3>4, Moved
    <3> QED BY <2>2, <3>1, <3>3, <3>5
  <2>4. LimitsAhead' /\ BalancesAhead'
    BY <2>3 DEF LimitsAhead, BalancesAhead
  <2>5. page'.committed = page.committed /\ page'.blind = page.blind
    <3>1. Looks(page', page, page.sections, StaleIf(page.limits, TRUE, o.of),
                StaleIf(page.balances, TRUE, o.of))
      BY <1>0, <1>5, TouchLooks
    <3> QED BY <3>1 DEF Looks
  <2> QED BY <2>4, <2>5 DEF Rests
<1> HIDE DEF o, tx, p, next, told
<1> QED BY <1>1, <1>4, <1>5

\* An answer shows what it was asked of, unless it was overtaken or failed.
LEMMA AnswerBalancesRest ==
  ASSUME PageInv, Views, Rests, NEW i \in DOMAIN asked, NEW failed \in BOOLEAN, AnswerBalances(i, failed)
  PROVE  Rests'
<1> DEFINE d == Disorder(page, asked[i], failed)
           b == IF failed THEN NoBalances ELSE [of |-> asked[i].of, fresh |-> asked[i].fresh]
<1>0. AskedOK /\ PageShape(page) /\ i \in 1 .. Len(asked) BY DEF PageInv, Views, AskedOK
<1>1. /\ asked[i].what = "balances" /\ asked' = Answered(i)
      /\ UNCHANGED <<active, refreshes, ops, bound>>
      /\ page' = [d EXCEPT !.balances = b]
  BY DEF AnswerBalances
<1>2. /\ PageShape(d) /\ d.screen = page.screen /\ d.committed = page.committed
      /\ d.limits = page.limits
      /\ d.disordered = (page.disordered \/ asked[i].late) /\ d.blind = (page.blind \/ failed)
  BY <1>0, DisorderShows
<1> HIDE DEF d
<1>3. Looks(page', d, d.sections, d.limits, b)
  <2> HIDE DEF b
  <2> QED BY <1>1, <1>2, PageField
<1>4. /\ page'.screen = page.screen /\ page'.committed = page.committed /\ page'.limits = page.limits
      /\ page'.balances = b
      /\ page'.disordered # TRUE => page.disordered # TRUE /\ asked[i].late # TRUE
      /\ page'.blind # TRUE => page.blind # TRUE /\ ~failed
  BY <1>2, <1>3 DEF Looks
<1>5. InSight("limits") => InSight("limits")'
  <2>1. Shown("limits")' = Shown("limits") BY <1>4 DEF Shown
  <2> QED BY <1>0, <1>1, <2>1, AnsweredSight
<1>6. ~failed /\ asked[i].late # TRUE /\ InSight("balances") => InSight("balances")'
  <2>1. ~failed => Shown("balances")' = [of |-> asked[i].of, fresh |-> asked[i].fresh]
    BY <1>4 DEF Shown
  <2> QED BY <1>0, <1>1, <2>1, AnsweredSight
<1>7. (LimitsAhead => LimitsAhead') /\ (BalancesAhead => BalancesAhead')
  BY <1>1, <1>4 DEF LimitsAhead, BalancesAhead
<1> QED BY <1>1, <1>4, <1>5, <1>6, <1>7 DEF Rests

LEMMA AnswerLimitsRest ==
  ASSUME PageInv, Views, Rests, NEW i \in DOMAIN asked, NEW failed \in BOOLEAN, AnswerLimits(i, failed)
  PROVE  Rests'
<1> DEFINE s == asked[i].op
           o == ops[s]
           q == IF Again(o) THEN [o EXCEPT !.pc = "who2"] ELSE NoOp
           now == [ops EXCEPT ![s] = q]
           back == ~failed /\ ~page.committed
           hidden == failed /\ page.committed
           d == Disorder(page, asked[i], failed)
           c == ~failed
           l == IF failed THEN [of |-> Nothing, fresh |-> TRUE]
                ELSE [of |-> asked[i].of, fresh |-> asked[i].fresh]
           p == [[d EXCEPT !.committed = c] EXCEPT !.limits = l]
<1>0. AskedOK /\ OpsOK /\ PageShape(page) /\ i \in 1 .. Len(asked) BY DEF PageInv, Views, AskedOK
<1>1. /\ asked[i].what = "limits" /\ asked' = Answered(i) /\ UNCHANGED <<active, bound>>
      /\ IF back \/ hidden THEN page' = Mounted(p, active) /\ ops' = Unmounted(now)
                            ELSE (page' = p \/ page' = Finally(p, o)) /\ ops' = now
      /\ refreshes' = IF ~failed /\ (back \/ o.pc = "limits") THEN With(refreshes, active) ELSE refreshes
  BY DEF AnswerLimits
<1>2. s \in Slots /\ Waits(o) BY <1>0, <1>1 DEF AskedOK
<1>3. /\ PageShape(d) /\ d.screen = page.screen /\ d.balances = page.balances
      /\ d.disordered = (page.disordered \/ asked[i].late) /\ d.blind = (page.blind \/ failed)
  BY <1>0, DisorderShows
<1>4. /\ PageShape(p) /\ p.screen = page.screen /\ p.committed = c /\ p.limits = l
      /\ p.balances = page.balances /\ p.disordered = d.disordered /\ p.blind = d.blind
  <2> HIDE DEF d, c, l
  <2> DEFINE e == [d EXCEPT !.committed = c]
  <2>1. Knows(e, d, d.screen, c, d.disordered, d.blind) BY <1>3, PageFlag
  <2> HIDE DEF e
  <2>3. Looks([e EXCEPT !.limits = l], e, e.sections, l, e.balances) BY <2>1, PageField DEF Knows
  <2>4. [e EXCEPT !.limits = l] = p BY DEF e
  <2> QED BY <1>3, <2>1, <2>3, <2>4 DEF Knows, Looks
<1> HIDE DEF p
<1>5. /\ page'.committed = c /\ page'.limits = l /\ page'.balances = page.balances
      /\ page'.disordered = d.disordered /\ page'.blind = d.blind
      /\ ~(back \/ hidden) => page'.screen = page.screen
  <2> HIDE DEF c, l, d, back, hidden, o, now
  <2>1. CASE page' = Mounted(p, active) /\ (back \/ hidden)
    BY <1>4, <2>1, MountedShows
  <2>2. CASE page' = p \/ page' = Finally(p, o)
    <3>1. LooksLike(page', p) BY <1>4, <2>2, FlagLooks, PageField
    <3> QED BY <1>4, <3>1 DEF LooksLike, Looks
  <2> QED BY <1>1, <2>1, <2>2
<1>6. /\ page'.disordered # TRUE => page.disordered # TRUE /\ asked[i].late # TRUE
      /\ page'.blind # TRUE => page.blind # TRUE /\ ~failed
  BY <1>3, <1>5
<1>7. SUFFICES ASSUME page'.blind # TRUE PROVE Rests'
  BY DEF Rests
<1>8. ~failed /\ page.blind # TRUE /\ page'.committed = TRUE
  BY <1>5, <1>6, <1>7
<1>9. ~back /\ ~hidden
  <2>1. page.committed = TRUE BY <1>8 DEF Rests
  <2> QED BY <1>8, <2>1
<1>10. ops' = now /\ page'.screen = page.screen
  BY <1>1, <1>5, <1>9
<1>11. \A t \in Slots \ {s} : ops'[t] = ops[t]
  BY <1>0, <1>2, <1>10 DEF OpsOK, HandlersOK
<1>12. InSight("balances") => InSight("balances")'
  <2>1. Shown("balances")' = Shown("balances") BY <1>5 DEF Shown
  <2> QED BY <1>0, <1>1, <2>1, AnsweredSight
<1>13. asked[i].late # TRUE /\ InSight("limits") => InSight("limits")'
  <2>1. Shown("limits")' = [of |-> asked[i].of, fresh |-> asked[i].fresh]
    BY <1>5, <1>8 DEF Shown
  <2> QED BY <1>0, <1>1, <2>1, AnsweredSight
<1>14. LimitsAhead => LimitsAhead'
  BY <1>2, <1>11 DEF LimitsAhead, Waits
<1>15. BalancesAhead /\ "balances" \in bound.reads => BalancesAhead'
  <2>1. CASE refreshes # {}
    BY <1>1, <2>1 DEF BalancesAhead, With
  <2>2. CASE page.screen # active
    BY <1>1, <1>10, <2>2 DEF BalancesAhead
  <2>3. ASSUME NEW t \in Slots, ops[t].pc \in {"who", "limits"}, "balances" \in bound.reads
        PROVE  BalancesAhead'
    <3>1. CASE t # s BY <1>11, <2>3, <3>1 DEF BalancesAhead
    <3>2. CASE t = s
      <4>1. o.pc = "limits" BY <1>2, <2>3, <3>2 DEF Waits
      <4>2. refreshes' # {} BY <1>1, <1>8, <2>3, <4>1 DEF With
      <4> QED BY <4>2 DEF BalancesAhead
    <3> QED BY <3>1, <3>2
  <2> QED BY <2>1, <2>2, <2>3 DEF BalancesAhead
<1> QED BY <1>1, <1>6, <1>8, <1>12, <1>13, <1>14, <1>15 DEF Rests

LEMMA RestsStep ==
  ASSUME PageInv, Views, Switches, Rests, [PageNext]_pageVars
  PROVE  Rests'
<1>1. CASE UNCHANGED pageVars
  <2>1. SameShown /\ StillThere /\ UNCHANGED <<asked, active, bound, refreshes>>
    BY <1>1 DEF pageVars, SameShown, StillThere, boundVars
  <2> QED BY <2>1, RestKept
<1>2. CASE PageWorks
  <2>1. ASSUME NEW s \in Slots,
               \/ ReadAllowance(s) \/ Reload(s)
               \/ \E failed \in BOOLEAN : Network(s, failed) \/ Check(s, failed) \/ Reloaded(s, failed)
        PROVE  Rests'
    BY <2>1, HandlersRest
  <2>2. ASSUME NEW s \in Slots, AskLimits(s) PROVE Rests'
    BY <2>2, AskLimitsRest
  <2>3. ASSUME NEW s \in Slots, NEW failed \in BOOLEAN, Mined(s, failed) PROVE Rests'
    BY <2>3, MinedRest
  <2>4. ASSUME NEW i \in DOMAIN asked, NEW failed \in BOOLEAN,
               AnswerBalances(i, failed) \/ AnswerLimits(i, failed) PROVE Rests'
    BY <2>4, AnswerBalancesRest, AnswerLimitsRest
  <2>5. ASSUME NEW r \in refreshes, SweepMined(r) \/ AskBalances(r) PROVE Rests'
    BY <2>5, SweepMinedRest, AskBalancesRest
  <2>6. CASE Render BY <2>6, RenderRest
  <2>7. ASSUME \/ AskAddress
               \/ \E r \in local, failed \in BOOLEAN : AnswerSection(r, failed)
               \/ \E r \in refreshes, failed \in BOOLEAN : Look(r, failed)
        PROVE Rests'
    BY <2>7, QuietRest
  <2> QED BY <1>2, <2>1, <2>2, <2>3, <2>4, <2>5, <2>6, <2>7 DEF PageWorks
<1>3. CASE Others
  <2>1. ASSUME \/ PressRefresh \/ \E v \in Vaults, c \in Coins : Keeper(v, c)
               \/ \E r \in refreshes, yes \in BOOLEAN : SweepPrompt(r, yes)
        PROVE  Rests'
    BY <2>1, QuietRest
  <2>2. ASSUME NEW s \in Slots,
               \/ \E yes \in BOOLEAN : Prompt(s, yes)
               \/ \E c \in Coins, a \in bound.amounts : PressDeposit(s, c, a)
               \/ \E c \in Coins, k \in {"withdraw", "penalty", "bypass", "execute"} :
                     PressWithdrawal(s, k, c)
               \/ \E c \in Coins, k \in {"mode", "modes"}, on \in {0, 1} : PressEarning(s, k, c, on)
        PROVE  Rests'
    BY <2>2, HandlersRest
  <2>3. ASSUME NEW s \in Slots, NEW v \in Vaults, SelectVault(s, v) PROVE Rests'
    BY <2>3, SelectRest
  <2> QED BY <1>3, <2>1, <2>2, <2>3 DEF Others
<1> QED BY <1>1, <1>2, <1>3 DEF PageNext

LEMMA RestsBegin == PageInit => Rests
<1> SUFFICES ASSUME PageInit PROVE Rests
  OBVIOUS
<1> DEFINE l == [of |-> Own, fresh |-> TRUE]
           p == [screen |-> Own, committed |-> TRUE, sections |-> {}, busy |-> {},
                 limits |-> [of |-> Own, fresh |-> TRUE],
                 balances |-> [of |-> Nothing, fresh |-> TRUE],
                 disordered |-> FALSE, blind |-> FALSE]
<1>1. PageShape(p) /\ p.committed = TRUE /\ p.limits = l BY DEF PageShape
<1>2. page = Mounted(p, Own) /\ active = Own /\ asked = <<>> /\ refreshes = With({}, Own)
  BY DEF PageInit
<1> HIDE DEF p
<1>3. page.committed = TRUE /\ page.limits = l
  BY <1>1, <1>2, MountedShows
<1>4. InSight("limits")
  BY <1>2, <1>3 DEF InSight, ShownGood, Shown
<1>5. "balances" \in bound.reads => BalancesAhead
  BY <1>2 DEF BalancesAhead, With
<1> QED BY <1>3, <1>4, <1>5 DEF Rests

\* When nothing is under way, the page shows the limits and the balances of
\* the selected vault, not older than its own last transaction there, unless
\* a read failed or an answer was overtaken: for any number of reads and
\* handlers, and however the selection changed meanwhile.
THEOREM RestsProof == PageSpec => []RestsOnTheSelectedVault
<1>1. PageInit => ViewsInv /\ Switches /\ Rests
  BY ViewsBegin, SwitchesBegin, RestsBegin
<1>2. ViewsInv /\ Switches /\ Rests /\ [PageNext]_pageVars => (ViewsInv /\ Switches /\ Rests)'
  BY ViewsInvStep, SwitchesStep, RestsStep DEF ViewsInv
<1>3. ViewsInv /\ Rests => RestsOnTheSelectedVault
  <2> SUFFICES ASSUME Rests, "balances" \in bound.reads, AtRest, ~page.disordered, ~page.blind
               PROVE  /\ page.committed
                      /\ page.limits = [of |-> active, fresh |-> TRUE]
                      /\ page.balances = [of |-> active, fresh |-> TRUE]
    BY DEF RestsOnTheSelectedVault
  <2>1. page.disordered # TRUE /\ page.blind # TRUE OBVIOUS
  <2>2. \A s \in Slots : ops[s].pc = "none" BY DEF AtRest, NoOp
  <2>3. ~LimitsAhead /\ ~BalancesAhead BY <2>2 DEF LimitsAhead, BalancesAhead, AtRest
  <2>4. page.committed = TRUE /\ InSight("limits") /\ InSight("balances")
    BY <2>1, <2>3 DEF Rests
  <2>5. DOMAIN asked = {} BY DEF AtRest
  <2>6. ShownGood("limits") /\ ShownGood("balances")
    BY <2>4, <2>5 DEF InSight, Late, LastGood
  <2> QED BY <2>4, <2>6 DEF ShownGood, Shown
<1> QED BY <1>1, <1>2, <1>3, PTL DEF PageSpec
=============================================================================
