--------------------- MODULE RecoveryKeysHistory_proofs ---------------------
(***************************************************************************)
(* Proofs about the recovery keys, for any addresses and any timelock.     *)
(* Of RecoveryKeys: the type invariant is inductive as it stands, and that *)
(* recovery is final needs nothing but it and the guards.  Of its history, *)
(* replacing a recovery key: the inductive invariant says what the         *)
(* contract relies on and nowhere checks - a request on file waits from    *)
(* the last time the account key asked, a frozen account has a recovery    *)
(* key, and a proposal beside an active key was made under it.             *)
(***************************************************************************)
EXTENDS RecoveryKeysHistory, TLAPS

-----------------------------------------------------------------------------
(* The keys by themselves.                                                 *)

\* Initially nobody is protected, frozen or recovered.
LEMMA KeysInitType == now = 0 /\ KeysInit => KeysTypeOK
  BY KeysAssumption DEF KeysInit, KeysTypeOK, KeyChange

\* The six ways in which proposals and change requests come and go keep the
\* type: none of them touches what recovery wrote.
LEMMA KeyStepType ==
  ASSUME KeysTypeOK, NEW u \in Users, KeyStep(u), UNCHANGED now
  PROVE  KeysTypeOK'
<1> USE KeysAssumption DEF KeysTypeOK
<1>1. CASE \E key \in ColdKeys : SetRecoveryAddress(u, key)
  BY <1>1 DEF SetRecoveryAddress, MayPropose
<1>2. CASE \E key \in ColdKeys : AcceptRecoveryRole(u, key)
  BY <1>2 DEF AcceptRecoveryRole
<1>3. CASE \E key \in ColdKeys : UpdateRecoveryAddress(u, key)
  BY <1>3 DEF UpdateRecoveryAddress
<1>4. CASE \E key \in AskedKeys : RequestRecoveryAddressChange(u, key)
  <2>1. PICK key \in AskedKeys : RequestRecoveryAddressChange(u, key)
    BY <1>4
  <2>2. {[newKey |-> key, executeAfter |-> now + KeyChangeDelay]} \in SUBSET KeyChange
    BY DEF KeyChange
  <2> QED
    BY <2>1, <2>2 DEF RequestRecoveryAddressChange
<1>5. CASE CancelRecoveryKeyProposal(u)
  BY <1>5 DEF CancelRecoveryKeyProposal
<1>6. CASE ExecuteRecoveryAddressChange(u)
  <2>1. PICK change \in keyChange[u] :
           IF change.newKey = NoKey
           THEN recoveryKey' = [recoveryKey EXCEPT ![u] = NoKey] /\ UNCHANGED pendingKey
           ELSE pendingKey' = [pendingKey EXCEPT ![u] = change.newKey] /\ UNCHANGED recoveryKey
    BY <1>6 DEF ExecuteRecoveryAddressChange
  <2>2. change.newKey \in Users \cup {NoKey}
    BY <2>1 DEF KeyChange
  <2>3. /\ ~recovered[u]
        /\ keyChange' = [keyChange EXCEPT ![u] = {}]
        /\ UNCHANGED <<frozen, recovered, recoveredTo>>
    BY <1>6 DEF ExecuteRecoveryAddressChange, MayChangeKey
  <2>4. CASE change.newKey = NoKey
    BY <2>1, <2>3, <2>4
  <2>5. CASE change.newKey # NoKey
    BY <2>1, <2>2, <2>3, <2>5
  <2> QED
    BY <2>4, <2>5
<1>7. CASE \E by \in Users : CancelRecoveryAddressChange(u, by)
  BY <1>7 DEF CancelRecoveryAddressChange
<1>8. CASE \E by \in Users : Freeze(u, by)
  BY <1>8 DEF Freeze
<1>9. CASE Unfreeze(u)
  BY <1>9 DEF Unfreeze
<1> QED
  BY <1>1, <1>2, <1>3, <1>4, <1>5, <1>6, <1>7, <1>8, <1>9 DEF KeyStep

\* So does a recovery, first or repeated.
LEMMA RecoverKeysType ==
  ASSUME KeysTypeOK, NEW u \in Users, NEW newOwner \in Users,
         RecoverKeys(u, newOwner), UNCHANGED now
  PROVE  KeysTypeOK'
<1> USE KeysAssumption DEF KeysTypeOK, RecoverKeys, MayRecoverTo
<1>1. CASE recoveryKey[newOwner] = NoKey
  BY <1>1
<1>2. CASE recoveryKey[newOwner] # NoKey
  BY <1>2
<1> QED
  BY <1>1, <1>2

\* And so does every step.
LEMMA KeysTypeStep ==
  ASSUME KeysTypeOK, [KeysNext]_<<now, keyVars>>
  PROVE  KeysTypeOK'
<1>1. CASE KeysTick
  BY <1>1 DEF KeysTick, keyVars, KeysTypeOK
<1>2. CASE \E u \in Owners : KeyStep(u) /\ UNCHANGED now
  BY <1>2, KeyStepType, KeysAssumption
<1>3. CASE \E u, newOwner \in Users : RecoverKeys(u, newOwner) /\ UNCHANGED now
  BY <1>3, RecoverKeysType
<1>4. CASE UNCHANGED <<now, keyVars>>
  BY <1>4 DEF keyVars, KeysTypeOK
<1> QED
  BY <1>1, <1>2, <1>3, <1>4 DEF KeysNext

\* Every variable keeps its type, an account is recovered exactly when it has
\* another address to be at, and the key that took it there is never lost
\* (RecoverySystemModule).
THEOREM KeysTypeCorrect == KeysSpec => []KeysTypeOK
  BY KeysInitType, KeysTypeStep, PTL DEF KeysSpec

\* Only the account in question, or one recovered to it, is touched by a
\* recovery; every other call refuses a recovered account or leaves alone what
\* recovery wrote.
LEMMA FinalStep ==
  ASSUME KeysTypeOK, [KeysNext]_<<now, keyVars>>, NEW v \in Users, recovered[v]
  PROVE  /\ recovered'[v] /\ IsFrozen(v)'
         /\ recoveredTo'[v] = recoveredTo[v]
         /\ recoveryKey'[v] = recoveryKey[v]
<1> USE KeysAssumption DEF KeysTypeOK, IsFrozen
<1>1. CASE KeysTick
  BY <1>1 DEF KeysTick, keyVars
<1>2. CASE \E u \in Owners : KeyStep(u) /\ UNCHANGED now
  <2>1. PICK u \in Owners : KeyStep(u)
    BY <1>2
  <2>2. UNCHANGED <<recovered, recoveredTo>>
    BY <2>1 DEF KeyStep, SetRecoveryAddress, AcceptRecoveryRole, UpdateRecoveryAddress,
       RequestRecoveryAddressChange, CancelRecoveryKeyProposal,
       ExecuteRecoveryAddressChange, CancelRecoveryAddressChange, Freeze, Unfreeze
  <2>3. recoveryKey'[v] = recoveryKey[v]
    <3>1. CASE u = v
      BY <2>1, <3>1 DEF KeyStep, SetRecoveryAddress, AcceptRecoveryRole,
         UpdateRecoveryAddress, RequestRecoveryAddressChange, CancelRecoveryKeyProposal,
         ExecuteRecoveryAddressChange, MayChangeKey, CancelRecoveryAddressChange,
         Freeze, Unfreeze
    <3>2. CASE u # v
      BY <2>1, <3>2 DEF KeyStep, SetRecoveryAddress, AcceptRecoveryRole,
         UpdateRecoveryAddress, RequestRecoveryAddressChange, CancelRecoveryKeyProposal,
         ExecuteRecoveryAddressChange, CancelRecoveryAddressChange, Freeze, Unfreeze
    <3> QED
      BY <3>1, <3>2
  <2> QED
    BY <2>2, <2>3
<1>3. CASE \E u, newOwner \in Users : RecoverKeys(u, newOwner) /\ UNCHANGED now
  BY <1>3 DEF RecoverKeys, MayRecoverTo
<1>4. CASE UNCHANGED <<now, keyVars>>
  BY <1>4 DEF keyVars
<1> QED
  BY <1>1, <1>2, <1>3, <1>4 DEF KeysNext

\* Recovery is final, whatever calls follow it: the account stays disabled,
\* its funds go to one address only, and the key that recovered it keeps its
\* power (recoverOwnership, notRecovered).
THEOREM RecoveryFinalProof == KeysSpec => RecoveryIsFinal
<1>1. KeysTypeOK /\ [KeysNext]_<<now, keyVars>>
      => [\A u \in Users : recovered[u] =>
             /\ recovered'[u] /\ IsFrozen(u)'
             /\ recoveredTo'[u] = recoveredTo[u]
             /\ recoveryKey'[u] = recoveryKey[u]]_<<now, keyVars>>
  BY FinalStep
<1> QED
  BY <1>1, KeysTypeCorrect, PTL DEF KeysSpec, RecoveryIsFinal

-----------------------------------------------------------------------------
(* Replacing a recovery key.                                               *)

Request == [newKey : Users \cup {NoKey}, at : Nat]

\* A change on file is the one that was last asked for and not withdrawn, and
\* matures one timelock after that.
WaitsFromLastRequest ==
    \A u \in Users : \A change \in keyChange[u] : \E request \in asked[u] :
        /\ change.newKey = request.newKey
        /\ change.executeAfter = request.at + KeyChangeDelay

\* Only a protected account is ever frozen, so that no recovery can hand a
\* frozen account a key.
FrozenIsProtected == \A u \in Users : frozen[u] => recoveryKey[u] # NoKey

HistoryInv ==
    /\ KeysTypeOK /\ asked \in [Users -> SUBSET Request]
    /\ WaitsFromLastRequest /\ FrozenIsProtected /\ ProposedUnderProtection

\* What one step may do to the key variables of one account: nothing, one of
\* its own calls, its recovery, or its being the place another is recovered to.
Untouched(u) ==
    /\ recoveryKey'[u] = recoveryKey[u] /\ frozen'[u] = frozen[u]
    /\ recovered'[u] = recovered[u] /\ recoveredTo'[u] = recoveredTo[u]
    /\ keyChange'[u] = keyChange[u] /\ pendingKey'[u] = pendingKey[u]

Recovered(u) ==
    /\ recoveryKey[u] # NoKey /\ recoveryKey'[u] = recoveryKey[u]
    /\ recovered'[u] /\ frozen'[u] /\ keyChange'[u] = {} /\ pendingKey'[u] = NoKey

Haven(u) ==
    /\ \E v \in Users : recoveredTo'[v] = u
    /\ frozen'[u] = frozen[u] /\ keyChange'[u] = keyChange[u]
    /\ pendingKey'[u] = pendingKey[u]
    /\ recoveryKey[u] # NoKey => recoveryKey'[u] = recoveryKey[u]
    /\ recoveryKey[u] = NoKey => recoveryKey'[u] # NoKey

\* These cases are all there are.
LEMMA StepCases ==
  ASSUME KeysTypeOK, [KeysNext]_<<now, keyVars>>, NEW u \in Users
  PROVE  KeyStep(u) \/ Untouched(u) \/ Recovered(u) \/ Haven(u)
<1> USE KeysAssumption DEF KeysTypeOK
<1>1. CASE KeysTick \/ UNCHANGED <<now, keyVars>>
  BY <1>1 DEF KeysTick, keyVars, Untouched
<1>2. CASE \E v \in Owners : KeyStep(v) /\ UNCHANGED now
  <2>1. PICK v \in Owners : KeyStep(v)
    BY <1>2
  <2>2. CASE u # v
    <3>1. Untouched(u)
      BY <2>1, <2>2 DEF KeyStep, Untouched, SetRecoveryAddress, AcceptRecoveryRole,
         UpdateRecoveryAddress, RequestRecoveryAddressChange, CancelRecoveryKeyProposal,
         ExecuteRecoveryAddressChange, CancelRecoveryAddressChange, Freeze, Unfreeze
    <3> QED
      BY <3>1
  <2> QED
    BY <2>1, <2>2
<1>3. CASE \E v, newOwner \in Users : RecoverKeys(v, newOwner) /\ UNCHANGED now
  <2>1. PICK v \in Users, newOwner \in Users : RecoverKeys(v, newOwner)
    BY <1>3
  <2>2. CASE u = v
    BY <2>1, <2>2 DEF RecoverKeys, MayRecoverTo, Recovered
  <2>3. CASE u = newOwner /\ u # v
    BY <2>1, <2>3 DEF RecoverKeys, Haven
  <2>4. CASE u # newOwner /\ u # v
    BY <2>1, <2>4 DEF RecoverKeys, Untouched
  <2> QED
    BY <2>2, <2>3, <2>4
<1> QED
  BY <1>1, <1>2, <1>3 DEF KeysNext

\* The calls of an account's own, by what they do to it.
LEMMA KeyStepCases ==
  ASSUME KeysTypeOK, NEW u \in Users, KeyStep(u)
  PROVE  \/ ProposesOpenly(u)
         \/ \E key \in ColdKeys : AcceptRecoveryRole(u, key)
         \/ \E key \in ColdKeys : UpdateRecoveryAddress(u, key)
         \/ \E key \in AskedKeys : RequestRecoveryAddressChange(u, key)
         \/ CancelRecoveryKeyProposal(u)
         \/ ExecuteRecoveryAddressChange(u)
         \/ \E by \in Users : CancelRecoveryAddressChange(u, by)
         \/ \E by \in Users : Freeze(u, by)
         \/ Unfreeze(u)
  BY DEF KeyStep, ProposesOpenly

\* A place that was recovered to stays one.
LEMMA HavensStay ==
  ASSUME KeysTypeOK, [KeysNext]_<<now, keyVars>>, NEW u \in Users, u \in Havens
  PROVE  u \in Havens'
<1> USE KeysAssumption DEF KeysTypeOK
<1>1. PICK v \in Users : recoveredTo[v] = u
  BY DEF Havens
<1>2. recoveredTo'[v] = u
  <2>1. CASE KeysTick \/ UNCHANGED <<now, keyVars>>
    BY <1>1, <2>1 DEF KeysTick, keyVars
  <2>2. CASE \E w \in Owners : KeyStep(w) /\ UNCHANGED now
    BY <1>1, <2>2 DEF KeyStep, SetRecoveryAddress, AcceptRecoveryRole,
       UpdateRecoveryAddress, RequestRecoveryAddressChange, CancelRecoveryKeyProposal,
       ExecuteRecoveryAddressChange, CancelRecoveryAddressChange, Freeze, Unfreeze
  <2>3. CASE \E w, newOwner \in Users : RecoverKeys(w, newOwner) /\ UNCHANGED now
    BY <1>1, <2>3 DEF RecoverKeys, MayRecoverTo
  <2> QED
    BY <2>1, <2>2, <2>3 DEF KeysNext
<1> QED
  BY <1>2 DEF Havens

\* Whoever asks in a step asks for what is then on file, and nothing else.
LEMMA AsksEffect ==
  ASSUME HistoryInv, NEW u \in Users, NEW key \in AskedKeys, RequestRecoveryAddressChange(u, key)
  PROVE  /\ keyChange'[u] = {[newKey |-> key, executeAfter |-> now + KeyChangeDelay]}
         /\ Asks(u) = {[newKey |-> key, at |-> now]}
<1>1. \A k \in AskedKeys : RequestRecoveryAddressChange(u, k) =>
         keyChange'[u] = {[newKey |-> k, executeAfter |-> now + KeyChangeDelay]}
  BY DEF RequestRecoveryAddressChange, HistoryInv, KeysTypeOK
<1>2. \A k \in AskedKeys : RequestRecoveryAddressChange(u, k) => k = key
  <2> TAKE k \in AskedKeys
  <2> HAVE RequestRecoveryAddressChange(u, k)
  <2> DEFINE one == [newKey |-> k, executeAfter |-> now + KeyChangeDelay]
             other == [newKey |-> key, executeAfter |-> now + KeyChangeDelay]
  <2>1. one = other
    BY <1>1
  <2>2. one.newKey = k /\ other.newKey = key
    OBVIOUS
  <2> QED
    BY <2>1, <2>2
<1>3. {k \in AskedKeys : RequestRecoveryAddressChange(u, k)} = {key}
  BY <1>2
<1> QED
  BY <1>1, <1>3 DEF Asks

\* Only asking puts a change on file, and it waits from now.
LEMMA WaitsStep ==
  ASSUME HistoryInv, HistoryNext, NEW u \in Users,
         NEW change \in keyChange'[u]
  PROVE  \E request \in asked'[u] :
            /\ change.newKey = request.newKey
            /\ change.executeAfter = request.at + KeyChangeDelay
<1> USE KeysAssumption DEF HistoryInv
<1>1. asked'[u] = IF Asks(u) # {} THEN Asks(u) ELSE IF Settles(u) THEN {} ELSE asked[u]
  BY DEF HistoryNext
<1>2. ASSUME NEW key \in AskedKeys, RequestRecoveryAddressChange(u, key)
      PROVE  \E request \in asked'[u] :
                /\ change.newKey = request.newKey
                /\ change.executeAfter = request.at + KeyChangeDelay
  <2>1. /\ change = [newKey |-> key, executeAfter |-> now + KeyChangeDelay]
        /\ Asks(u) = {[newKey |-> key, at |-> now]}
    BY <1>2, AsksEffect
  <2>2. asked'[u] = {[newKey |-> key, at |-> now]}
    <3>1. Asks(u) # {}
      BY <2>1
    <3> QED
      BY <1>1, <2>1, <3>1
  <2> DEFINE request == [newKey |-> key, at |-> now]
  <2>3. request.newKey = key /\ request.at = now /\ request \in asked'[u]
    BY <2>2
  <2>4. change.newKey = key /\ change.executeAfter = now + KeyChangeDelay
    BY <2>1
  <2> QED
    BY <2>3, <2>4
<1>3. CASE ~\E key \in AskedKeys : RequestRecoveryAddressChange(u, key)
  <2>1. Asks(u) = {}
    BY <1>3 DEF Asks
  <2>2. ~Settles(u)
    BY DEF Settles, CancelRecoveryAddressChange, ExecuteRecoveryAddressChange, KeysTypeOK
  <2>3. KeyStep(u) \/ Untouched(u) \/ Recovered(u) \/ Haven(u)
    BY StepCases DEF HistoryNext
  <2>4. change \in keyChange[u]
    <3>1. CASE KeyStep(u)
      BY <1>3, <3>1 DEF KeyStep, KeysTypeOK, SetRecoveryAddress,
         AcceptRecoveryRole, UpdateRecoveryAddress, CancelRecoveryKeyProposal,
         ExecuteRecoveryAddressChange, CancelRecoveryAddressChange, Freeze, Unfreeze
    <3>2. CASE Untouched(u) \/ Recovered(u) \/ Haven(u)
      BY <3>2 DEF Untouched, Recovered, Haven
    <3> QED
      BY <2>3, <3>1, <3>2
  <2> QED
    BY <1>1, <2>1, <2>2, <2>4 DEF WaitsFromLastRequest
<1> QED
  BY <1>2, <1>3

\* A frozen account keeps its recovery key: the timelocked change that could
\* drop it refuses a frozen account.
LEMMA FrozenStep ==
  ASSUME HistoryInv, HistoryNext, NEW u \in Users, frozen'[u]
  PROVE  recoveryKey'[u] # NoKey
<1> USE KeysAssumption DEF HistoryInv, FrozenIsProtected
<1>1. KeyStep(u) \/ Untouched(u) \/ Recovered(u) \/ Haven(u)
  BY StepCases DEF HistoryNext
<1>2. CASE KeyStep(u)
  BY <1>2 DEF KeyStep, KeysTypeOK, SetRecoveryAddress, AcceptRecoveryRole,
     UpdateRecoveryAddress, RequestRecoveryAddressChange, CancelRecoveryKeyProposal,
     ExecuteRecoveryAddressChange, MayChangeKey, CancelRecoveryAddressChange, Freeze, Unfreeze
<1>3. CASE Untouched(u) \/ Recovered(u) \/ Haven(u)
  BY <1>3 DEF Untouched, Recovered, Haven
<1> QED
  BY <1>1, <1>2, <1>3

\* A proposal beside an active key was made under that key.
LEMMA ProposedStep ==
  ASSUME HistoryInv, HistoryNext, NEW u \in Users, u \notin Havens',
         recoveryKey'[u] # NoKey, pendingKey'[u] # NoKey
  PROVE  proposedUnder'[u] = recoveryKey'[u]
<1> USE KeysAssumption DEF HistoryInv
<1>1. u \notin Havens
  BY HavensStay DEF HistoryNext
<1>2. proposedUnder'[u] = IF ProposesOpenly(u) THEN NoKey
                          ELSE IF ProposesUnderKey(u) THEN recoveryKey[u]
                          ELSE proposedUnder[u]
  BY DEF HistoryNext
<1>3. ~ProposesOpenly(u)
  BY DEF ProposesOpenly, SetRecoveryAddress, MayPropose
<1>4. CASE ProposesUnderKey(u)
  <2>1. recoveryKey'[u] = recoveryKey[u]
    BY <1>4 DEF ProposesUnderKey, UpdateRecoveryAddress, ExecuteRecoveryAddressChange,
       KeysTypeOK
  <2> QED
    BY <1>2, <1>3, <1>4, <2>1
<1>5. CASE ~ProposesUnderKey(u)
  <2>1. KeyStep(u) \/ Untouched(u) \/ Recovered(u) \/ Haven(u)
    BY StepCases DEF HistoryNext
  <2>2. recoveryKey'[u] = recoveryKey[u] /\ pendingKey'[u] = pendingKey[u]
    <3>1. CASE KeyStep(u)
      BY <1>3, <1>5, <3>1, KeyStepCases DEF ProposesUnderKey, KeysTypeOK,
         AcceptRecoveryRole, RequestRecoveryAddressChange, CancelRecoveryKeyProposal,
         CancelRecoveryAddressChange, Freeze, Unfreeze
    <3>2. CASE Untouched(u)
      BY <3>2 DEF Untouched
    <3>3. ~Recovered(u) /\ ~Haven(u)
      BY DEF Recovered, Haven, Havens
    <3> QED
      BY <2>1, <3>1, <3>2, <3>3
  <2> QED
    BY <1>1, <1>2, <1>3, <1>5, <2>2 DEF ProposedUnderProtection
<1> QED
  BY <1>4, <1>5

\* Together with the types the three are kept by every step.
LEMMA HistoryInvStep ==
  ASSUME HistoryInv, [HistoryNext]_allVars
  PROVE  HistoryInv'
<1>1. CASE HistoryNext
  <2>1. KeysTypeOK'
    BY <1>1, KeysTypeStep DEF HistoryInv, HistoryNext
  <2>2. asked' \in [Users -> SUBSET Request]
    <3>1. \A u \in Users : Asks(u) \subseteq Request
      BY KeysAssumption DEF Asks, Request, HistoryInv, KeysTypeOK
    <3> QED
      BY <1>1, <3>1 DEF HistoryInv, HistoryNext
  <2>3. WaitsFromLastRequest'
    BY <1>1, WaitsStep DEF WaitsFromLastRequest
  <2>4. FrozenIsProtected'
    BY <1>1, FrozenStep DEF FrozenIsProtected
  <2>5. ProposedUnderProtection'
    BY <1>1, ProposedStep DEF ProposedUnderProtection
  <2> QED
    BY <2>1, <2>2, <2>3, <2>4, <2>5 DEF HistoryInv
<1>2. CASE UNCHANGED allVars
  BY <1>2 DEF allVars, keyVars, historyVars, HistoryInv, KeysTypeOK, WaitsFromLastRequest,
     FrozenIsProtected, ProposedUnderProtection, Havens
<1> QED
  BY <1>1, <1>2

\* Keys keep their type, a pending change waits the timelock from its last
\* request, and what is frozen or proposed under protection is protected
\* (RecoverySystemModule).
THEOREM HistoryInvariant == HistorySpec => []HistoryInv
<1>1. HistoryInit => HistoryInv
  BY KeysInitType DEF HistoryInit, KeysInit, HistoryInv, WaitsFromLastRequest,
     FrozenIsProtected, ProposedUnderProtection
<1> QED
  BY <1>1, HistoryInvStep, PTL DEF HistorySpec

\* What stands ready to replace an active recovery key was proposed under it,
\* for every account that nobody was recovered to (setRecoveryAddress).
THEOREM ProposedProof == HistorySpec => []ProposedUnderProtection
  BY HistoryInvariant, PTL DEF HistoryInv

\* An active key falls to nobody but itself before the notice is served.
LEMMA NoticeStep ==
  ASSUME HistoryInv, [HistoryNext]_allVars, NEW u \in Users,
         recoveryKey[u] # NoKey,
         recoveryKey'[u] = NoKey \/ pendingKey'[u] \notin {NoKey, pendingKey[u]},
         ~\E key \in ColdKeys : UpdateRecoveryAddress(u, key)
  PROVE  /\ ~frozen[u] /\ ~recovered[u] /\ keyChange'[u] = {}
         /\ \E request \in asked[u] :
               /\ now >= request.at + KeyChangeDelay
               /\ request.newKey = IF recoveryKey'[u] = NoKey THEN NoKey ELSE pendingKey'[u]
<1> USE KeysAssumption DEF HistoryInv, KeysTypeOK
<1>1. KeyStep(u) \/ Untouched(u) \/ Recovered(u) \/ Haven(u)
  <2>1. [KeysNext]_<<now, keyVars>>
    BY DEF HistoryNext, allVars
  <2> QED
    BY <2>1, StepCases
<1>2. ~Untouched(u) /\ ~Recovered(u) /\ ~Haven(u)
  BY DEF Untouched, Recovered, Haven
<1>3. ExecuteRecoveryAddressChange(u)
  BY <1>1, <1>2, KeyStepCases DEF ProposesOpenly, SetRecoveryAddress, MayPropose,
     AcceptRecoveryRole, RequestRecoveryAddressChange, CancelRecoveryKeyProposal,
     CancelRecoveryAddressChange, Freeze, Unfreeze
<1>4. PICK change \in keyChange[u] :
         /\ now >= change.executeAfter
         /\ change.newKey = IF recoveryKey'[u] = NoKey THEN NoKey ELSE pendingKey'[u]
  BY <1>3 DEF ExecuteRecoveryAddressChange, ServedTimelock, KeyChange
<1>5. ~frozen[u] /\ ~recovered[u] /\ keyChange'[u] = {}
  BY <1>3 DEF ExecuteRecoveryAddressChange, MayChangeKey
<1> QED
  BY <1>4, <1>5 DEF WaitsFromLastRequest

\* An active key falls only to itself or to the standing request of an account
\* that is not frozen, after the whole notice (executeRecoveryAddressChange).
THEOREM NoticeProof == HistorySpec => NoticeIsServed
<1>1. HistoryInv /\ [HistoryNext]_allVars
      => [\A u \in Users :
             (/\ recoveryKey[u] # NoKey
              /\ \/ recoveryKey'[u] = NoKey
                 \/ pendingKey'[u] \notin {NoKey, pendingKey[u]}
              /\ ~\E key \in ColdKeys : UpdateRecoveryAddress(u, key))
             => /\ ~frozen[u] /\ ~recovered[u] /\ keyChange'[u] = {}
                /\ \E request \in asked[u] :
                      /\ now >= request.at + KeyChangeDelay
                      /\ request.newKey = IF recoveryKey'[u] = NoKey THEN NoKey ELSE pendingKey'[u]
         ]_allVars
  BY NoticeStep
<1> QED
  BY <1>1, HistoryInvariant, PTL DEF HistorySpec, NoticeIsServed

\* In a step of a frozen account its account key changes nothing but to
\* withdraw.
LEMMA PowerlessStep ==
  ASSUME HistoryInv, [HistoryNext]_allVars, NEW u \in Users, frozen[u], frozen'[u]
  PROVE  /\ keyChange'[u] \in {keyChange[u], {}}
         /\ recoveryKey'[u] \in {recoveryKey[u], pendingKey[u]}
         /\ \/ pendingKey'[u] \in {pendingKey[u], NoKey}
            \/ \E key \in ColdKeys : UpdateRecoveryAddress(u, key)
<1> USE KeysAssumption DEF HistoryInv, KeysTypeOK
<1>1. KeyStep(u) \/ Untouched(u) \/ Recovered(u) \/ Haven(u)
  BY StepCases DEF HistoryNext, allVars
<1>2. recoveryKey[u] # NoKey
  BY DEF FrozenIsProtected
<1>3. CASE Untouched(u) \/ Recovered(u) \/ Haven(u)
  BY <1>2, <1>3 DEF Untouched, Recovered, Haven
<1>4. CASE KeyStep(u)
  <2>1. /\ ~ProposesOpenly(u) /\ ~ExecuteRecoveryAddressChange(u)
        /\ ~\E key \in AskedKeys : RequestRecoveryAddressChange(u, key)
    BY <1>2 DEF ProposesOpenly, SetRecoveryAddress, MayPropose, MayChangeKey,
       RequestRecoveryAddressChange, ExecuteRecoveryAddressChange
  <2> QED
    BY <1>4, <2>1, KeyStepCases DEF AcceptRecoveryRole, UpdateRecoveryAddress,
       CancelRecoveryKeyProposal, CancelRecoveryAddressChange, Freeze, Unfreeze
<1> QED
  BY <1>1, <1>3, <1>4

\* While an account is frozen its account key is powerless ("!config.frozen"
\* in the request and in the execution).
THEOREM PowerlessProof == HistorySpec => FrozenAccountKeyIsPowerless
<1>1. HistoryInv /\ [HistoryNext]_allVars
      => [\A u \in Users : frozen[u] /\ frozen'[u] =>
             /\ keyChange'[u] \in {keyChange[u], {}}
             /\ recoveryKey'[u] \in {recoveryKey[u], pendingKey[u]}
             /\ \/ pendingKey'[u] \in {pendingKey[u], NoKey}
                \/ \E key \in ColdKeys : UpdateRecoveryAddress(u, key)]_allVars
  BY PowerlessStep
<1> QED
  BY <1>1, HistoryInvariant, PTL DEF HistorySpec, FrozenAccountKeyIsPowerless
=============================================================================
