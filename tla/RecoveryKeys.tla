---------------------------- MODULE RecoveryKeys ----------------------------
(***************************************************************************)
(* RecoverySystemModule: the cold recovery key of an account, the freeze,  *)
(* and the record of where an account was recovered to.  Every action is   *)
(* one transaction; `by' is msg.sender where more than one key may call.   *)
(* The balances and the spending rules that recoverOwnership also moves    *)
(* belong to SavingsAccount, which composes this module with the others.   *)
(***************************************************************************)
EXTENDS Integers

CONSTANTS
    Users,           \* addresses: account keys, recovery keys, new owners
    Owners,          \* those of them that use an account of their own
    ColdKeys,        \* the addresses that anybody names as a recovery key
    AskedKeys,       \* what an account key asks to have instead
    NoKey,           \* address(0)
    KeyChangeDelay,  \* the timelock of a change asked for by the account key
    MaxTime          \* bound on the clock

ASSUME KeysAssumption ==
    /\ Owners \subseteq Users /\ ColdKeys \subseteq Users
    /\ AskedKeys \subseteq Users \cup {NoKey} /\ NoKey \notin Users
    /\ KeyChangeDelay \in Nat \ {0} /\ MaxTime \in Nat

VARIABLES
    now,             \* block.timestamp
    recoveryKey,     \* userRecovery[user].recoveryAddress
    frozen,          \* userRecovery[user].frozen
    recovered,       \* userRecovery[user].recovered
    recoveredTo,     \* recoveredTo[user]
    keyChange,       \* pendingKeyChanges[user]: none or one request
    pendingKey       \* pendingRecoveryKeys[user]

keyVars == <<recoveryKey, frozen, recovered, recoveredTo, keyChange, pendingKey>>

KeyChange == [newKey : Users \cup {NoKey}, executeAfter : Nat]

KeysInit ==
    /\ recoveryKey = [u \in Users |-> NoKey]
    /\ frozen = [u \in Users |-> FALSE]
    /\ recovered = [u \in Users |-> FALSE]
    /\ recoveredTo = [u \in Users |-> NoKey]
    /\ keyChange = [u \in Users |-> {}]
    /\ pendingKey = [u \in Users |-> NoKey]

IsFrozen(u) == frozen[u] \/ recovered[u]

-----------------------------------------------------------------------------
(* The recovery key.                                                       *)

\* Mutant: the account key proposes whatever key is active.
MayProposeAlways(u) == ~recovered[u]

MayPropose(u) == ~recovered[u] /\ recoveryKey[u] = NoKey

\* A key proposed while none is active; proposing again overwrites.
SetRecoveryAddress(u, key) ==
    /\ MayPropose(u)
    /\ key # u
    /\ pendingKey' = [pendingKey EXCEPT ![u] = key]
    /\ UNCHANGED <<recoveryKey, frozen, recovered, recoveredTo, keyChange>>

\* The proposed key proves that it can transact, and becomes the active one.
AcceptRecoveryRole(u, by) ==
    /\ ~recovered[u]
    /\ pendingKey[u] = by
    /\ recoveryKey' = [recoveryKey EXCEPT ![u] = by]
    /\ pendingKey' = [pendingKey EXCEPT ![u] = NoKey]
    /\ UNCHANGED <<frozen, recovered, recoveredTo, keyChange>>

CancelRecoveryKeyProposal(u) ==
    /\ pendingKey[u] # NoKey
    /\ pendingKey' = [pendingKey EXCEPT ![u] = NoKey]
    /\ UNCHANGED <<recoveryKey, frozen, recovered, recoveredTo, keyChange>>

\* The active key rotates itself.
UpdateRecoveryAddress(u, key) ==
    /\ ~recovered[u]
    /\ recoveryKey[u] # NoKey
    /\ key # u
    /\ pendingKey' = [pendingKey EXCEPT ![u] = key]
    /\ UNCHANGED <<recoveryKey, frozen, recovered, recoveredTo, keyChange>>

\* Mutant: a freeze is not looked at.
MayChangeKeyAlways(u) == ~recovered[u]

MayChangeKey(u) == ~recovered[u] /\ ~frozen[u]

\* The account key asks for another key, or for none; asking again restarts
\* the timelock.
RequestRecoveryAddressChange(u, key) ==
    /\ MayChangeKey(u)
    /\ recoveryKey[u] # NoKey
    /\ key # u
    /\ keyChange' = [keyChange EXCEPT
            ![u] = {[newKey |-> key, executeAfter |-> now + KeyChangeDelay]}]
    /\ UNCHANGED <<recoveryKey, frozen, recovered, recoveredTo, pendingKey>>

\* Mutant: the timelock is not looked at.
ServedAtOnce(change) == TRUE

ServedTimelock(change) == now >= change.executeAfter

ExecuteRecoveryAddressChange(u) ==
    /\ MayChangeKey(u)
    /\ \E change \in keyChange[u] :
          /\ ServedTimelock(change)
          /\ IF change.newKey = NoKey
             THEN /\ recoveryKey' = [recoveryKey EXCEPT ![u] = NoKey]
                  /\ UNCHANGED pendingKey
             ELSE /\ pendingKey' = [pendingKey EXCEPT ![u] = change.newKey]
                  /\ UNCHANGED recoveryKey
    /\ keyChange' = [keyChange EXCEPT ![u] = {}]
    /\ UNCHANGED <<frozen, recovered, recoveredTo>>

CancelRecoveryAddressChange(u, by) ==
    /\ by \in {u, recoveryKey[u]}
    /\ keyChange[u] # {}
    /\ keyChange' = [keyChange EXCEPT ![u] = {}]
    /\ UNCHANGED <<recoveryKey, frozen, recovered, recoveredTo, pendingKey>>

-----------------------------------------------------------------------------
(* Freeze and recovery.                                                    *)

Freeze(u, by) ==
    /\ ~recovered[u]
    /\ recoveryKey[u] # NoKey
    /\ by \in {u, recoveryKey[u]}
    /\ ~frozen[u]
    /\ frozen' = [frozen EXCEPT ![u] = TRUE]
    /\ UNCHANGED <<recoveryKey, recovered, recoveredTo, keyChange, pendingKey>>

Unfreeze(u) ==
    /\ ~recovered[u]
    /\ recoveryKey[u] # NoKey
    /\ frozen[u]
    /\ frozen' = [frozen EXCEPT ![u] = FALSE]
    /\ UNCHANGED <<recoveryKey, recovered, recoveredTo, keyChange, pendingKey>>

\* Mutant: a repeat call may name another address.
MayRecoverAnywhere(u, newOwner) == newOwner # u /\ ~recovered[newOwner]

\* An account lands on one address only, and not on one that was recovered.
MayRecoverTo(u, newOwner) ==
    /\ newOwner # u
    /\ ~recovered[newOwner]
    /\ recovered[u] => recoveredTo[u] = newOwner

\* The part of recoverOwnership that concerns the keys.
RecoverKeys(u, newOwner) ==
    /\ recoveryKey[u] # NoKey
    /\ MayRecoverTo(u, newOwner)
    /\ recoveredTo' = [recoveredTo EXCEPT ![u] = newOwner]
    /\ recovered' = [recovered EXCEPT ![u] = TRUE]
    /\ frozen' = [frozen EXCEPT ![u] = TRUE]
    /\ keyChange' = [keyChange EXCEPT ![u] = {}]
    /\ pendingKey' = [pendingKey EXCEPT ![u] = NoKey]
    /\ recoveryKey' = IF recoveryKey[newOwner] = NoKey
                      THEN [recoveryKey EXCEPT ![newOwner] = recoveryKey[u]]
                      ELSE recoveryKey

\* Every call but recoverOwnership.
KeyStep(u) ==
    \/ \E key \in ColdKeys : \/ SetRecoveryAddress(u, key)
                          \/ AcceptRecoveryRole(u, key)
                          \/ UpdateRecoveryAddress(u, key)
    \/ \E key \in AskedKeys : RequestRecoveryAddressChange(u, key)
    \/ CancelRecoveryKeyProposal(u)
    \/ ExecuteRecoveryAddressChange(u)
    \/ \E by \in Users : CancelRecoveryAddressChange(u, by) \/ Freeze(u, by)
    \/ Unfreeze(u)

KeysTick == now < MaxTime /\ now' = now + 1 /\ UNCHANGED keyVars

KeysNext ==
    \/ KeysTick
    \/ \E u \in Owners : KeyStep(u) /\ UNCHANGED now
    \/ \E u, newOwner \in Users : RecoverKeys(u, newOwner) /\ UNCHANGED now

KeysSpec == now = 0 /\ KeysInit /\ [][KeysNext]_<<now, keyVars>>

-----------------------------------------------------------------------------
(* Properties.                                                             *)

\* Every variable keeps its type; an account is recovered exactly when it has
\* a place it went to, which is another address, and a key that took it there.
KeysTypeOK ==
    /\ now \in Nat
    /\ recoveryKey \in [Users -> Users \cup {NoKey}]
    /\ frozen \in [Users -> BOOLEAN] /\ recovered \in [Users -> BOOLEAN]
    /\ recoveredTo \in [Users -> Users \cup {NoKey}]
    /\ keyChange \in [Users -> SUBSET KeyChange]
    /\ pendingKey \in [Users -> Users \cup {NoKey}]
    /\ \A u \in Users : /\ recovered[u] <=> recoveredTo[u] # NoKey
                        /\ recoveredTo[u] # u
                        /\ recovered[u] => recoveryKey[u] # NoKey

\* Recovery is final: the account stays disabled, its funds go to one address
\* only, and the key that recovered it keeps the power to fetch what is left
\* (notRecovered on every key operation; "Already recovered elsewhere").
RecoveryIsFinal ==
    [][\A u \in Users : recovered[u] =>
          /\ recovered'[u] /\ IsFrozen(u)'
          /\ recoveredTo'[u] = recoveredTo[u]
          /\ recoveryKey'[u] = recoveryKey[u]]_<<now, keyVars>>
=============================================================================
