------------------------ MODULE RecoveryKeysHistory ------------------------
(***************************************************************************)
(* RecoveryKeys with two history variables: under which recovery key the   *)
(* pending proposal of an account was made, and what its account key has   *)
(* asked for and when.  The contract remembers neither; what it promises   *)
(* about replacing a recovery key can only be said with them.              *)
(***************************************************************************)
EXTENDS RecoveryKeys

VARIABLES
    proposedUnder,   \* the active key when pendingKey[u] was proposed
    asked            \* the key change that was last requested and when, until
                     \* a veto or its execution; at most one

historyVars == <<proposedUnder, asked>>

allVars == <<now, keyVars, historyVars>>

\* Who put the pending key forward: the account key of an account without a
\* recovery key, or the recovery key itself or a timelock that it let pass.
ProposesOpenly(u) == \E key \in ColdKeys : SetRecoveryAddress(u, key)

ProposesUnderKey(u) ==
    \/ \E key \in ColdKeys : UpdateRecoveryAddress(u, key)
    \/ ExecuteRecoveryAddressChange(u) /\ pendingKey'[u] # NoKey

\* What the account key asks for in this step.
Asks(u) ==
    {[newKey |-> key, at |-> now] :
        key \in {k \in AskedKeys : RequestRecoveryAddressChange(u, k)}}

\* The account key takes it back, the recovery key vetoes it, or it is done.
Settles(u) ==
    \/ \E by \in Users : CancelRecoveryAddressChange(u, by)
    \/ ExecuteRecoveryAddressChange(u)

HistoryInit ==
    /\ now = 0 /\ KeysInit
    /\ proposedUnder = [u \in Users |-> NoKey]
    /\ asked = [u \in Users |-> {}]

HistoryNext ==
    /\ KeysNext
    /\ proposedUnder' = [u \in Users |->
            IF ProposesOpenly(u) THEN NoKey
            ELSE IF ProposesUnderKey(u) THEN recoveryKey[u]
            ELSE proposedUnder[u]]
    /\ asked' = [u \in Users |->
            IF Asks(u) # {} THEN Asks(u) ELSE IF Settles(u) THEN {} ELSE asked[u]]

HistorySpec == HistoryInit /\ [][HistoryNext]_allVars

\* Accounts that some account was recovered to.
Havens == {recoveredTo[v] : v \in Users}

-----------------------------------------------------------------------------
(* Properties.                                                             *)

\* What stands ready to replace an active recovery key was proposed under
\* that protection, by the key itself or through the timelock; the one
\* exception is an account that received its key from a recovery, whose owner
\* may have proposed another before (setRecoveryAddress is for accounts
\* without a key).
ProposedUnderProtection ==
    \A u \in Users \ Havens :
        recoveryKey[u] # NoKey /\ pendingKey[u] # NoKey => proposedUnder[u] = recoveryKey[u]

\* An active recovery key is dropped, or a replacement for it put forward by
\* anybody but itself, only at a request of the account key for just that: the
\* last one, made at least a whole timelock ago, not vetoed since, not executed
\* before, and while the account is neither frozen nor recovered
\* (requestRecoveryAddressChange restarts the timelock).
NoticeIsServed ==
    [][\A u \in Users :
          (/\ recoveryKey[u] # NoKey
           /\ \/ recoveryKey'[u] = NoKey
              \/ pendingKey'[u] \notin {NoKey, pendingKey[u]}
           /\ ~\E key \in ColdKeys : UpdateRecoveryAddress(u, key))
          => /\ ~frozen[u] /\ ~recovered[u] /\ keyChange'[u] = {}
             /\ \E request \in asked[u] :
                   /\ now >= request.at + KeyChangeDelay
                   /\ request.newKey = IF recoveryKey'[u] = NoKey THEN NoKey ELSE pendingKey'[u]
      ]_allVars

\* While an account is frozen its account key can neither start nor finish a
\* key change; a proposal changes only at the word of the recovery key or by
\* being withdrawn ("!config.frozen" in the request and in the execution).
FrozenAccountKeyIsPowerless ==
    [][\A u \in Users : frozen[u] /\ frozen'[u] =>
          /\ keyChange'[u] \in {keyChange[u], {}}
          /\ recoveryKey'[u] \in {recoveryKey[u], pendingKey[u]}
          /\ \/ pendingKey'[u] \in {pendingKey[u], NoKey}
             \/ \E key \in ColdKeys : UpdateRecoveryAddress(u, key)]_allVars
=============================================================================
