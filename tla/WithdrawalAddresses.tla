------------------------ MODULE WithdrawalAddresses ------------------------
(***************************************************************************)
(* ApprovalSystemModule: the destinations an account may withdraw to, and  *)
(* the requests for new ones.  The contract keeps an array of entries with *)
(* an active flag; all that is ever asked of it is how many active entries *)
(* name a destination.  Lock-in and the freeze belong to other modules and *)
(* are only read here.  The array of pending request ids serves the views  *)
(* alone and is left out.                                                  *)
(***************************************************************************)
EXTENDS Integers, FiniteSets

CONSTANTS
    Holders,         \* the accounts that keep a list
    Destinations,    \* addresses that may be asked for
    Titles,          \* titles that may be given to them
    AddressDelay,    \* the timelock of a request
    MaxRequests,     \* bound on the requests on file per account
    MaxEntries,      \* bound on the active entries of one destination
    MaxTime          \* bound on the clock

VARIABLES
    now,             \* block.timestamp
    committed,       \* ProposalSystemModule.isSetupCommitted
    blocked,         \* RecoverySystemModule.isFrozen
    listed,          \* the number of active entries for a destination
    request          \* userWithdrawalRequests[user], the ones that exist

addressVars == <<listed, request>>

\* <<title, destination, filed>> is what the contract hashes into the id.
Request == [title : Titles, destination : Destinations, filed : Nat,
            executeAfter : Nat, executed : BOOLEAN]

AddressesInit ==
    /\ listed = [u \in Holders |-> [d \in Destinations |-> 0]]
    /\ request = [u \in Holders |-> {}]

IsValidWithdrawalDestination(u, d) == listed[u][d] > 0

SameId(r, q) == /\ r.title = q.title /\ r.destination = q.destination
                /\ r.filed = q.filed

-----------------------------------------------------------------------------
(* The operations; the caller is the account, or a module acting for it.   *)

MaturesAt == now + AddressDelay

\* Asking again under the same title in the same block overwrites.
RequestWithdrawalAddress(u, title, d) ==
    LET new == [title |-> title, destination |-> d, filed |-> now,
                executeAfter |-> MaturesAt, executed |-> FALSE]
    IN  /\ ~blocked[u]
        /\ listed[u][d] = 0
        /\ request' = [request EXCEPT
                ![u] = {r \in @ : ~SameId(r, new)} \cup {new}]
        /\ Cardinality(request'[u]) <= MaxRequests
        /\ UNCHANGED listed

\* Only before lock-in.
AddWithdrawalAddressDirect(u, d) ==
    /\ ~blocked[u]
    /\ ~committed[u]
    /\ listed[u][d] = 0
    /\ listed' = [listed EXCEPT ![u][d] = 1]
    /\ UNCHANGED request

\* Mutant: a cancelled or executed request may run again.
RunnableTwice(r) == now >= r.executeAfter

Runnable(r) == ~r.executed /\ now >= r.executeAfter

\* Executed and cancelled requests carry the same mark.
Spent(u, r) == request' = [request EXCEPT
                    ![u] = (@ \ {r}) \cup {[r EXCEPT !.executed = TRUE]}]

\* An entry is appended whatever the list holds by now.
ExecuteWithdrawalAddressRequest(u, r) ==
    /\ ~blocked[u]
    /\ r \in request[u]
    /\ Runnable(r)
    /\ listed[u][r.destination] < MaxEntries
    /\ listed' = [listed EXCEPT ![u][r.destination] = @ + 1]
    /\ Spent(u, r)

CancelWithdrawalAddressRequest(u, r) ==
    /\ r \in request[u]
    /\ ~r.executed
    /\ Spent(u, r)
    /\ UNCHANGED listed

\* The first active entry is switched off.
RemoveWithdrawalAddress(u, d) ==
    /\ listed[u][d] > 0
    /\ listed' = [listed EXCEPT ![u][d] = @ - 1]
    /\ UNCHANGED request

AddressStep(u) ==
    \/ \E title \in Titles, d \in Destinations : RequestWithdrawalAddress(u, title, d)
    \/ \E d \in Destinations : AddWithdrawalAddressDirect(u, d)
    \/ \E r \in request[u] : ExecuteWithdrawalAddressRequest(u, r)
    \/ \E r \in request[u] : CancelWithdrawalAddressRequest(u, r)
    \/ \E d \in Destinations : RemoveWithdrawalAddress(u, d)

\* What the rest of the system does to the variables that are only read here:
\* lock-in is for good, freezes come and go.
Elsewhere ==
    /\ committed' \in {c \in [Holders -> BOOLEAN] : \A u \in Holders : committed[u] => c[u]}
    /\ blocked' \in [Holders -> BOOLEAN]
    /\ UNCHANGED <<now, addressVars>>

AddressesTick ==
    /\ now < MaxTime
    /\ now' = now + 1
    /\ UNCHANGED <<committed, blocked, addressVars>>

AddressesNext ==
    \/ AddressesTick
    \/ Elsewhere
    \/ \E u \in Holders : AddressStep(u) /\ UNCHANGED <<now, committed, blocked>>

addressesAllVars == <<now, committed, blocked, addressVars>>

AddressesSpec ==
    /\ now = 0
    /\ committed = [u \in Holders |-> FALSE]
    /\ blocked = [u \in Holders |-> FALSE]
    /\ AddressesInit
    /\ [][AddressesNext]_addressesAllVars

-----------------------------------------------------------------------------
(* Properties.                                                             *)

\* Every variable keeps its type, and a request carries the whole delay.
AddressesTypeOK ==
    /\ now \in Nat
    /\ committed \in [Holders -> BOOLEAN] /\ blocked \in [Holders -> BOOLEAN]
    /\ listed \in [Holders -> [Destinations -> Nat]]
    /\ request \in [Holders -> SUBSET Request]
    /\ \A u \in Holders : \A r \in request[u] : r.executeAfter = r.filed + AddressDelay

\* After lock-in a destination becomes valid only while the account is not
\* frozen and by a request that has been on file for the whole delay and was
\* neither executed nor cancelled before; that request is used up.
NewDestinationServed ==
    [][\A u \in Holders, d \in Destinations :
          (committed[u] /\ listed'[u][d] > listed[u][d])
          => /\ ~blocked[u]
             /\ \E r \in request[u] :
                   /\ r.destination = d /\ ~r.executed
                   /\ now >= r.filed + AddressDelay
                   /\ r \notin request'[u]]_addressesAllVars
=============================================================================
