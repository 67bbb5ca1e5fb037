------------------------- MODULE MCWalletSession -------------------------
(* Model values for WalletSession: an extension with two accounts or a   *)
(* passkey, two chains with a contract and one without.                   *)
EXTENDS WalletSession, TLC

CONSTANTS ann, ben, pat, stranger, nobody, base, optimism, ethereum

MCNoVaults == [c \in Chains |-> <<>>]

\* On optimism the first id is a stranger's community vault that ann is in.
MCStrangersVault ==
    [MCNoVaults EXCEPT ![optimism] =
        <<[creator |-> stranger, personal |-> FALSE, members |-> {stranger, ann}]>>]

MCWith(f) == f @@
    [extension |-> TRUE, passkey |-> FALSE, network |-> base, shared |-> ann, chain |-> base,
     hostedOn |-> base, events |-> TRUE,
     vaults |-> MCStrangersVault, slots |-> {1, 2}, faults |-> 1, moves |-> 3]

\* Two accounts of one extension that make, remember and select vaults; the
\* wallet on one chain and another; the passkey beside the extension; the
\* passkey alone, remembered from an earlier visit; and both, with room for a
\* third connection.
MCAccounts == MCWith([acts |-> {"connect", "disconnect", "account", "lockin", "select", "reload"}])
MCChains == MCWith([acts |-> {"chain", "network", "lockin", "select", "reload"}])
MCButtons == {"signin", "connect", "disconnect", "lockin", "reload"}
MCBeside == MCWith([hostedOn |-> ethereum, events |-> FALSE, acts |-> MCButtons])
MCAlone == MCWith([extension |-> FALSE, passkey |-> TRUE, shared |-> nobody, faults |-> 0,
                   acts |-> MCButtons \cup {"network"}])
MCBoth == MCWith([passkey |-> TRUE, chain |-> optimism, hostedOn |-> optimism, slots |-> {1, 2, 3}, moves |-> 1,
                  acts |-> MCButtons])

MCBounds == {MCAccounts, MCChains, MCBeside, MCAlone, MCBoth}
=============================================================================
