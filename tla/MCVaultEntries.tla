--------------------------- MODULE MCVaultEntries ---------------------------
(***************************************************************************)
(* VaultEntries for TLC: TOTP blocks, vault files and policies.            *)
(***************************************************************************)
EXTENDS VaultEntries

\* Two valid blocks and two that the validation rejects.
MCTotps ==
    {[secret_b32 |-> s, in_range |-> TRUE] : s \in {"K1", "K2", ""}}
    \cup {[secret_b32 |-> "K1", in_range |-> FALSE]}

\* A card has no constructor: it comes with the file.
Card ==
    [id |-> 1, entry_type |-> "Card", title |-> "a", note |-> None, username |-> None,
     secret |-> "K1", extra |-> None, totp |-> None]

EmptyFile == {<<>>}
CardFile == {<<Card>>}

PrimaryClean == {[outcome |-> "Primary", runtime_state |-> "NotDebugged"]}

PrimaryOrDecoy == PrimaryClean \cup {[outcome |-> "Decoy", runtime_state |-> "NotDebugged"]}

MixedPolicies == PrimaryOrDecoy \cup {[outcome |-> "Primary", runtime_state |-> "Debugged"]}
=============================================================================
