-------------------------- MODULE MCVaultContainer --------------------------
(* Instances of VaultContainer for TLC.                                     *)
EXTENDS VaultContainer, TLC

Kdf(mem) == [mem_kib |-> mem, time_cost |-> 3, lanes |-> 1]

\* The default parameters and a memory cost below the minimum.
MCKdfs == {Kdf(65536), Kdf(1024)}

Text(name, len, payload) == [name |-> name, len |-> len, payload |-> payload]

\* A payload, one that fits the decoder's limit as a ciphertext but not in a JSON
\* envelope, and one whose serialization does not decode.
MCPlaintexts ==
    {Text("entries", 100, TRUE), Text("large", 8 * 1024 * 1024, TRUE),
     Text("invalid", 100, FALSE)}

MCDecoys == {Text("entries", 100, TRUE)}

MCForeign == {Text("entries", 100, TRUE)}

MCPolicies ==
    {[outcome |-> "Primary", runtime_state |-> "NotDebugged"],
     [outcome |-> "Primary", runtime_state |-> "Debugged"],
     [outcome |-> "Decoy", runtime_state |-> "NotDebugged"]}

\* Passwords are only ever compared.
Symmetry == Permutations(Passwords)
============================================================================
