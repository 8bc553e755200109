----------------------------- MODULE MCAuthGate -----------------------------
(***************************************************************************)
(* AuthGate for TLC: the containers that the flows treat differently.      *)
(***************************************************************************)
EXTENDS AuthGate

Legacy ==
    [mode |-> "Encrypted", duress |-> FALSE, envelope |-> TRUE, kdf |-> Branch,
     decodes |-> Branch]

Duress == [Legacy EXCEPT !.duress = TRUE]

GoodVaults == {Legacy, Duress}

AllVaults ==
    GoodVaults \cup
    {[Legacy EXCEPT !.mode = "PlaintextJson"], [Legacy EXCEPT !.kdf = {}],
     [Legacy EXCEPT !.decodes = {}], [Duress EXCEPT !.envelope = FALSE],
     [Duress EXCEPT !.kdf = {"decoy"}], [Duress EXCEPT !.kdf = {"primary"}],
     [Duress EXCEPT !.decodes = {"decoy"}], [Duress EXCEPT !.decodes = {"primary"}]}
=============================================================================
