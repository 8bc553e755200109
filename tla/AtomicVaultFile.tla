-------------------------- MODULE AtomicVaultFile --------------------------
(***************************************************************************)
(* What vault/storage.rs promises about one vault path: the file always    *)
(* holds the bytes of one write as a whole (or does not exist yet), a      *)
(* power loss brings it back to bytes that may have reached the disk, and  *)
(* a write is acknowledged only once nothing older can come back.          *)
(***************************************************************************)
EXTENDS Naturals

CONSTANT Writes  \* identifiers of the writes, in the order of their commits

VARIABLES
    content,  \* the write whose bytes the path shows, 0 when there is no file
    stable,   \* what the path may show after a power loss
    acked     \* the last write that was reported as done

vars == <<content, stable, acked>>

Init ==
    /\ content = 0
    /\ stable = {0}
    /\ acked = 0

Replace(w) ==
    /\ w > content
    /\ content' = w
    /\ stable' = stable \cup {w}
    /\ UNCHANGED acked

Flush ==
    /\ stable' = {content}
    /\ UNCHANGED <<content, acked>>

Acknowledge ==
    /\ stable = {content}
    /\ acked' = content
    /\ UNCHANGED <<content, stable>>

PowerLoss ==
    /\ content' \in stable
    /\ stable' = {content'}
    /\ UNCHANGED acked

Next == (\E w \in Writes : Replace(w)) \/ Flush \/ Acknowledge \/ PowerLoss

Spec == Init /\ [][Next]_vars
============================================================================
