-------------------------- MODULE SessionRegister --------------------------
(***************************************************************************)
(* What VaultLockManager promises about sessions, without its timers,      *)
(* tasks, locks or policy: at most one session is open; an identifier is   *)
(* issued for every unlock and every lock, never twice; a session opens    *)
(* only on behalf of an unlock that is still pending, and that unlock can  *)
(* open it only once, so a session that was closed or replaced never comes *)
(* back.                                                                   *)
(***************************************************************************)
EXTENDS Naturals

VARIABLES
    session,  \* identifier of the open session, 0 when the vault is locked
    pending,  \* unlocks that were issued an identifier and did not open yet
    issued    \* the last identifier issued

vars == <<session, pending, issued>>

Init ==
    /\ session = 0
    /\ pending = {}
    /\ issued = 1

\* An unlock starts.
Request ==
    /\ issued' = issued + 1
    /\ pending' = pending \cup {issued + 1}
    /\ UNCHANGED session

\* A lock starts: it uses up an identifier, and so outdates every timer.
Burn ==
    /\ issued' = issued + 1
    /\ UNCHANGED <<session, pending>>

Open(s) ==
    /\ s \in pending
    /\ session' = s
    /\ pending' = pending \ {s}
    /\ UNCHANGED issued

\* The unlock is given up before it opened its session.
Abandon(s) ==
    /\ s \in pending
    /\ pending' = pending \ {s}
    /\ UNCHANGED <<session, issued>>

Close ==
    /\ session' = 0
    /\ UNCHANGED <<pending, issued>>

Next == Request \/ Burn \/ Close \/ \E s \in pending : Open(s) \/ Abandon(s)

Spec == Init /\ [][Next]_vars
============================================================================
