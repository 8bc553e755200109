--------------------------- MODULE ClipboardGuard ---------------------------
(***************************************************************************)
(* clipboard/guard.rs: a guard that copies a secret to the clipboard and   *)
(* spawns a task that clears it after a timeout.  The clipboard belongs to *)
(* the platform: the user changes it at any time, and the callbacks of a   *)
(* host backend (clipboard/ffi.rs) may fail, which the guard ignores.      *)
(*                                                                         *)
(* The guard is used by one caller at a time (&mut self), concurrently     *)
(* with its tasks on a runtime of several threads; on a runtime of one     *)
(* thread a call and the poll of a task exclude each other.  Which of the  *)
(* two tokio runtimes it is, or that the host's thread has entered none,   *)
(* the host decides once.                                                  *)
(***************************************************************************)
EXTENDS Naturals

CONSTANTS
    Secrets,         \* the texts that are copied
    Timeouts,        \* their timeouts, in clock ticks
    MaxCopies        \* bound on the number of copies

ASSUME ClipboardAssumption ==
    /\ MaxCopies \in Nat
    /\ Timeouts \subseteq Nat

Copy == 1..MaxCopies
Nobody == 0
Other == "other"  \* what the user copies
Blank == ""       \* the cleared clipboard

VARIABLES
    clip,       \* the text in the clipboard, and the copy that put it there
    copies,     \* the number of copies so far
    call,       \* the copy_with_timeout in progress
    handle,     \* ClipboardGuard.task
    task,       \* the task of every copy
    cancelled,  \* history: copies whose task was given up by cancel or drop, or
                \* never spawned
    failed,     \* history: a callback of the backend failed
    dropped,    \* the guard is gone
    runtime     \* the flavour of the runtime, or "none"

rest == <<cancelled, failed, dropped, runtime>>
vars == <<clip, copies, call, handle, task, rest>>

NoCall == [pc |-> "idle", text |-> Blank, timeout |-> 0]
NoTask == [status |-> "none", text |-> Blank, left |-> 0, aborted |-> FALSE]

Runtimes == {"current_thread", "multi_thread", "none"}

Init ==
    /\ clip = [text |-> Blank, source |-> Nobody]
    /\ copies = 0
    /\ call = NoCall
    /\ handle = Nobody
    /\ task = [n \in Copy |-> NoTask]
    /\ cancelled = {}
    /\ failed = FALSE
    /\ dropped = FALSE
    /\ runtime \in Runtimes

SingleThreaded == runtime = "current_thread"

\* A task in the middle of a poll: past its sleep, before its end.
Polled(n) == task[n].status \in {"awake", "matched"}

\* The thread is free for a call of the guard, or for the poll of a task.
FreeForCall == SingleThreaded => \A n \in Copy : ~Polled(n)
FreeForPoll == FreeForCall /\ (SingleThreaded => call.pc = "idle")

----------------------------------------------------------------------------
(* copy_with_timeout                                                       *)

\* set; its result is ignored.
SetClipboard(text, timeout) ==
    /\ ~dropped /\ call.pc = "idle" /\ FreeForCall
    /\ copies < MaxCopies
    /\ copies' = copies + 1
    /\ \/ clip' = [text |-> text, source |-> copies + 1] /\ UNCHANGED failed
       \/ UNCHANGED clip /\ failed' = TRUE
    /\ call' = [pc |-> "abort", text |-> text, timeout |-> timeout]
    /\ UNCHANGED <<handle, task, cancelled, dropped, runtime>>

\* Mutant: the previous task is left alone.
aborted_tasks_none == task

\* take() and abort(): a task that is being polled goes on to its next await.
aborted_tasks ==
    IF handle # Nobody THEN [task EXCEPT ![handle].aborted = TRUE] ELSE task

AbortPrevious ==
    /\ call.pc = "abort"
    /\ task' = aborted_tasks
    /\ handle' = Nobody
    /\ call' = [call EXCEPT !.pc = "spawn"]
    /\ UNCHANGED <<clip, copies, rest>>

\* Mutant: the new handle is stored before the previous one is aborted, and the
\* abort hits the new task.
SpawnClearAborted ==
    /\ call.pc = "spawn" /\ runtime # "none"
    /\ task' = [task EXCEPT ![copies] =
                  [NoTask EXCEPT !.status = "asleep", !.text = call.text, !.aborted = TRUE]]
    /\ handle' = copies
    /\ call' = NoCall
    /\ UNCHANGED <<clip, copies, rest>>

SpawnClear ==
    /\ call.pc = "spawn" /\ runtime # "none"
    /\ task' = [task EXCEPT ![copies] =
                  [NoTask EXCEPT !.status = "asleep", !.text = call.text, !.left = call.timeout]]
    /\ handle' = copies
    /\ call' = NoCall
    /\ UNCHANGED <<clip, copies, rest>>

\* Outside of a runtime tokio::spawn panics, after the secret was copied and the
\* previous task aborted.  vv_clipboard_guard_copy_with_timeout catches it and
\* returns VV_ERR_PANIC; the guard can still be used.
SpawnPanics ==
    /\ call.pc = "spawn" /\ runtime = "none"
    /\ cancelled' = cancelled \cup {copies}
    /\ call' = NoCall
    /\ UNCHANGED <<clip, copies, handle, task, failed, dropped, runtime>>

\* cancel, and the drop of the guard, which calls it.
Cancel(drop) ==
    /\ ~dropped /\ call.pc = "idle" /\ FreeForCall
    /\ task' = aborted_tasks
    /\ cancelled' = cancelled \cup ({handle} \ {Nobody})
    /\ handle' = Nobody
    /\ dropped' = drop
    /\ UNCHANGED <<clip, copies, call, failed, runtime>>

----------------------------------------------------------------------------
(* The task.                                                               *)

Wake(n) ==
    /\ task[n].status = "asleep" /\ task[n].left = 0 /\ ~task[n].aborted
    /\ FreeForPoll
    /\ task' = [task EXCEPT ![n].status = "awake"]
    /\ UNCHANGED <<clip, copies, call, handle, rest>>

\* Mutant: the comparison is inverted.
matches_not(n) == clip.text # task[n].text

\* *cur == *value
matches(n) == clip.text = task[n].text

\* get and the comparison; a get that fails ends the task.
Get(n) ==
    /\ task[n].status = "awake"
    /\ \/ /\ task' = [task EXCEPT ![n].status = IF matches(n) THEN "matched" ELSE "done"]
          /\ UNCHANGED failed
       \/ task' = [task EXCEPT ![n].status = "done"] /\ failed' = TRUE
    /\ UNCHANGED <<clip, copies, call, handle, cancelled, dropped, runtime>>

Clear(n) ==
    /\ task[n].status = "matched"
    /\ \/ clip' = [text |-> Blank, source |-> Nobody] /\ UNCHANGED failed
       \/ UNCHANGED clip /\ failed' = TRUE
    /\ task' = [task EXCEPT ![n].status = "done"]
    /\ UNCHANGED <<copies, call, handle, cancelled, dropped, runtime>>

\* The runtime drops an aborted task that sleeps.
DropTask(n) ==
    /\ task[n].status = "asleep" /\ task[n].aborted
    /\ task' = [task EXCEPT ![n].status = "done"]
    /\ UNCHANGED <<clip, copies, call, handle, rest>>

Tick ==
    /\ \E n \in Copy : task[n].left > 0
    /\ task' = [n \in Copy |->
                  IF task[n].left > 0 THEN [task[n] EXCEPT !.left = @ - 1] ELSE task[n]]
    /\ UNCHANGED <<clip, copies, call, handle, rest>>

\* Somebody else writes to the clipboard.
UserCopy ==
    /\ clip.text # Other
    /\ clip' = [text |-> Other, source |-> Nobody]
    /\ UNCHANGED <<copies, call, handle, task, rest>>

----------------------------------------------------------------------------
(* The entry points of the C ABI.  Null pointers and secrets that are      *)
(* empty, too long or not UTF-8 are refused before anything changes.       *)

vv_clipboard_guard_copy_with_timeout(text, timeout) == SetClipboard(text, timeout)

vv_clipboard_guard_cancel == Cancel(FALSE)

vv_clipboard_guard_free == Cancel(TRUE)

----------------------------------------------------------------------------
Continue == AbortPrevious \/ SpawnClear \/ SpawnPanics

TaskStep(n) == Wake(n) \/ Get(n) \/ Clear(n) \/ DropTask(n)

Next ==
    \/ \E text \in Secrets, timeout \in Timeouts :
         vv_clipboard_guard_copy_with_timeout(text, timeout)
    \/ Continue
    \/ vv_clipboard_guard_cancel
    \/ vv_clipboard_guard_free
    \/ \E n \in Copy : TaskStep(n)
    \/ Tick
    \/ UserCopy

Spec == Init /\ [][Next]_vars

\* A call that began ends, the runtime polls the tasks and time passes.
FairSpec ==
    Spec /\ WF_vars(Continue) /\ WF_vars(Tick) /\ \A n \in Copy : WF_vars(TaskStep(n))

----------------------------------------------------------------------------
(* Properties.                                                             *)

\* Every variable has its type, and the handle is that of the last task that
\* was spawned, with no earlier one left running unless it is being polled.
TypeOK ==
    /\ clip \in [text : Secrets \cup {Other, Blank}, source : Copy \cup {Nobody}]
    /\ copies \in 0..MaxCopies
    /\ call.pc \in {"idle", "abort", "spawn"}
    /\ handle \in Copy \cup {Nobody}
    /\ cancelled \subseteq Copy
    /\ failed \in BOOLEAN /\ dropped \in BOOLEAN
    /\ runtime \in Runtimes
    /\ \A n \in Copy :
         task[n].status = "asleep" /\ ~task[n].aborted => n = handle

Clears(n) == task[n].status = "matched" /\ task'[n].status = "done"

\* "Cancels previous clear task when a new copy occurs": on a runtime of one
\* thread a task never removes what a later copy put into the clipboard, even
\* the same secret again, whatever fails.  (Between the get and the clear of a
\* task that another thread polls, a later copy can slip in.)
ClearsOwnCopy ==
    [][\A n \in Copy : SingleThreaded /\ Clears(n) => clip.source <= n]_vars

\* The clear was given up: by cancel or drop, by the panic of a call outside of a
\* runtime, or by a callback of the platform that failed.
GivenUp(n) == n \in cancelled \/ failed

\* Why the exposure ends: while a copied secret is in the clipboard, the call
\* that copied it has not returned or its clear task is there to remove it,
\* asleep and not aborted or already polling, on either runtime and whatever
\* copies, cancels, clears and changes by the user came in between.
ExposureGuarded ==
    \A n \in Copy : clip.source = n /\ ~GivenUp(n) =>
        \/ call.pc # "idle" /\ n = copies
        \/ task[n].status = "asleep" /\ ~task[n].aborted
        \/ Polled(n)

\* "Clipboard is cleared after `timeout`": on either runtime, what a copy put
\* into the clipboard does not stay there for ever, unless cancel or drop gave
\* its task up, the call panicked for want of a runtime or a callback of the
\* platform failed.
ExposureEnds ==
    \A n \in Copy : clip.source = n ~> clip.source # n \/ GivenUp(n)
=============================================================================
