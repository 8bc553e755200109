------------------------ MODULE ClipboardGuardProofs ------------------------
(***************************************************************************)
(* Proofs about ClipboardGuard, for all secrets, timeouts and numbers of   *)
(* copies.  The argument: outside of a call the handle, if any, is that of *)
(* the last copy; only the task of the handle can wake; and while it is    *)
(* polled on a runtime of one thread, nothing is copied.                   *)
(***************************************************************************)
EXTENDS ClipboardGuard, TLAPS

Task ==
    [status : {"none", "asleep", "awake", "matched", "done"}, text : Secrets \cup {Blank},
     left : Nat, aborted : BOOLEAN]

Types ==
    /\ clip \in [text : Secrets \cup {Other, Blank}, source : Copy \cup {Nobody}]
    /\ copies \in 0..MaxCopies
    /\ call \in [pc : {"idle", "abort", "spawn"}, text : Secrets \cup {Blank}, timeout : Nat]
    /\ handle \in Copy \cup {Nobody}
    /\ task \in [Copy -> Task]
    /\ cancelled \subseteq Copy
    /\ failed \in BOOLEAN /\ dropped \in BOOLEAN
    /\ runtime \in Runtimes

\* Only the task of the handle can wake.
OneSleeper == \A n \in Copy : task[n].status = "asleep" /\ ~task[n].aborted => n = handle

\* Where the call and the handle are.
HandleIsLast ==
    /\ call.pc # "idle" => copies \in Copy
    /\ call.pc = "spawn" => handle = Nobody
    /\ call.pc = "idle" /\ handle # Nobody => handle = copies

\* What a polled task finds is no later copy.
PollSeesOwn ==
    /\ clip.source <= copies
    /\ SingleThreaded => \A n \in Copy : Polled(n) => clip.source <= n /\ call.pc = "idle"

IInv == Types /\ OneSleeper /\ HandleIsLast /\ PollSeesOwn

LEMMA InitOK == Init => IInv
<1>. SUFFICES ASSUME Init PROVE IInv
  OBVIOUS
<1>1. NoTask \in Task /\ NoTask.status = "none"
  BY DEF NoTask, Task
<1>2. /\ task \in [Copy -> Task]
      /\ \A n \in Copy : task[n].status = "none"
  BY <1>1 DEF Init
<1>3. failed \in BOOLEAN /\ dropped \in BOOLEAN
  BY DEF Init
<1>4. /\ clip \in [text : Secrets \cup {Other, Blank}, source : Copy \cup {Nobody}]
      /\ call \in [pc : {"idle", "abort", "spawn"}, text : Secrets \cup {Blank}, timeout : Nat]
      /\ clip.source = 0 /\ call.pc = "idle"
  BY DEF Init, NoCall, Nobody
<1>5. copies = 0 /\ copies \in 0..MaxCopies
  BY ClipboardAssumption DEF Init
<1>6. Types
  BY <1>2, <1>3, <1>4, <1>5 DEF Init, Types
<1>. QED BY <1>2, <1>4, <1>5, <1>6 DEF Init, IInv, OneSleeper, HandleIsLast, PollSeesOwn, Polled

\* Abort of the task of the handle: nobody is left to wake.
LEMMA Aborted ==
    ASSUME Types, OneSleeper
    PROVE  /\ aborted_tasks \in [Copy -> Task]
           /\ \A n \in Copy : aborted_tasks[n].status = task[n].status
           /\ \A n \in Copy : aborted_tasks[n].status = "asleep" => aborted_tasks[n].aborted
<1>1. CASE handle = Nobody
  BY <1>1 DEF Types, OneSleeper, aborted_tasks, Copy, Nobody
<1>2. CASE handle # Nobody
  <2>. DEFINE t == [task[handle] EXCEPT !.aborted = TRUE]
  <2>1. handle \in Copy
    BY <1>2 DEF Types
  <2>2. t \in Task /\ t.status = task[handle].status /\ t.aborted = TRUE
    BY <2>1 DEF Types, Task
  <2>3. aborted_tasks = [task EXCEPT ![handle] = t]
    BY <1>2 DEF aborted_tasks
  <2>. HIDE DEF t
  <2>. QED BY <2>1, <2>2, <2>3 DEF Types, OneSleeper
<1>. QED BY <1>1, <1>2

\* A step of a task: one status changes, and the task is not asleep afterwards.
LEMMA TaskMoved ==
    ASSUME Types, OneSleeper, NEW n \in Copy, NEW st \in {"awake", "matched", "done"},
           task' = [task EXCEPT ![n].status = st], handle' = handle
    PROVE  /\ task' \in [Copy -> Task]
           /\ OneSleeper'
           /\ task'[n].status = st
           /\ \A m \in Copy \ {n} : task'[m] = task[m]
<1>. DEFINE t == [task[n] EXCEPT !.status = st]
<1>1. t \in Task /\ t.status = st
  BY DEF Types, Task
<1>2. task' = [task EXCEPT ![n] = t]
  OBVIOUS
<1>. HIDE DEF t
<1>. QED BY <1>1, <1>2 DEF Types, OneSleeper

LEMMA StepOK == IInv /\ [Next]_vars => IInv'
<1>. SUFFICES ASSUME IInv, [Next]_vars PROVE IInv'
  OBVIOUS
<1>. USE ClipboardAssumption
<1>1. CASE UNCHANGED vars
  BY <1>1 DEF IInv, Types, OneSleeper, HandleIsLast, PollSeesOwn, Polled, SingleThreaded, vars, rest
<1>2. ASSUME NEW text \in Secrets, NEW timeout \in Timeouts, SetClipboard(text, timeout) PROVE IInv'
  <2>0. copies + 1 \in Copy /\ timeout \in Nat
    BY <1>2 DEF IInv, Types, SetClipboard, Copy
  <2>1. Types'
    <3>1. clip' \in [text : Secrets \cup {Other, Blank}, source : Copy \cup {Nobody}]
      BY <1>2, <2>0 DEF IInv, Types, SetClipboard
    <3>2. failed' \in BOOLEAN
      BY <1>2 DEF IInv, Types, SetClipboard
    <3>3. copies' \in 0..MaxCopies
      BY <1>2, <2>0 DEF SetClipboard, Copy
    <3>4. call' \in [pc : {"idle", "abort", "spawn"}, text : Secrets \cup {Blank}, timeout : Nat]
      BY <1>2, <2>0 DEF SetClipboard
    <3>. QED BY <1>2, <3>1, <3>2, <3>3, <3>4 DEF IInv, Types, SetClipboard
  <2>2. OneSleeper'
    BY <1>2 DEF IInv, OneSleeper, SetClipboard
  <2>3. HandleIsLast'
    BY <1>2 DEF IInv, Types, HandleIsLast, SetClipboard, Copy
  <2>4. PollSeesOwn'
    BY <1>2 DEF IInv, Types, PollSeesOwn, SetClipboard, Polled, SingleThreaded, FreeForCall, Copy,
               Nobody
  <2>. QED BY <2>1, <2>2, <2>3, <2>4 DEF IInv
<1>3. CASE AbortPrevious
  <2>1. /\ task' \in [Copy -> Task]
        /\ \A n \in Copy : task'[n].status = task[n].status
        /\ \A n \in Copy : task'[n].status = "asleep" => task'[n].aborted
    BY <1>3, Aborted DEF IInv, AbortPrevious
  <2>2. Types'
    BY <1>3, <2>1 DEF IInv, Types, AbortPrevious, rest
  <2>3. OneSleeper' /\ HandleIsLast' /\ PollSeesOwn'
    BY <1>3, <2>1 DEF IInv, Types, OneSleeper, HandleIsLast, PollSeesOwn, AbortPrevious, rest,
                     Polled, SingleThreaded
  <2>. QED BY <2>2, <2>3 DEF IInv
<1>4. CASE SpawnClear
  <2>. DEFINE t == [NoTask EXCEPT !.status = "asleep", !.text = call.text, !.left = call.timeout]
  <2>1. t \in Task /\ t.status = "asleep"
    BY <1>4 DEF IInv, Types, Task, NoTask
  <2>2. /\ copies \in Copy /\ task' = [task EXCEPT ![copies] = t] /\ handle' = copies
        /\ call' = NoCall /\ UNCHANGED <<clip, copies, rest>>
    BY <1>4 DEF IInv, HandleIsLast, SpawnClear
  <2>3. handle = Nobody /\ call.pc = "spawn"
    BY <1>4 DEF IInv, HandleIsLast, SpawnClear
  <2>. HIDE DEF t
  <2>4. Types'
    BY <2>1, <2>2 DEF IInv, Types, NoCall, rest
  <2>5. OneSleeper'
    BY <2>1, <2>2, <2>3 DEF IInv, Types, OneSleeper, Copy, Nobody
  <2>6. HandleIsLast' /\ PollSeesOwn'
    BY <2>1, <2>2, <2>3 DEF IInv, Types, HandleIsLast, PollSeesOwn, NoCall, rest, Polled,
                            SingleThreaded
  <2>. QED BY <2>4, <2>5, <2>6 DEF IInv
<1>5. CASE SpawnPanics
  BY <1>5 DEF IInv, Types, OneSleeper, HandleIsLast, PollSeesOwn, SpawnPanics, NoCall, Polled,
              SingleThreaded
<1>6. ASSUME NEW drop \in BOOLEAN, Cancel(drop) PROVE IInv'
  <2>1. /\ task' \in [Copy -> Task]
        /\ \A n \in Copy : task'[n].status = task[n].status
        /\ \A n \in Copy : task'[n].status = "asleep" => task'[n].aborted
    BY <1>6, Aborted DEF IInv, Cancel
  <2>2. Types'
    BY <1>6, <2>1 DEF IInv, Types, Cancel
  <2>3. OneSleeper' /\ HandleIsLast' /\ PollSeesOwn'
    BY <1>6, <2>1 DEF IInv, Types, OneSleeper, HandleIsLast, PollSeesOwn, Cancel, Polled,
                     SingleThreaded
  <2>. QED BY <2>2, <2>3 DEF IInv
<1>7. ASSUME NEW n \in Copy, Wake(n) PROVE IInv'
  <2>1. task' = [task EXCEPT ![n].status = "awake"] /\ UNCHANGED <<clip, copies, call, handle, rest>>
    BY <1>7 DEF Wake
  <2>2. /\ task' \in [Copy -> Task] /\ OneSleeper'
        /\ \A m \in Copy \ {n} : task'[m] = task[m]
    BY <2>1, TaskMoved DEF IInv
  <2>3. SingleThreaded => call.pc = "idle" /\ n = copies
    BY <1>7 DEF IInv, OneSleeper, HandleIsLast, Wake, FreeForPoll, Copy, Nobody
  <2>4. PollSeesOwn'
    BY <2>1, <2>2, <2>3 DEF IInv, PollSeesOwn, Polled, SingleThreaded, rest
  <2>. QED BY <2>1, <2>2, <2>4 DEF IInv, Types, HandleIsLast, rest
<1>8. ASSUME NEW n \in Copy, NEW st \in {"matched", "done"},
             task' = [task EXCEPT ![n].status = st],
             \/ st = "done"
             \/ Polled(n),
             UNCHANGED <<copies, call, handle, cancelled, dropped, runtime>>,
             failed' \in BOOLEAN,
             clip' = clip \/ clip' = [text |-> Blank, source |-> Nobody]
      PROVE  IInv'
  <2>1. /\ task' \in [Copy -> Task] /\ OneSleeper' /\ task'[n].status = st
        /\ \A m \in Copy \ {n} : task'[m] = task[m]
    BY <1>8, TaskMoved DEF IInv
  <2>2. Types'
    BY <1>8, <2>1 DEF IInv, Types
  <2>3. clip'.source <= clip.source \/ clip'.source = 0
    BY <1>8 DEF IInv, Types, Nobody, Copy
  <2>4. \A m \in Copy : Polled(m)' => Polled(m)
    BY <1>8, <2>1 DEF Polled
  <2>5. PollSeesOwn'
    BY <1>8, <2>2, <2>3, <2>4 DEF IInv, Types, PollSeesOwn, SingleThreaded, Copy, Nobody
  <2>. QED BY <1>8, <2>1, <2>2, <2>5 DEF IInv, HandleIsLast
<1>9. ASSUME NEW n \in Copy, Get(n) PROVE IInv'
  <2>1. failed' \in BOOLEAN
    BY <1>9 DEF IInv, Types, Get
  <2>2. Polled(n)
    BY <1>9 DEF Get, Polled
  <2>3. PICK st \in {"matched", "done"} : task' = [task EXCEPT ![n].status = st]
    BY <1>9 DEF Get
  <2>4. clip' = clip /\ UNCHANGED <<copies, call, handle, cancelled, dropped, runtime>>
    BY <1>9 DEF Get
  <2>. QED BY <1>8, <2>1, <2>2, <2>3, <2>4
<1>10. ASSUME NEW n \in Copy, Clear(n) PROVE IInv'
  <2>1. failed' \in BOOLEAN
    BY <1>10 DEF IInv, Types, Clear
  <2>. QED BY <1>8, <1>10, <2>1 DEF Clear
<1>11. ASSUME NEW n \in Copy, DropTask(n) PROVE IInv'
  <2>1. failed' \in BOOLEAN
    BY <1>11 DEF IInv, Types, DropTask, rest
  <2>. QED BY <1>8, <1>11, <2>1 DEF DropTask, rest
<1>12. CASE Tick
  <2>. DEFINE t(n) == IF task[n].left > 0 THEN [task[n] EXCEPT !.left = @ - 1] ELSE task[n]
  <2>1. task' = [n \in Copy |-> t(n)] /\ UNCHANGED <<clip, copies, call, handle, rest>>
    BY <1>12 DEF Tick
  <2>2. ASSUME NEW n \in Copy
        PROVE  t(n) \in Task /\ t(n).status = task[n].status /\ t(n).aborted = task[n].aborted
    BY DEF IInv, Types, Task
  <2>. HIDE DEF t
  <2>3. task' \in [Copy -> Task]
    BY <2>1, <2>2
  <2>4. \A n \in Copy : task'[n].status = task[n].status /\ task'[n].aborted = task[n].aborted
    BY <2>1, <2>2
  <2>5. Types'
    BY <2>1, <2>3 DEF IInv, Types, rest
  <2>. QED BY <2>1, <2>4, <2>5
           DEF IInv, OneSleeper, HandleIsLast, PollSeesOwn, Polled, SingleThreaded, rest
<1>13. CASE UserCopy
  BY <1>13 DEF IInv, Types, OneSleeper, HandleIsLast, PollSeesOwn, UserCopy, Polled, SingleThreaded,
               rest, Copy, Nobody
<1>. QED
  BY <1>1, <1>2, <1>3, <1>4, <1>5, <1>6, <1>7, <1>9, <1>10, <1>11, <1>12, <1>13
  DEF Next, Continue, TaskStep, vv_clipboard_guard_copy_with_timeout, vv_clipboard_guard_cancel,
      vv_clipboard_guard_free

LEMMA Invariance == Spec => []IInv
  BY InitOK, StepOK, PTL DEF Spec

\* Every variable has its type, and only the task of the handle can wake.
THEOREM TypeCorrect == Spec => []TypeOK
<1>1. IInv => TypeOK
  BY DEF IInv, Types, OneSleeper, TypeOK
<1>. QED BY <1>1, Invariance, PTL

\* On a runtime of one thread a task never removes what a later copy put into the
\* clipboard.
THEOREM TasksClearTheirOwn == Spec => ClearsOwnCopy
<1>1. IInv => [\A n \in Copy : SingleThreaded /\ Clears(n) => clip.source <= n]_vars
  BY DEF IInv, PollSeesOwn, Clears, Polled
<1>. QED BY <1>1, Invariance, PTL DEF ClearsOwnCopy

----------------------------------------------------------------------------
(* A copied secret is guarded.  As long as nothing failed, what a copy put *)
(* into the clipboard is the text of the last copy, which its call or its  *)
(* task still holds; a get therefore matches.                              *)

Guarding(n) == (task[n].status = "asleep" /\ ~task[n].aborted) \/ Polled(n)

GuardInv ==
    ~failed /\ clip.source # Nobody =>
        /\ clip.source = copies
        /\ call.pc # "idle" => clip.text = call.text
        /\ call.pc = "idle" /\ copies \notin cancelled =>
             handle = copies /\ clip.text = task[copies].text /\ Guarding(copies)

LEMMA GuardInit == Init => GuardInv
  BY DEF Init, GuardInv

\* The status of one task changes: the texts stay, and so do the other tasks.
LEMMA TaskKept ==
    ASSUME Types, NEW n \in Copy, NEW st \in {"awake", "matched", "done"},
           task' = [task EXCEPT ![n].status = st]
    PROVE  /\ task'[n].status = st
           /\ \A m \in Copy : task'[m].text = task[m].text /\ task'[m].aborted = task[m].aborted
           /\ \A m \in Copy \ {n} : task'[m] = task[m]
<1>. DEFINE t == [task[n] EXCEPT !.status = st]
<1>1. t.status = st /\ t.text = task[n].text /\ t.aborted = task[n].aborted
  BY DEF Types, Task
<1>2. task' = [task EXCEPT ![n] = t]
  OBVIOUS
<1>. HIDE DEF t
<1>. QED BY <1>1, <1>2 DEF Types

LEMMA GuardStep == IInv /\ GuardInv /\ [Next]_vars => GuardInv'
<1>. SUFFICES ASSUME IInv, GuardInv, [Next]_vars, ~failed', clip'.source # Nobody
              PROVE  GuardInv'
  BY DEF GuardInv
<1>0. Types
  BY DEF IInv
<1>1. CASE UNCHANGED vars
  BY <1>1 DEF GuardInv, Guarding, Polled, vars, rest
<1>2. ASSUME NEW text \in Secrets, NEW timeout \in Timeouts, SetClipboard(text, timeout)
      PROVE  GuardInv'
  BY <1>2 DEF SetClipboard, GuardInv
<1>3. CASE AbortPrevious
  BY <1>3 DEF AbortPrevious, GuardInv, rest
<1>4. CASE SpawnClear
  <2>. DEFINE t == [NoTask EXCEPT !.status = "asleep", !.text = call.text, !.left = call.timeout]
  <2>1. t.status = "asleep" /\ t.text = call.text /\ ~t.aborted
    BY DEF NoTask
  <2>2. /\ copies \in Copy /\ task' = [task EXCEPT ![copies] = t] /\ handle' = copies
        /\ call' = NoCall /\ UNCHANGED <<clip, copies, rest>>
    BY <1>4 DEF IInv, HandleIsLast, SpawnClear
  <2>3. clip.source = copies /\ clip.text = call.text
    BY <1>4, <2>2 DEF GuardInv, SpawnClear, rest
  <2>. HIDE DEF t
  <2>4. task'[copies] = t
    BY <1>0, <2>2 DEF Types
  <2>. QED BY <2>1, <2>2, <2>3, <2>4 DEF GuardInv, Guarding, NoCall
<1>5. CASE SpawnPanics
  BY <1>5 DEF SpawnPanics, GuardInv, NoCall
<1>6. ASSUME NEW drop \in BOOLEAN, Cancel(drop) PROVE GuardInv'
  <2>1. clip.source = copies /\ UNCHANGED <<clip, copies, call>> /\ call.pc = "idle"
    BY <1>6 DEF Cancel, GuardInv
  <2>2. copies \in cancelled'
    BY <1>6, <2>1 DEF Cancel, GuardInv
  <2>. QED BY <2>1, <2>2 DEF GuardInv
<1>7. ASSUME NEW n \in Copy, NEW st \in {"awake", "matched"},
             task' = [task EXCEPT ![n].status = st], UNCHANGED <<clip, copies, call, handle, rest>>
      PROVE  GuardInv'
  <2>1. /\ task'[n].status = st
        /\ \A m \in Copy : task'[m].text = task[m].text
        /\ \A m \in Copy \ {n} : task'[m] = task[m]
    BY <1>0, <1>7, TaskKept
  <2>2. clip.source \in Copy /\ clip.source = copies /\ failed' = failed /\ cancelled' = cancelled
    BY <1>0, <1>7 DEF GuardInv, Types, rest
  <2>3. \A m \in Copy : Guarding(m) => Guarding(m)'
    BY <2>1 DEF Guarding, Polled
  <2>. QED BY <1>7, <2>1, <2>2, <2>3 DEF GuardInv
<1>8. ASSUME NEW n \in Copy, task' = [task EXCEPT ![n].status = "done"],
             UNCHANGED <<clip, copies, call, handle, rest>>,
             call.pc = "idle" /\ copies \notin cancelled => n # copies
      PROVE  GuardInv'
  <2>1. \A m \in Copy \ {n} : task'[m] = task[m]
    BY <1>0, <1>8, TaskKept
  <2>2. clip.source \in Copy /\ clip.source = copies /\ failed' = failed /\ cancelled' = cancelled
    BY <1>0, <1>8 DEF GuardInv, Types, rest
  <2>3. \A m \in Copy \ {n} : Guarding(m) => Guarding(m)'
    BY <2>1 DEF Guarding, Polled
  <2>. QED BY <1>8, <2>1, <2>2, <2>3 DEF GuardInv
<1>9. ASSUME NEW n \in Copy, Wake(n) PROVE GuardInv'
  BY <1>7, <1>9 DEF Wake
<1>10. ASSUME NEW n \in Copy, Get(n) PROVE GuardInv'
  <2>1. /\ task' = [task EXCEPT ![n].status = IF matches(n) THEN "matched" ELSE "done"]
        /\ UNCHANGED <<clip, copies, call, handle, rest>>
    BY <1>10 DEF Get, rest
  <2>2. CASE matches(n)
    BY <1>7, <2>1, <2>2
  <2>3. CASE ~matches(n)
    <3>1. call.pc = "idle" /\ copies \notin cancelled => clip.text = task[copies].text
      BY <2>1 DEF GuardInv, rest
    <3>2. call.pc = "idle" /\ copies \notin cancelled => n # copies
      BY <2>3, <3>1 DEF matches
    <3>. QED BY <1>8, <2>1, <2>3, <3>2
  <2>. QED BY <2>2, <2>3
<1>11. ASSUME NEW n \in Copy, Clear(n) PROVE GuardInv'
  BY <1>11 DEF Clear
<1>12. ASSUME NEW n \in Copy, DropTask(n) PROVE GuardInv'
  <2>1. /\ task' = [task EXCEPT ![n].status = "done"] /\ UNCHANGED <<clip, copies, call, handle, rest>>
        /\ ~Guarding(n)
    BY <1>12 DEF DropTask, Guarding, Polled
  <2>2. call.pc = "idle" /\ copies \notin cancelled => Guarding(copies)
    BY <2>1 DEF GuardInv, rest
  <2>. QED BY <1>8, <2>1, <2>2
<1>13. CASE Tick
  <2>. DEFINE t(n) == IF task[n].left > 0 THEN [task[n] EXCEPT !.left = @ - 1] ELSE task[n]
  <2>1. task' = [n \in Copy |-> t(n)] /\ UNCHANGED <<clip, copies, call, handle, rest>>
    BY <1>13 DEF Tick
  <2>2. ASSUME NEW n \in Copy
        PROVE  t(n).status = task[n].status /\ t(n).aborted = task[n].aborted /\ t(n).text = task[n].text
    BY <1>0 DEF Types, Task
  <2>. HIDE DEF t
  <2>3. \A n \in Copy : (Guarding(n) => Guarding(n)') /\ task'[n].text = task[n].text
    BY <2>1, <2>2 DEF Guarding, Polled
  <2>4. clip.source \in Copy /\ clip.source = copies /\ failed' = failed /\ cancelled' = cancelled
    BY <1>0, <2>1 DEF GuardInv, Types, rest
  <2>. QED BY <2>1, <2>3, <2>4 DEF GuardInv
<1>14. CASE UserCopy
  BY <1>14 DEF UserCopy
<1>. QED
  BY <1>1, <1>2, <1>3, <1>4, <1>5, <1>6, <1>9, <1>10, <1>11, <1>12, <1>13, <1>14
  DEF Next, Continue, TaskStep, vv_clipboard_guard_copy_with_timeout, vv_clipboard_guard_cancel,
      vv_clipboard_guard_free

\* While a copied secret is in the clipboard, the call that copied it is under way
\* or its clear task is there to remove it, unless the clear was given up: for
\* any number of copies, any timeouts and either runtime.
THEOREM SecretsAreGuarded == Spec => []ExposureGuarded
<1>1. IInv /\ GuardInv => ExposureGuarded
  BY DEF IInv, Types, GuardInv, Guarding, ExposureGuarded, GivenUp, Copy, Nobody
<1>. QED BY <1>1, Invariance, GuardInit, GuardStep, PTL DEF Spec
=============================================================================
