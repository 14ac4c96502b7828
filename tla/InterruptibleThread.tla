------------------------- MODULE InterruptibleThread -------------------------
(***************************************************************************)
(* interrupt_flag and interruptible_thread of chapter_9.h: a thread that   *)
(* waits for condition variables of its own, one after the other, while    *)
(* its owner and others interrupt it.                                      *)
(*                                                                         *)
(* The throw in interruption_point and the body of clear_cv_on_destruct    *)
(* are comments in the code: an interruption point does nothing, and the   *)
(* flag keeps pointing to a condition variable after the wait for it, and  *)
(* after its end.  NotifiesExisting says that set() never uses such a      *)
(* pointer, and is violated.  To use it, or the flag of a thread that has  *)
(* ended, is undefined: here it wakes nobody, or the program stops.        *)
(***************************************************************************)
CONSTANTS
  Interrupter,  \* the threads that call interrupt()
  Cond,         \* the condition variables, each a local of f in its turn
  NoCond,       \* the null pointer
  Nobody        \* the owner of a free set_clear_mutex

VARIABLES
  flag,             \* _flag of the thread's interrupt_flag
  thread_cond,      \* _thread_cond
  set_clear_mutex,  \* its owner: an interrupter, or "thread"
  pc,               \* the position of the interruptible thread
  cond,             \* the condition variable that exists
  ipc               \* the position of each interrupter in set()

vars == <<flag, thread_cond, set_clear_mutex, pc, cond, ipc>>

Init ==
  /\ flag = FALSE
  /\ thread_cond = NoCond
  /\ set_clear_mutex = Nobody
  /\ pc = "starting"
  /\ cond = NoCond
  /\ ipc = [t \in Interrupter |-> "idle"]
-----------------------------------------------------------------------------
(* the interruptible thread *)

Goto(l) == pc' = l /\ UNCHANGED <<flag, ipc>>

\* p.set_value(&this_thread_interrupt_flag): the constructor returns.
SetValue ==
  /\ pc = "starting"
  /\ Goto("run")
  /\ UNCHANGED <<thread_cond, set_clear_mutex, cond>>

\* f calls interruptible_wait with a condition variable of its own.
CallWait(c) ==
  /\ pc = "run"
  /\ cond' = c
  /\ Goto("register")
  /\ UNCHANGED <<thread_cond, set_clear_mutex>>

\* set_condition_variable, under set_clear_mutex
Register ==
  /\ pc = "register"
  /\ set_clear_mutex = Nobody
  /\ thread_cond' = cond
  /\ Goto("before_wait")
  /\ UNCHANGED <<set_clear_mutex, cond>>

\* wait_for begins to wait.  It holds lk until then, which set() never locks:
\* a notification may have come and gone.
BeginWait ==
  /\ pc = "before_wait"
  /\ Goto("waiting")
  /\ UNCHANGED <<thread_cond, set_clear_mutex, cond>>

\* Mutant: wait instead of wait_for.
NeverTimesOut ==
  /\ pc = "waiting" /\ FALSE
  /\ Goto("woken")
  /\ UNCHANGED <<thread_cond, set_clear_mutex, cond>>

\* One millisecond has passed, or the thread wakes up for no reason.
TimeOut ==
  /\ pc = "waiting"
  /\ Goto("woken")
  /\ UNCHANGED <<thread_cond, set_clear_mutex, cond>>

\* interruptible_wait returns, and f destroys its condition variable.
EndWait ==
  /\ pc = "woken"
  /\ cond' = NoCond
  /\ Goto("run")
  /\ UNCHANGED <<thread_cond, set_clear_mutex>>

\* f returns; the thread_local flag is destroyed.
EndThread ==
  /\ pc = "run"
  /\ Goto("ended")
  /\ UNCHANGED <<thread_cond, set_clear_mutex, cond>>
-----------------------------------------------------------------------------
(* interrupt(): _flag->set(), by the owner once it has _flag *)

Store(t) ==
  /\ ipc[t] = "idle"
  /\ pc \notin {"starting", "ended"}
  /\ flag' = TRUE
  /\ ipc' = [ipc EXCEPT ![t] = "lock"]
  /\ UNCHANGED <<thread_cond, set_clear_mutex, pc, cond>>

Lock(t) ==
  /\ ipc[t] = "lock"
  /\ set_clear_mutex = Nobody
  /\ set_clear_mutex' = t
  /\ ipc' = [ipc EXCEPT ![t] = "notify"]
  /\ UNCHANGED <<flag, thread_cond, pc, cond>>

\* if (_thread_cond) notify_all(), and the unlock
Notify(t) ==
  /\ ipc[t] = "notify"
  /\ pc' = IF thread_cond = cond /\ pc = "waiting" THEN "woken" ELSE pc
  /\ set_clear_mutex' = Nobody
  /\ ipc' = [ipc EXCEPT ![t] = "idle"]
  /\ UNCHANGED <<flag, thread_cond, cond>>
-----------------------------------------------------------------------------
Thread ==
  \/ SetValue \/ \E c \in Cond : CallWait(c)
  \/ Register \/ BeginWait \/ TimeOut \/ EndWait \/ EndThread

Interrupt(t) == Store(t) \/ Lock(t) \/ Notify(t)

Next == Thread \/ \E t \in Interrupter : Interrupt(t)

Spec == Init /\ [][Next]_vars

\* A thread that has begun goes on, and time passes.
Fairness == WF_vars(Thread)
-----------------------------------------------------------------------------
\* set() notifies a condition variable that exists: the guard of
\* interruptible_wait is named for clearing the pointer as the wait ends, and
\* the line that would do it is a comment (chapter_9.h:381-382, 398-402).
NotifiesExisting ==
  \A t \in Interrupter : ipc[t] = "notify" => thread_cond \in {NoCond, cond}

\* A wait ends once the thread is interrupted, although the notification of
\* set() may come before it begins and no interruption point throws: the
\* time limit sees to that (chapter_9.h:440).
InterruptEndsWait == (pc = "waiting" /\ flag) ~> (pc # "waiting")
=============================================================================
