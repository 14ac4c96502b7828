----------------------------- MODULE LifoStack -----------------------------
(***************************************************************************)
(* What a lock-free stack promises to its callers: every call takes effect *)
(* in one step between its start and its return, on a last-in first-out    *)
(* sequence of values.  HazardStack.tla is shown to implement it.          *)
(***************************************************************************)
EXTENDS Sequences

CONSTANTS
  Thread,    \* the threads that share the stack
  Value,     \* the values they push
  Nothing    \* no value: a pop that found the stack empty

VARIABLES
  items,     \* the values on the stack, the top first
  call       \* call[t]: what thread t has asked for, and the outcome

vars == <<items, call>>

NoCall == [stage |-> "idle", op |-> "none", val |-> Nothing]

Init ==
  /\ items = <<>>
  /\ call = [t \in Thread |-> NoCall]

Invoke(t, o, v) ==
  /\ call[t] = NoCall
  /\ o = "push" <=> v # Nothing
  /\ call' = [call EXCEPT ![t] = [stage |-> "open", op |-> o, val |-> v]]
  /\ UNCHANGED items

\* The call of thread t takes effect and has outcome v.
Finish(t, v) ==
  /\ call[t].stage = "open"
  /\ call' = [call EXCEPT ![t] = [stage |-> "done", op |-> @.op, val |-> v]]

Push(t) ==
  /\ call[t].op = "push"
  /\ items' = <<call[t].val>> \o items
  /\ Finish(t, call[t].val)

Pop(t) ==
  /\ call[t].op = "pop"
  /\ items # <<>>
  /\ items' = Tail(items)
  /\ Finish(t, Head(items))

FindEmpty(t) ==
  /\ call[t].op = "pop"
  /\ items = <<>>
  /\ Finish(t, Nothing)
  /\ UNCHANGED items

Return(t) ==
  /\ call[t].stage = "done"
  /\ call' = [call EXCEPT ![t] = NoCall]
  /\ UNCHANGED items

Next ==
  \E t \in Thread :
    \/ \E o \in {"push", "pop"}, v \in Value \cup {Nothing} : Invoke(t, o, v)
    \/ Push(t)
    \/ Pop(t)
    \/ FindEmpty(t)
    \/ Return(t)

Spec == Init /\ [][Next]_vars
=============================================================================
