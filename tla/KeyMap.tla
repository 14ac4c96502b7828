------------------------------- MODULE KeyMap -------------------------------
(***************************************************************************)
(* What a thread-safe lookup table promises to its callers: every call,    *)
(* the snapshot of the whole table included, takes effect in one step on a *)
(* map from keys to values.  LookupTable.tla is shown to implement it.     *)
(***************************************************************************)
CONSTANTS
  Thread,    \* the threads that share the table
  Key,
  Value,
  Calls,     \* Calls[t]: the operations thread t may call
  Absent     \* what a map holds for a key without a mapping

VARIABLES
  map,       \* the mappings
  call       \* call[t]: what thread t has asked for, and the outcome

vars == <<map, call>>

Ops == {"value_for", "add_or_update_mapping", "remove_mapping", "get_map"}

NoCall == [stage |-> "idle", op |-> "none", key |-> Absent, val |-> Absent]

Init ==
  /\ map = [k \in Key |-> Absent]
  /\ call = [t \in Thread |-> NoCall]

\* A thread with no call in progress asks for operation o on key k.
Invoke(t, o, k, v) ==
  /\ call[t].stage = "idle"
  /\ o \in Calls[t]
  /\ call' = [call EXCEPT ![t] = [stage |-> "open", op |-> o, key |-> k, val |-> v]]
  /\ UNCHANGED map

\* The call of thread t takes effect, with outcome v.
Finish(t, v) ==
  /\ call[t].stage = "open"
  /\ call' = [call EXCEPT ![t].stage = "done", ![t].val = v]

\* The value mapped to the key, or the caller's default for none.
ValueFor(t) ==
  /\ call[t].op = "value_for"
  /\ Finish(t, map[call[t].key])
  /\ UNCHANGED map

AddOrUpdate(t) ==
  /\ call[t].op = "add_or_update_mapping"
  /\ map' = [map EXCEPT ![call[t].key] = call[t].val]
  /\ Finish(t, call[t].val)

Remove(t) ==
  /\ call[t].op = "remove_mapping"
  /\ map' = [map EXCEPT ![call[t].key] = Absent]
  /\ Finish(t, Absent)

GetMap(t) ==
  /\ call[t].op = "get_map"
  /\ Finish(t, map)
  /\ UNCHANGED map

Return(t) ==
  /\ call[t].stage = "done"
  /\ call' = [call EXCEPT ![t] = NoCall]
  /\ UNCHANGED map

Next ==
  \E t \in Thread :
    \/ \E o \in Ops, k \in Key \cup {Absent}, v \in Value \cup {Absent} :
         Invoke(t, o, k, v)
    \/ ValueFor(t)
    \/ AddOrUpdate(t)
    \/ Remove(t)
    \/ GetMap(t)
    \/ Return(t)

Spec == Init /\ [][Next]_vars
=============================================================================
