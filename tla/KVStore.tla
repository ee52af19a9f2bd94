------------------------------ MODULE KVStore ------------------------------
(***************************************************************************)
(* What the storage engine promises: a map from keys to values.  A write   *)
(* takes effect at one moment between its call and its return.  A restart  *)
(* keeps every write that had taken effect; of the writes still under way  *)
(* each may or may not have.                                               *)
(***************************************************************************)
CONSTANTS
    Client,  \* the threads that call insert and delete
    Key,
    Value,
    Absent   \* what a key without a value holds

VARIABLES
    kv,      \* the value of each key
    pending  \* the writes that were called and have not taken effect

vars == <<kv, pending>>

Op == [key : Key, entry : Value \cup {Absent}]

Init ==
    /\ kv = [k \in Key |-> Absent]
    /\ pending = [c \in Client |-> {}]

Call(c, o) ==
    /\ pending[c] = {}
    /\ pending' = [pending EXCEPT ![c] = {o}]
    /\ UNCHANGED kv

TakeEffect(c, o) ==
    /\ o \in pending[c]
    /\ kv' = [kv EXCEPT ![o.key] = o.entry]
    /\ pending' = [pending EXCEPT ![c] = {}]

\* The value k may have after a restart.
Survivors(k) == {kv[k]} \cup {o.entry : o \in {q \in UNION {pending[c] : c \in Client} : q.key = k}}

Crash ==
    /\ kv' \in [Key -> Value \cup {Absent}]
    /\ \A k \in Key : kv'[k] \in Survivors(k)
    /\ pending' = [c \in Client |-> {}]

Next ==
    \/ \E c \in Client : \E o \in Op : Call(c, o) \/ TakeEffect(c, o)
    \/ Crash

Spec == Init /\ [][Next]_vars
=============================================================================
