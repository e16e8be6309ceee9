------------------------------ MODULE KVStore ------------------------------
(***************************************************************************)
(* What the storage engine promises its callers: one map from keys to      *)
(* values.  A request (Put, Delete or the commit of a WriteBatch) is a set *)
(* of writes that takes effect at one instant between its call and its     *)
(* return, all of it or none of it.  A crash loses nothing that has taken  *)
(* effect; a request in flight at that moment is applied as a whole or not *)
(* at all.                                                                 *)
(***************************************************************************)
CONSTANTS
    Keys, Values, Clients,
    Absent,       \* kv[k] = Absent : the key is not in the store
    NoWrite       \* change[k] = NoWrite : the request leaves the key alone

VARIABLES
    kv,           \* the map a reader sees
    inflight      \* the change each client has asked for and not seen applied

vars == <<kv, inflight>>

Change == [Keys -> Values \cup {Absent, NoWrite}]
NoChange == [k \in Keys |-> NoWrite]

\* The map after a change.
Overlay(map, change) ==
    [k \in Keys |-> IF change[k] = NoWrite THEN map[k] ELSE change[k]]

Init ==
    /\ kv = [k \in Keys |-> Absent]
    /\ inflight = [c \in Clients |-> NoChange]

\* A client asks for a change.
Begin(c) ==
    /\ inflight[c] = NoChange
    /\ \E change \in Change \ {NoChange} :
          inflight' = [inflight EXCEPT ![c] = change]
    /\ UNCHANGED kv

\* The whole change takes effect at once.
Apply(c) ==
    /\ inflight[c] # NoChange
    /\ kv' = Overlay(kv, inflight[c])
    /\ inflight' = [inflight EXCEPT ![c] = NoChange]

\* The request fails: an error is returned and nothing has changed.
Fail(c) ==
    /\ inflight[c] # NoChange
    /\ inflight' = [inflight EXCEPT ![c] = NoChange]
    /\ UNCHANGED kv

\* The process stops.  Each request in flight is applied or dropped, whole.
Crash ==
    /\ \E applied \in SUBSET Clients :
          kv' = [k \in Keys |->
                   IF \E c \in applied : inflight[c][k] # NoWrite
                   THEN LET c == CHOOSE d \in applied : inflight[d][k] # NoWrite
                        IN  inflight[c][k]
                   ELSE kv[k]]
    /\ inflight' = [c \in Clients |-> NoChange]

Next ==
    \/ \E c \in Clients : Begin(c) \/ Apply(c) \/ Fail(c)
    \/ Crash

Spec == Init /\ [][Next]_vars
=============================================================================
