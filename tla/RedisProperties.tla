-------------------------- MODULE RedisProperties --------------------------
(***************************************************************************)
(* What the Redis data types have to guarantee while no two calls write    *)
(* one key at the same time, and the map of their state to Structures.     *)
(***************************************************************************)
EXTENDS Redis

\* The structure under a key, by its elements and not by its counters.
PresentMembers(k) ==
    {m \in Members : ElementKey(k, store[k].version, m) \in DOMAIN store}
PresentIndexes(k) ==
    {i \in store[k].head .. (store[k].tail - 1) :
        ElementKey(k, store[k].version, i) \in DOMAIN store}

\* The n-th smallest member of a finite set of numbers.
Ranked(I, n) == {i \in I : Cardinality({j \in I : j < i}) = n - 1}
AnyOf(J) == CHOOSE i \in J : TRUE
Nth(I, n) == AnyOf(Ranked(I, n))

Contents(k) ==
    IF store[k].type = "List"
    THEN [n \in 1 .. Cardinality(PresentIndexes(k)) |->
            store[ElementKey(k, store[k].version, Nth(PresentIndexes(k), n))]]
    ELSE [m \in PresentMembers(k) |-> store[ElementKey(k, store[k].version, m)]]

Held == [k \in Keys |->
    IF k \notin DOMAIN store THEN [type |-> "None"]
    ELSE IF store[k] = Text THEN Text
    ELSE [type |-> store[k].type, body |-> Contents(k)]]

S == INSTANCE Structures WITH held <- Held

\* Every call changes one structure at one instant, however its steps lie
\* between those of readers and of calls on other keys, and also when it fails
\* half-way; a key that is deleted and written again starts empty
\* (redis/types.go; the tests of the same names in redis/type_test.go).
Refines == S!Spec

Holding(t) == {k \in Keys \cap DOMAIN store : store[k].type = t}

\* meta.size, which decides whether HGet, HDel, SRem and ZScore look at all,
\* is the number of elements that can be reached (findMetadata, types.go:527).
SizeIsCount ==
    /\ \A t \in Structures : \A k \in Holding(t) :
          store[k].size = Cardinality(PresentMembers(k))
    /\ \A k \in Holding("List") : store[k].size = store[k].tail - store[k].head

\* A sorted set keeps each member twice, by member and by score: there is one
\* score key for each member, with the member's score (ZAdd, types.go:455).
ScoresAgree ==
    \A k \in Holding("ZSet") : \A m \in Members :
        LET v == store[k].version
        IN  {s \in Scores : ScoreKey(k, v, s, m) \in DOMAIN store} =
                IF ElementKey(k, v, m) \in DOMAIN store
                THEN {store[ElementKey(k, v, m)]} ELSE {}

\* The elements of a list are those from head to tail - 1 and no others, save
\* what a pop has deleted and not yet, or never, taken out of the metadata
\* (pushInner, popInner, types.go:385-451).
BeingPopped == {Popped(c) : c \in {d \in Writers : At(d, "put")}}
ListIsWhole ==
    \A k \in Holding("List") : \A i \in MinIndex .. MaxIndex :
        LET e == ElementKey(k, store[k].version, i)
        IN  e \in DOMAIN store <=>
               /\ i \in store[k].head .. (store[k].tail - 1)
               /\ e \notin lost \cup BeingPopped

\* A read answers with what the structure held at some instant of the call,
\* although it reads metadata and element one after the other and writers,
\* deletions and re-creations come in between (types.go:122-254, 281, 507).
ReadsAreCurrent ==
    \A r \in Readers : read[r].step = "done" => read[r].got \in possible[r]
=============================================================================
