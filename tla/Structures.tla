----------------------------- MODULE Structures -----------------------------
(***************************************************************************)
(* What the Redis data types promise: every key holds nothing, a string,   *)
(* or a hash, set, list or sorted set, and each call changes it at one     *)
(* instant.  A hash maps fields to values, a sorted set maps members to    *)
(* scores, a set maps its members to Nil, a list is a sequence.            *)
(***************************************************************************)
EXTENDS Integers, Sequences, Maps

CONSTANTS Keys, Members, Scores, Values, Elements,
          Nil      \* what a set keeps with a member

VARIABLE held      \* held[k] = Nothing : k is not there

Nothing == [type |-> "None"]
Text == [type |-> "String"]

Empty(t) == [type |-> t, body |-> <<>>]
OfType(k, t) == held[k] = Nothing \/ held[k].type = t
Body(k) == IF held[k] = Nothing THEN <<>> ELSE held[k].body
Becomes(k, t, b) == held' = [held EXCEPT ![k] = [type |-> t, body |-> b]]

Init == held = [k \in Keys |-> Nothing]

Set(k) == held' = [held EXCEPT ![k] = Text]
Delete(k) == held' = [held EXCEPT ![k] = Nothing]

\* HSet, SAdd and ZAdd: the member is there afterwards, with its value or score.
Assign(k, t, m, x) ==
    OfType(k, t) /\ Becomes(k, t, Entry(m, x) ++ Body(k))

\* HDel and SRem; the last one leaves an empty hash or set.
Remove(k, t, m) ==
    /\ held[k] # Nothing /\ OfType(k, t) /\ m \in DOMAIN Body(k)
    /\ Becomes(k, t, [n \in DOMAIN Body(k) \ {m} |-> Body(k)[n]])

Push(k, x) ==
    /\ OfType(k, "List")
    /\ \/ Becomes(k, "List", <<x>> \o Body(k))
       \/ Becomes(k, "List", Append(Body(k), x))

Pop(k) ==
    /\ held[k] # Nothing /\ OfType(k, "List") /\ Body(k) # <<>>
    /\ \/ Becomes(k, "List", Tail(Body(k)))
       \/ Becomes(k, "List", SubSeq(Body(k), 1, Len(Body(k)) - 1))

Next == \E k \in Keys :
    \/ Set(k) \/ Delete(k) \/ Pop(k)
    \/ \E x \in Elements : Push(k, x)
    \/ \E m \in Members :
          \/ \E x \in Values : Assign(k, "Hash", m, x)
          \/ Assign(k, "Set", m, Nil)
          \/ \E s \in Scores : Assign(k, "ZSet", m, s)
          \/ Remove(k, "Hash", m) \/ Remove(k, "Set", m)

Spec == Init /\ [][Next]_held
=============================================================================
