--------------------------- MODULE RedisInvariant ---------------------------
(***************************************************************************)
(* The inductive invariant behind the properties of Redis: what metadata   *)
(* say of the elements, of a key that is there and of one that a call is   *)
(* about to create, and what a call holds of the key it works on.          *)
(***************************************************************************)
EXTENDS RedisProperties

\* No key has two writers: the calls take no lock, and two of them that read
\* the metadata of a key before either commits count one element less.
OneWriterPerKey == \A c, d \in Writers : c # d => KeysOf[c] \cap KeysOf[d] = {}

\* The engine keys and the lost elements under version v of k.
Under(k, v) == {e \in DOMAIN store \ Keys : e[1] = k /\ e[2] = v}
LostUnder(k, v) == {e \in lost : e[1] = k /\ e[2] = v}
MembersAt(k, v) == {m \in Members : ElementKey(k, v, m) \in DOMAIN store}

\* Metadata d of k agree with the elements.
Counts(k, d) ==
    /\ IsFiniteSet(MembersAt(k, d.version))
    /\ d.size = Cardinality(MembersAt(k, d.version))
Scored(k, d) == \A m \in Members :
    {s \in Scores : ScoreKey(k, d.version, s, m) \in DOMAIN store} =
        IF m \in MembersAt(k, d.version)
        THEN {store[ElementKey(k, d.version, m)]} ELSE {}
Cells(k, d) == {ElementKey(k, d.version, i) : i \in d.head .. (d.tail - 1)}
Listed(k, d) ==
    /\ d.head =< d.tail /\ d.size = d.tail - d.head
    /\ Under(k, d.version) = Cells(k, d) \ (lost \cup BeingPopped)
    /\ LostUnder(k, d.version) \subseteq Cells(k, d)
Sound(k, d) ==
    /\ d \in Metas /\ d.version < clock
    /\ d.type \in Structures => Counts(k, d)
    /\ d.type = "ZSet" => Scored(k, d)
    /\ d.type = "List" => Listed(k, d)

\* No version comes from the future, and none is given twice.
StoreInv ==
    /\ clock \in Nat
    /\ \A e \in (DOMAIN store \ Keys) \cup lost : e[2] \in 0 .. (clock - 1)
    /\ \A k \in Keys \cap DOMAIN store : store[k] = Text \/ Sound(k, store[k])

-----------------------------------------------------------------------------
\* The calls

CallFields == {"op", "key", "member", "arg", "meta", "step", "writes", "deletes"}

\* What a call has read of its key still holds: a key that is not there gets
\* metadata without elements.
Current(c) ==
    /\ call[c].key \in KeysOf[c]
    /\ call[c].key \in DOMAIN store => call[c].meta = store[call[c].key]
    /\ call[c].key \notin DOMAIN store => call[c].meta.size = 0
    /\ Sound(call[c].key, call[c].meta)

\* A call that assigns a member, removes one, pushes or pops an element, and
\* the batch it has put together.
Assigning(c) ==
    /\ call[c].member \in Members
    /\ \/ /\ call[c].op = "HSet" /\ call[c].meta.type = "Hash" /\ call[c].arg \in Values
       \/ /\ call[c].op = "SAdd" /\ call[c].meta.type = "Set" /\ call[c].arg = Nil
    /\ call[c].step \in {"look", "commit"}
    /\ At(c, "commit") => call[c].writes = Assigns(c)
Scoring(c) ==
    /\ call[c].member \in Members /\ call[c].arg \in Scores
    /\ call[c].op = "ZAdd" /\ call[c].meta.type = "ZSet"
    /\ call[c].step \in {"look", "stage", "commit"}
    /\ ~At(c, "look") => ~(Exists(c) /\ store[Mine(c)] = call[c].arg)
    /\ At(c, "stage") => call[c].writes = AssignsScore(c) /\ call[c].deletes = OldScore(c)
    /\ At(c, "commit") =>
          call[c].writes = AssignsScore(c) ++ [e \in OldScore(c) |-> Gone]
Removing(c) ==
    /\ call[c].member \in Members
    /\ \/ call[c].op = "HDel" /\ call[c].meta.type = "Hash"
       \/ call[c].op = "SRem" /\ call[c].meta.type = "Set"
    /\ call[c].step \in {"look", "stage", "commit"}
    /\ ~At(c, "look") => Exists(c)
    /\ At(c, "stage") => call[c].writes = Counted(c, -1) /\ call[c].deletes = {Mine(c)}
    /\ At(c, "commit") =>
          call[c].writes = Counted(c, -1) ++ [e \in {Mine(c)} |-> Gone]
Pushing(c) ==
    /\ call[c].op \in {"LPush", "RPush"} /\ call[c].meta.type = "List"
    /\ call[c].arg \in Elements
    /\ call[c].step \in {"push", "commit"}
    /\ At(c, "commit") => call[c].writes = Pushes(c)
Popping(c) ==
    /\ call[c].op \in {"LPop", "RPop"} /\ call[c].meta.type = "List"
    /\ call[c].meta.size # 0
    /\ call[c].step \in {"get", "delete", "put"}
    /\ At(c, "delete") => Popped(c) \in DOMAIN store
    /\ At(c, "put") => Popped(c) \notin DOMAIN store \cup lost

CallInv(c) == call[c] = NoCall \/
    /\ DOMAIN call[c] = CallFields
    /\ Current(c)
    /\ Assigning(c) \/ Scoring(c) \/ Removing(c) \/ Pushing(c) \/ Popping(c)
CallsInv ==
    /\ call = [c \in Writers |-> call[c]]
    /\ \A c \in Writers : CallInv(c)

-----------------------------------------------------------------------------
\* The readers

ReadFields == {"key", "type", "asked", "version", "step", "got"}

\* The version a reader has looked up belongs to a structure of its type, now
\* and whenever a call writes it.
SameType(r) ==
    /\ read[r].version < clock
    /\ read[r].key \in DOMAIN store /\ store[read[r].key] # Text
          /\ store[read[r].key].version = read[r].version =>
             store[read[r].key].type = read[r].type
    /\ \A c \in Writers :
          call[c] # NoCall /\ call[c].key = read[r].key
             /\ call[c].meta.version = read[r].version =>
             call[c].meta.type = read[r].type

\* What it would read now is a right answer: that of now, or of the moment the
\* version it has looked up came to an end.
ReadInv(r) == read[r] = NoCall \/
    /\ DOMAIN read[r] = ReadFields
    /\ read[r].key \in Keys /\ read[r].type \in Structures
    /\ read[r].asked \subseteq Members /\ read[r].version \in Nat
    /\ read[r].step \in {"look", "done"}
    /\ read[r].step = "done" => read[r].got \in possible[r]
    /\ read[r].step = "look" =>
          /\ SameType(r)
          /\ Lookup(read[r].key, read[r].version, read[r].asked) \in possible[r]
ReadsInv ==
    /\ read = [r \in Readers |-> read[r]]
    /\ possible = [r \in Readers |-> possible[r]]
    /\ \A r \in Readers : ReadInv(r)

RedisIndInv == StoreInv /\ CallsInv /\ ReadsInv
=============================================================================
