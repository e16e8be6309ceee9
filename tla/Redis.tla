-------------------------------- MODULE Redis --------------------------------
(***************************************************************************)
(* The Redis data types, redis/types.go, meta.go and generic.go.  A key    *)
(* holds a string or the metadata of a structure; every element is an      *)
(* engine key of its own, made of the key, the version in the metadata and *)
(* the field, member or index.  A call reads, computes and commits with no *)
(* lock of its own, so the steps of two calls interleave.                  *)
(*                                                                         *)
(* The engine is one map: a Put, a Delete and the Commit of a batch take   *)
(* effect at once or fail (KVStore).  Engine keys that differ in one part  *)
(* are taken to differ as bytes, and two readings of the clock to differ.  *)
(* Nothing sets the expire field of a metadata; that of a string only      *)
(* changes what Get says.                                                  *)
(*                                                                         *)
(* CountAlways, CountFirst, KeepOldScore, HeadStays, PushAtHead and        *)
(* VersionZero are faulty variants of what they stand before; Spec does    *)
(* not use them.                                                           *)
(***************************************************************************)
EXTENDS Integers, Sequences, FiniteSets, Maps

CONSTANTS
    Keys, Members, Scores,
    Values, Elements,   \* of hashes, of lists
    Writers, Readers,   \* goroutines
    KeysOf,             \* KeysOf[c] : the keys writer c uses
    Faults,             \* "batch": a Commit fails; "direct": a Put or Delete
    MaxVersion,         \* bound: the clock is read 1 .. MaxVersion times
    MinIndex, MaxIndex, \* bound: the indexes of list elements
    Nil,                \* the value of a set's element
    Gone                \* a read that finds nothing; a staged delete

InitialListMark == 0
Text == [type |-> "String"]
NoCall == [step |-> "idle"]
Structures == {"Hash", "Set", "ZSet"}

\* Metadata, and the two kinds of keys that elements have.
Metas == [type : Structures \cup {"List"}, version : Nat,
          size : Int, head : Int, tail : Int]
ElementKeys == Keys \X Nat \X (Members \cup Int)
ScoreKeys == Keys \X Nat \X Scores \X Members

ASSUME RedisAssumption ==
    /\ Writers \cap Readers = {}
    /\ KeysOf \in [Writers -> SUBSET Keys]
    /\ \A k \in Keys : k \notin ElementKeys /\ k \notin ScoreKeys
    /\ Faults \subseteq {"batch", "direct"}
    /\ MaxVersion \in Nat /\ MinIndex \in Int /\ MaxIndex \in Int
    /\ Gone \notin Values \cup Elements \cup Scores \cup {Nil}
    /\ Gone \notin Metas

VARIABLES
    store,     \* what the engine holds: a function on the engine keys present
    clock,     \* time.Now
    call,      \* call[c] : the locals of writer c
    read,      \* read[r] : the locals of reader r
    \* history, read by properties only
    possible,  \* possible[r] : the right answers at some time since r began
    lost       \* list elements a pop removed before it failed

vars == <<store, clock, call, read, possible, lost>>

-----------------------------------------------------------------------------
\* Metadata and engine keys

ElementKey(k, version, m) == <<k, version, m>>
ScoreKey(k, version, s, m) == <<k, version, s, m>>

VersionZero == 0
NewVersion == clock

WrongType(k, t) == k \in DOMAIN store /\ store[k].type # t

\* findMetadata: a key that is not there gets a version no key had before.
Metadata(k, t) ==
    IF k \in DOMAIN store THEN store[k]
    ELSE [type |-> t, version |-> NewVersion, size |-> 0,
          head |-> InitialListMark, tail |-> InitialListMark]

HasElements(k, t) == ~WrongType(k, t) /\ Metadata(k, t).size # 0

\* A batch: writes[e] is the new value of engine key e, or Gone.
Applied(writes) ==
    LET left == {e \in DOMAIN writes : writes[e] = Gone}
    IN  [e \in (DOMAIN store \cup DOMAIN writes) \ left |->
            IF e \in DOMAIN writes THEN writes[e] ELSE store[e]]

Without(e) == [f \in DOMAIN store \ {e} |-> store[f]]

\* What the structure holds for the members asked for.
Answer(s, q) ==
    [m \in q.asked |->
        IF q.key \in DOMAIN s /\ s[q.key].type = q.type
           /\ ElementKey(q.key, s[q.key].version, m) \in DOMAIN s
        THEN s[ElementKey(q.key, s[q.key].version, m)] ELSE Gone]

\* A reader's right answers grow with every change of the store.
Observe ==
    possible' = [r \in Readers |->
        IF read[r] = NoCall THEN {} ELSE possible[r] \cup {Answer(store', read[r])}]

-----------------------------------------------------------------------------
\* The steps of a writer's call

At(c, step) == call[c].step = step
Return(c) == call' = [call EXCEPT ![c] = NoCall]

\* Every call starts with findMetadata; ErrWrongTypeOperation ends it there.
Start(c, op, k, t, m, x, step) ==
    /\ At(c, "idle") /\ ~WrongType(k, t)
    /\ k \in DOMAIN store \/ clock =< MaxVersion      \* bound
    /\ clock' = IF k \in DOMAIN store THEN clock ELSE clock + 1
    /\ call' = [call EXCEPT ![c] =
                  [op |-> op, key |-> k, member |-> m, arg |-> x,
                   meta |-> Metadata(k, t), step |-> step,
                   writes |-> <<>>, deletes |-> {}]]
    /\ UNCHANGED <<store, read, possible, lost>>

\* The batch of c: puts, and keys its wb.Delete is still to look up.
Stage(c, puts, deletes) ==
    call' = [call EXCEPT
               ![c].writes = puts, ![c].deletes = deletes,
               ![c].step = IF deletes = {} THEN "commit" ELSE "stage"]

Mine(c) == ElementKey(call[c].key, call[c].meta.version, call[c].member)
Exists(c) == Mine(c) \in DOMAIN store
Counted(c, d) == Entry(call[c].key, [call[c].meta EXCEPT !.size = @ + d])

HSetStart(c) == \E k \in KeysOf[c], m \in Members, x \in Values :
    Start(c, "HSet", k, "Hash", m, x, "look")
HDelStart(c) == \E k \in KeysOf[c], m \in Members :
    HasElements(k, "Hash") /\ Start(c, "HDel", k, "Hash", m, Nil, "look")
SAddStart(c) == \E k \in KeysOf[c], m \in Members :
    Start(c, "SAdd", k, "Set", m, Nil, "look")
SRemStart(c) == \E k \in KeysOf[c], m \in Members :
    HasElements(k, "Set") /\ Start(c, "SRem", k, "Set", m, Nil, "look")
ZAddStart(c) == \E k \in KeysOf[c], m \in Members, s \in Scores :
    Start(c, "ZAdd", k, "ZSet", m, s, "look")

\* The second read of a call: db.Get of the element.
CountAlways(c) == Counted(c, 1)
CountFirst(c) ==
    IF Exists(c) \/ call[c].meta.size # 0 THEN <<>> ELSE Counted(c, 1)
CountNew(c) == IF Exists(c) THEN <<>> ELSE Counted(c, 1)
Assigns(c) == CountNew(c) ++ Entry(Mine(c), call[c].arg)

HSetLook(c) ==
    /\ At(c, "look") /\ call[c].op = "HSet"
    /\ Stage(c, Assigns(c), {})
    /\ UNCHANGED <<store, clock, read, possible, lost>>

SAddLook(c) ==
    /\ At(c, "look") /\ call[c].op = "SAdd"
    /\ IF Exists(c) THEN Return(c)
       ELSE Stage(c, Assigns(c), {})
    /\ UNCHANGED <<store, clock, read, possible, lost>>

RemoveLook(c) ==
    /\ At(c, "look") /\ call[c].op \in {"HDel", "SRem"}
    /\ IF Exists(c) THEN Stage(c, Counted(c, -1), {Mine(c)}) ELSE Return(c)
    /\ UNCHANGED <<store, clock, read, possible, lost>>

ScoreKeyOf(c, s) ==
    ScoreKey(call[c].key, call[c].meta.version, s, call[c].member)
KeepOldScore(c) == {}
OldScore(c) == IF Exists(c) THEN {ScoreKeyOf(c, store[Mine(c)])} ELSE {}

AssignsScore(c) == Assigns(c) ++ Entry(ScoreKeyOf(c, call[c].arg), Nil)

ZAddLook(c) ==
    /\ At(c, "look") /\ call[c].op = "ZAdd"
    /\ IF Exists(c) /\ store[Mine(c)] = call[c].arg THEN Return(c)
       ELSE Stage(c, AssignsScore(c), OldScore(c))
    /\ UNCHANGED <<store, clock, read, possible, lost>>

\* wb.Delete drops what the index does not have.
StageDeletes(c) ==
    /\ At(c, "stage")
    /\ Stage(c, call[c].writes
                  ++ [e \in call[c].deletes \cap DOMAIN store |-> Gone], {})
    /\ UNCHANGED <<store, clock, read, possible, lost>>

Commit(c) ==
    /\ At(c, "commit")
    /\ store' = Applied(call[c].writes)
    /\ Return(c)
    /\ Observe
    /\ UNCHANGED <<clock, read, lost>>

\* pushInner: the new element goes before head or at tail.
PushStart(c, op) == \E k \in KeysOf[c], x \in Elements :
    /\ Start(c, op, k, "List", Nil, x, "push")
    /\ op = "LPush" => Metadata(k, "List").head > MinIndex      \* bound
    /\ op = "RPush" => Metadata(k, "List").tail =< MaxIndex     \* bound

PushAtHead(c) ==
    IF call[c].op = "LPush" THEN call[c].meta.head ELSE call[c].meta.tail
PushIndex(c) == IF call[c].op = "LPush" THEN call[c].meta.head - 1
                ELSE call[c].meta.tail
Pushed(c) == ElementKey(call[c].key, call[c].meta.version, PushIndex(c))
MetaAfterPush(c) ==
    LET left == call[c].op = "LPush"
    IN  [call[c].meta EXCEPT !.size = @ + 1,
                             !.head = IF left THEN @ - 1 ELSE @,
                             !.tail = IF left THEN @ ELSE @ + 1]
Pushes(c) == Entry(call[c].key, MetaAfterPush(c)) ++ Entry(Pushed(c), call[c].arg)

PushLook(c) ==
    /\ At(c, "push")
    /\ Stage(c, Pushes(c), {})
    /\ UNCHANGED <<store, clock, read, possible, lost>>

\* popInner: read the element, delete it, then put the metadata; no batch.
PopStart(c, op) == \E k \in KeysOf[c] :
    HasElements(k, "List") /\ Start(c, op, k, "List", Nil, Nil, "get")

PopIndex(c) == IF call[c].op = "LPop" THEN call[c].meta.head
               ELSE call[c].meta.tail - 1
Popped(c) == ElementKey(call[c].key, call[c].meta.version, PopIndex(c))
HeadStays(c) == [call[c].meta EXCEPT !.size = @ - 1]
MetaAfterPop(c) ==
    LET left == call[c].op = "LPop"
    IN  [call[c].meta EXCEPT !.size = @ - 1,
                             !.head = IF left THEN @ + 1 ELSE @,
                             !.tail = IF left THEN @ ELSE @ - 1]

PopGet(c) ==
    /\ At(c, "get")
    /\ IF Popped(c) \in DOMAIN store
       THEN call' = [call EXCEPT ![c].step = "delete"]
       ELSE Return(c)
    /\ UNCHANGED <<store, clock, read, possible, lost>>

PopDelete(c) ==
    /\ At(c, "delete")
    /\ store' = Without(Popped(c))
    /\ call' = [call EXCEPT ![c].step = "put"]
    /\ Observe
    /\ UNCHANGED <<clock, read, lost>>

PopPut(c) ==
    /\ At(c, "put")
    /\ store' = Entry(call[c].key, MetaAfterPop(c)) ++ store
    /\ Return(c)
    /\ Observe
    /\ UNCHANGED <<clock, read, lost>>

\* The engine returns an error, or the process dies there: the call is over.
CallFails(c) ==
    /\ \/ "batch" \in Faults /\ At(c, "commit")
       \/ "direct" \in Faults /\ (At(c, "delete") \/ At(c, "put"))
    /\ Return(c)
    /\ lost' = IF At(c, "put") THEN lost \cup {Popped(c)} ELSE lost
    /\ UNCHANGED <<store, clock, read, possible>>

\* Set puts the value whatever the key held; Delete deletes the key alone.
\* The elements of a structure stay behind, under a version nobody has.
Set(c) ==
    /\ At(c, "idle")
    /\ \E k \in KeysOf[c] : store' = Entry(k, Text) ++ store
    /\ Observe
    /\ UNCHANGED <<clock, call, read, lost>>

Delete(c) ==
    /\ At(c, "idle")
    /\ \E k \in KeysOf[c] : k \in DOMAIN store /\ store' = Without(k)
    /\ Observe
    /\ UNCHANGED <<clock, call, read, lost>>

-----------------------------------------------------------------------------
\* Readers: HGet, SIsMember and ZScore ask for one member; HKeys, HValues and
\* HGetAll take an iterator, which is a snapshot, over all of them.

Lookup(k, version, asked) ==
    [m \in asked |->
        LET e == ElementKey(k, version, m)
        IN  IF e \in DOMAIN store THEN store[e] ELSE Gone]

Questions(t) == {{m} : m \in Members} \cup IF t = "Hash" THEN {Members} ELSE {}

ReadStart(r) ==
    /\ read[r] = NoCall
    /\ \E k \in Keys, t \in Structures : \E asked \in Questions(t) :
          /\ ~WrongType(k, t)
          /\ read' = [read EXCEPT ![r] =
                        [key |-> k, type |-> t, asked |-> asked,
                         version |-> Metadata(k, t).version,
                         step |-> IF HasElements(k, t) THEN "look" ELSE "done",
                         got |-> [m \in asked |-> Gone]]]
    /\ possible' = [possible EXCEPT ![r] = {Answer(store, read'[r])}]
    /\ UNCHANGED <<store, clock, call, lost>>

ReadLook(r) ==
    /\ read[r].step = "look"
    /\ read' = [read EXCEPT
                  ![r].got = Lookup(read[r].key, read[r].version, read[r].asked),
                  ![r].step = "done"]
    /\ UNCHANGED <<store, clock, call, possible, lost>>

ReadReturn(r) ==
    /\ read[r].step = "done"
    /\ read' = [read EXCEPT ![r] = NoCall]
    /\ possible' = [possible EXCEPT ![r] = {}]
    /\ UNCHANGED <<store, clock, call, lost>>

-----------------------------------------------------------------------------
Init ==
    /\ store = <<>>
    /\ clock = 1
    /\ call = [c \in Writers |-> NoCall]
    /\ read = [r \in Readers |-> NoCall]
    /\ possible = [r \in Readers |-> {}]
    /\ lost = {}

MembersStep(c) ==
    \/ HSetStart(c) \/ HDelStart(c) \/ SAddStart(c) \/ SRemStart(c)
    \/ ZAddStart(c)
    \/ HSetLook(c) \/ SAddLook(c) \/ RemoveLook(c) \/ ZAddLook(c)
    \/ StageDeletes(c) \/ Commit(c)

ListStep(c) ==
    \/ \E op \in {"LPush", "RPush"} : PushStart(c, op)
    \/ \E op \in {"LPop", "RPop"} : PopStart(c, op)
    \/ PushLook(c) \/ PopGet(c) \/ PopDelete(c) \/ PopPut(c)

Writing(c) ==
    MembersStep(c) \/ ListStep(c) \/ CallFails(c) \/ Set(c) \/ Delete(c)
Reading(r) == ReadStart(r) \/ ReadLook(r) \/ ReadReturn(r)

Next == (\E c \in Writers : Writing(c)) \/ (\E r \in Readers : Reading(r))

Spec == Init /\ [][Next]_vars
=============================================================================
