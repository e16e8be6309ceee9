----------------------------- MODULE RedisProofs -----------------------------
(***************************************************************************)
(* The Redis data types with one writer per key: metadata agree with the   *)
(* elements, readers get an answer of some instant of their call, and      *)
(* every call is one step of Structures.                                   *)
(***************************************************************************)
EXTENDS RedisInvariant, FiniteSetTheorems, WellFoundedInduction, TLAPS

-----------------------------------------------------------------------------
\* Maps and engine keys

LEMMA EntryReads ==
    ASSUME NEW e, NEW x
    PROVE  DOMAIN Entry(e, x) = {e} /\ Entry(e, x)[e] = x
  BY DEF Entry

LEMMA OverReads ==
    ASSUME NEW f, NEW g
    PROVE  /\ DOMAIN (f ++ g) = DOMAIN f \cup DOMAIN g
           /\ \A e \in DOMAIN f : (f ++ g)[e] = f[e]
           /\ \A e \in DOMAIN g \ DOMAIN f : (f ++ g)[e] = g[e]
  BY DEF ++

\* The three kinds of engine keys are apart.
LEMMA ElementKeyIs ==
    ASSUME NEW k \in Keys, NEW v \in Nat, NEW m \in Members \cup Int
    PROVE  /\ ElementKey(k, v, m) \notin Keys
           /\ ElementKey(k, v, m)[1] = k /\ ElementKey(k, v, m)[2] = v
           /\ ElementKey(k, v, m)[3] = m
  BY RedisAssumption DEF ElementKey, ElementKeys

LEMMA ScoreKeyIs ==
    ASSUME NEW k \in Keys, NEW v \in Nat, NEW s \in Scores, NEW m \in Members
    PROVE  /\ ScoreKey(k, v, s, m) \notin Keys
           /\ ScoreKey(k, v, s, m)[1] = k /\ ScoreKey(k, v, s, m)[2] = v
           /\ ScoreKey(k, v, s, m)[3] = s /\ ScoreKey(k, v, s, m)[4] = m
  BY RedisAssumption DEF ScoreKey, ScoreKeys

LEMMA KeysApart ==
    ASSUME NEW j, NEW k, NEW v, NEW w, NEW s, NEW m, NEW n
    PROVE  ElementKey(j, v, m) # ScoreKey(k, w, s, n)
  <1>1. Len(ElementKey(j, v, m)) = 3 /\ Len(ScoreKey(k, w, s, n)) = 4
    BY DEF ElementKey, ScoreKey
  <1> QED BY <1>1

-----------------------------------------------------------------------------
\* What a step leaves alone

\* Engine key e is, or is under, key k; a step leaves e as it is.
About(e, k) == e = k \/ (e \notin Keys /\ e[1] = k)
Same(e) ==
    /\ e \in DOMAIN store' <=> e \in DOMAIN store
    /\ e \in DOMAIN store => store'[e] = store[e]
SameUnder(j) == \A e : e \notin Keys /\ e[1] = j => Same(e)
Elsewhere(k) == \A e : ~About(e, k) => Same(e)
SameGone(j) == \A e : e[1] = j =>
    (e \in lost' \cup BeingPopped' <=> e \in lost \cup BeingPopped)

\* Metadata stay sound while the elements stay; an element that is lost must be
\* one of the list.
LEMMA SoundKept ==
    ASSUME NEW j \in Keys, NEW d, Sound(j, d), clock \in Nat, clock' \in Nat, clock =< clock',
           SameUnder(j), SameGone(j),
           \A e \in lost' \ lost : e[1] = j /\ e[2] = d.version => e \in Cells(j, d)
    PROVE  Sound(j, d)'
  <1>1. d \in Metas /\ d.version < clock
    BY DEF Sound
  <1>2. d.version \in Nat /\ d.version < clock' /\ d.head \in Int /\ d.tail \in Int
    BY <1>1 DEF Metas
  <1>3. \A m \in Members : Same(ElementKey(j, d.version, m))
    BY <1>2, ElementKeyIs DEF SameUnder
  <1>4. MembersAt(j, d.version)' = MembersAt(j, d.version)
    BY <1>3 DEF MembersAt, Same
  <1>5. Counts(j, d) => Counts(j, d)'
    BY <1>4 DEF Counts
  <1>6. ASSUME Scored(j, d)
        PROVE  Scored(j, d)'
    <2> SUFFICES ASSUME NEW m \in Members
                 PROVE  {s \in Scores : ScoreKey(j, d.version, s, m) \in DOMAIN store'} =
                          IF m \in MembersAt(j, d.version)'
                          THEN {store'[ElementKey(j, d.version, m)]} ELSE {}
      BY DEF Scored
    <2>1. {s \in Scores : ScoreKey(j, d.version, s, m) \in DOMAIN store'}
            = {s \in Scores : ScoreKey(j, d.version, s, m) \in DOMAIN store}
      BY <1>2, ScoreKeyIs DEF SameUnder, Same
    <2>2. {s \in Scores : ScoreKey(j, d.version, s, m) \in DOMAIN store} =
                          IF m \in MembersAt(j, d.version)
                          THEN {store[ElementKey(j, d.version, m)]} ELSE {}
      BY <1>6 DEF Scored
    <2>3. m \in MembersAt(j, d.version) =>
             store'[ElementKey(j, d.version, m)] = store[ElementKey(j, d.version, m)]
      BY <1>3 DEF MembersAt, Same
    <2> QED BY <1>4, <2>1, <2>2, <2>3
  <1>7. ASSUME Listed(j, d)
        PROVE  Listed(j, d)'
    <2>1. Under(j, d.version)' = Under(j, d.version)
      BY DEF Under, SameUnder, Same
    <2>2. LostUnder(j, d.version)' \subseteq LostUnder(j, d.version) \cup Cells(j, d)
      BY DEF LostUnder
    <2>3. \A e \in Cells(j, d) : e[1] = j
      BY <1>2, ElementKeyIs DEF Cells
    <2>4. Cells(j, d) \ (lost' \cup BeingPopped') = Cells(j, d) \ (lost \cup BeingPopped)
      BY <2>3 DEF SameGone
    <2>5. Cells(j, d)' = Cells(j, d)
      BY DEF Cells
    <2> QED BY <1>7, <2>1, <2>2, <2>4, <2>5 DEF Listed
  <1> QED BY <1>1, <1>2, <1>5, <1>6, <1>7 DEF Sound

-----------------------------------------------------------------------------
\* A step of writer c on its key k, and what the other calls hold

WriterStep(c, k) ==
    /\ k \in KeysOf[c] /\ Elsewhere(k)
    /\ call' = [d \in Writers |-> call'[d]]
    /\ \A d \in Writers \ {c} : call'[d] = call[d]
    /\ call[c].step = "put" => call[c].key = k
    /\ call'[c].step = "put" => call'[c].key = k
    /\ clock' \in Nat /\ clock =< clock'
    /\ \A e : e[1] # k => (e \in lost' <=> e \in lost)

LEMMA CallIs ==
    ASSUME CallsInv, NEW c \in Writers, call[c] # NoCall
    PROVE  /\ call[c].key \in KeysOf[c] /\ call[c].key \in Keys
           /\ DOMAIN call[c] = CallFields
           /\ call[c].meta \in Metas
           /\ call[c].step \in {"look", "stage", "commit", "push", "get", "delete", "put"}
           /\ Current(c)
           /\ Assigning(c) \/ Scoring(c) \/ Removing(c) \/ Pushing(c) \/ Popping(c)
  <1>1. CallInv(c)
    BY DEF CallsInv
  <1>2. Current(c) /\ DOMAIN call[c] = CallFields
    BY <1>1 DEF CallInv
  <1>3. Assigning(c) \/ Scoring(c) \/ Removing(c) \/ Pushing(c) \/ Popping(c)
    BY <1>1 DEF CallInv
  <1>4. call[c].step \in {"look", "stage", "commit", "push", "get", "delete", "put"}
    BY <1>3 DEF Assigning, Scoring, Removing, Pushing, Popping
  <1> QED BY <1>2, <1>3, <1>4, RedisAssumption DEF Current, Sound

LEMMA IdleIs ==
    ASSUME CallsInv, NEW c \in Writers, call[c].step = "idle"
    PROVE  call[c] = NoCall
  BY CallIs

LEMMA GoneElsewhere ==
    ASSUME NEW c \in Writers, NEW k, WriterStep(c, k), NEW j, j # k
    PROVE  SameGone(j)
  <1>1. \A d : Popped(d)[1] = call[d].key /\ Popped(d)'[1] = call'[d].key
    BY DEF Popped, ElementKey
  <1>2. \A d \in Writers \ {c} :
           /\ call'[d].step = "put" <=> call[d].step = "put"
           /\ Popped(d)' = Popped(d)
    BY DEF WriterStep, Popped, PopIndex
  <1>3. SUFFICES ASSUME NEW e, e[1] = j
                 PROVE  e \in BeingPopped' <=> e \in BeingPopped
    BY DEF SameGone, WriterStep
  <1>4. ASSUME e \in BeingPopped
        PROVE  e \in BeingPopped'
    <2>1. PICK d \in Writers : call[d].step = "put" /\ e = Popped(d)
      BY <1>4 DEF BeingPopped, At
    <2>2. d # c
      BY <1>1, <1>3, <2>1 DEF WriterStep
    <2> QED BY <1>2, <2>1, <2>2 DEF BeingPopped, At
  <1>5. ASSUME e \in BeingPopped'
        PROVE  e \in BeingPopped
    <2>1. PICK d \in Writers : call'[d].step = "put" /\ e = Popped(d)'
      BY <1>5 DEF BeingPopped, At
    <2>2. d # c
      BY <1>1, <1>3, <2>1 DEF WriterStep
    <2> QED BY <1>2, <2>1, <2>2 DEF BeingPopped, At
  <1> QED BY <1>4, <1>5

LEMMA SoundElsewhere ==
    ASSUME StoreInv, NEW c \in Writers, NEW k, WriterStep(c, k),
           NEW j \in Keys, j # k, NEW d, Sound(j, d)
    PROVE  Sound(j, d)' /\ Same(j)
  <1>1. SameUnder(j) /\ Same(j)
    <2>1. k \in Keys
      BY RedisAssumption DEF WriterStep
    <2> QED BY <2>1 DEF WriterStep, Elsewhere, SameUnder, About
  <1>2. \A e \in lost' \ lost : e[1] # j
    BY DEF WriterStep
  <1> QED BY <1>1, <1>2, GoneElsewhere, SoundKept DEF StoreInv, WriterStep

LEMMA OtherCall ==
    ASSUME OneWriterPerKey, StoreInv, CallsInv, NEW c \in Writers, NEW k, WriterStep(c, k),
           NEW d \in Writers \ {c}
    PROVE  CallInv(d)'
  <1>1. CASE call[d] = NoCall
    BY <1>1 DEF WriterStep, CallInv
  <1>2. CASE call[d] # NoCall
    <2>1. PICK q : q = call[d]
      OBVIOUS
    <2>2. call'[d] = q
      BY <2>1 DEF WriterStep
    <2>3. /\ q.key \in KeysOf[d] /\ q.key \in Keys /\ DOMAIN q = CallFields
          /\ q.meta \in Metas /\ Current(d)
          /\ Assigning(d) \/ Scoring(d) \/ Removing(d) \/ Pushing(d) \/ Popping(d)
      BY <1>2, <2>1, CallIs
    <2>4. q.key # k
      BY <2>3 DEF OneWriterPerKey, WriterStep
    <2>5. Sound(q.key, q.meta)' /\ Same(q.key)
      BY <2>1, <2>3, <2>4, SoundElsewhere DEF Current
    <2>6. Current(d)'
      BY <2>1, <2>2, <2>3, <2>5 DEF Current, Same
    <2>7. ASSUME NEW x \in Members \cup Int
          PROVE  Same(<<q.key, q.meta.version, x>>)
      <3>1. k \in Keys /\ q.meta.version \in Nat
        BY <2>3, RedisAssumption DEF WriterStep, Metas
      <3>2. ~About(ElementKey(q.key, q.meta.version, x), k)
        BY <2>3, <2>4, <3>1, ElementKeyIs DEF About
      <3> QED BY <3>2 DEF WriterStep, Elsewhere, ElementKey
    <2>8. /\ Popped(d)' = Popped(d)
          /\ Popped(d) \in DOMAIN store' <=> Popped(d) \in DOMAIN store
          /\ Popped(d) \in lost' <=> Popped(d) \in lost
      <3>1. PopIndex(d) \in Int
        BY <2>1, <2>3 DEF PopIndex, Metas
      <3>2. Popped(d) = <<q.key, q.meta.version, PopIndex(d)>> /\ Popped(d)[1] = q.key
        BY <2>1 DEF Popped, ElementKey
      <3>3. Popped(d)' = Popped(d)
        BY <2>1, <2>2 DEF Popped, PopIndex
      <3>4. Same(Popped(d))
        BY <2>7, <3>1, <3>2
      <3> QED BY <2>4, <3>2, <3>3, <3>4 DEF WriterStep, Same
    <2>9. Counted(d, 1)' = Counted(d, 1) /\ Counted(d, -1)' = Counted(d, -1)
      BY <2>1, <2>2 DEF Counted
    <2>10. ASSUME q.member \in Members
           PROVE  /\ Mine(d)' = Mine(d) /\ Exists(d)' = Exists(d)
                  /\ Exists(d) => store'[Mine(d)] = store[Mine(d)]
                  /\ Assigns(d)' = Assigns(d) /\ AssignsScore(d)' = AssignsScore(d)
                  /\ OldScore(d)' = OldScore(d)
      <3>1. Mine(d)' = Mine(d) /\ Same(Mine(d))
        BY <2>1, <2>2, <2>7, <2>10 DEF Mine, ElementKey
      <3>2. Exists(d)' = Exists(d) /\ (Exists(d) => store'[Mine(d)] = store[Mine(d)])
        BY <3>1 DEF Exists, Same
      <3>3. Assigns(d)' = Assigns(d)
        BY <2>1, <2>2, <2>9, <3>1, <3>2 DEF Assigns, CountNew
      <3>4. AssignsScore(d)' = AssignsScore(d)
        BY <2>1, <2>2, <3>3 DEF AssignsScore, ScoreKeyOf
      <3>5. OldScore(d)' = OldScore(d)
        BY <2>1, <2>2, <3>1, <3>2 DEF OldScore, ScoreKeyOf
      <3> QED BY <3>1, <3>2, <3>3, <3>4, <3>5
    <2>12. Pushes(d)' = Pushes(d)
      BY <2>1, <2>2 DEF Pushes, MetaAfterPush, Pushed, PushIndex
    <2>13. CASE Assigning(d)
      BY <2>1, <2>2, <2>3, <2>6, <2>10, <2>13 DEF CallInv, Assigning, At
    <2>14. CASE Scoring(d)
      BY <2>1, <2>2, <2>3, <2>6, <2>10, <2>14 DEF CallInv, Scoring, At
    <2>15. CASE Removing(d)
      BY <2>1, <2>2, <2>3, <2>6, <2>9, <2>10, <2>15 DEF CallInv, Removing, At
    <2>16. CASE Pushing(d)
      BY <2>1, <2>2, <2>3, <2>6, <2>12, <2>16 DEF CallInv, Pushing, At
    <2>17. CASE Popping(d)
      BY <2>1, <2>2, <2>3, <2>6, <2>8, <2>17 DEF CallInv, Popping, At
    <2> QED BY <2>3, <2>13, <2>14, <2>15, <2>16, <2>17
  <1> QED BY <1>1, <1>2

\* What a step of c on k has to show.
LEMMA WriterKeeps ==
    ASSUME OneWriterPerKey, StoreInv, CallsInv, NEW c \in Writers, NEW k, WriterStep(c, k),
           k \in DOMAIN store' => store'[k] = Text \/ Sound(k, store[k])',
           \A e \in (DOMAIN store' \ Keys) \cup lost' : e[1] = k => e[2] \in 0 .. (clock' - 1),
           CallInv(c)'
    PROVE  StoreInv' /\ CallsInv'
  <1>1. k \in Keys
    BY RedisAssumption DEF WriterStep
  <1>2. \A e \in (DOMAIN store' \ Keys) \cup lost' : e[2] \in 0 .. (clock' - 1)
    <2> SUFFICES ASSUME NEW e \in (DOMAIN store' \ Keys) \cup lost', e[1] # k
                 PROVE  e[2] \in 0 .. (clock' - 1)
      OBVIOUS
    <2>1. e \in DOMAIN store' \ Keys => e \in DOMAIN store \ Keys
      BY <1>1 DEF WriterStep, Elsewhere, About, Same
    <2>2. e \in lost' => e \in lost
      BY DEF WriterStep
    <2>3. \A f \in (DOMAIN store \ Keys) \cup lost : f[2] \in 0 .. (clock - 1)
      BY DEF StoreInv
    <2> QED BY <2>1, <2>2, <2>3 DEF StoreInv, WriterStep
  <1>3. ASSUME NEW j \in Keys \cap DOMAIN store', j # k
        PROVE  store'[j] = Text \/ Sound(j, store[j])'
    <2>1. Same(j)
      BY <1>3 DEF WriterStep, Elsewhere, About
    <2>2. PICK d : d = store[j]
      OBVIOUS
    <2>3. store'[j] = d /\ (d = Text \/ Sound(j, d))
      BY <1>3, <2>1, <2>2 DEF Same, StoreInv
    <2>4. Sound(j, d) => Sound(j, d)'
      BY <1>3, SoundElsewhere
    <2> QED BY <2>3, <2>4
  <1>4. StoreInv'
    BY <1>2, <1>3 DEF StoreInv, WriterStep
  <1>5. CallsInv'
    BY OtherCall DEF CallsInv, WriterStep
  <1> QED BY <1>4, <1>5

-----------------------------------------------------------------------------
\* Steps that change a call and nothing else

CallBecomes(c, q) == call' = [call EXCEPT ![c] = q]

LEMMA CallRows ==
    ASSUME CallsInv, NEW c \in Writers, NEW q, CallBecomes(c, q)
    PROVE  /\ call' = [d \in Writers |-> call'[d]]
           /\ call'[c] = q
           /\ \A d \in Writers \ {c} : call'[d] = call[d]
  <1>1. call = [d \in Writers |-> call[d]]
    BY DEF CallsInv
  <1>2. DOMAIN call = Writers
    BY <1>1
  <1> QED BY <1>1, <1>2 DEF CallBecomes

LEMMA PoppedSame ==
    ASSUME CallsInv, NEW c \in Writers, NEW q, CallBecomes(c, q),
           call[c].step # "put", q.step # "put"
    PROVE  BeingPopped' = BeingPopped
  <1>1. /\ call'[c] = q
        /\ \A d \in Writers \ {c} : call'[d] = call[d]
    BY CallRows
  <1>2. \A d \in Writers : call'[d].step = "put" <=> call[d].step = "put"
    BY <1>1
  <1>3. \A d \in Writers : call[d].step = "put" => Popped(d)' = Popped(d)
    BY <1>1 DEF Popped, PopIndex
  <1>4. ASSUME NEW e \in BeingPopped
        PROVE  e \in BeingPopped'
    BY <1>2, <1>3, <1>4 DEF BeingPopped, At
  <1>5. ASSUME NEW e \in BeingPopped'
        PROVE  e \in BeingPopped
    BY <1>2, <1>3, <1>5 DEF BeingPopped, At
  <1> QED BY <1>4, <1>5

LEMMA QuietStep ==
    ASSUME StoreInv, CallsInv, NEW c \in Writers, NEW q, CallBecomes(c, q),
           call[c].step # "put", q.step # "put",
           UNCHANGED <<store, lost>>, clock' \in Nat, clock =< clock'
    PROVE  /\ \A k \in KeysOf[c] : WriterStep(c, k)
           /\ \A j \in Keys : \A d : Sound(j, d) => Sound(j, d)'
           /\ \A e \in (DOMAIN store' \ Keys) \cup lost' : e[2] \in 0 .. (clock' - 1)
  <1>1. \A e : Same(e)
    BY DEF Same
  <1>2. ASSUME NEW j \in Keys, NEW d, Sound(j, d)
        PROVE  Sound(j, d)'
    <2>1. SameUnder(j) /\ SameGone(j)
      BY <1>1, PoppedSame DEF SameUnder, SameGone
    <2> QED BY <1>2, <2>1, SoundKept DEF StoreInv
  <1>3. \A e \in (DOMAIN store' \ Keys) \cup lost' : e[2] \in 0 .. (clock' - 1)
    <2>1. \A e \in (DOMAIN store \ Keys) \cup lost : e[2] \in 0 .. (clock - 1)
      BY DEF StoreInv
    <2> QED BY <2>1 DEF StoreInv
  <1>4. ASSUME NEW k \in KeysOf[c]
        PROVE  WriterStep(c, k)
    BY <1>1, <1>4, CallRows DEF WriterStep, Elsewhere
  <1> QED BY <1>2, <1>3, <1>4

LEMMA QuietKeeps ==
    ASSUME OneWriterPerKey, StoreInv, CallsInv, NEW c \in Writers, NEW q, CallBecomes(c, q),
           call[c].step # "put", q.step # "put",
           UNCHANGED <<store, lost>>, clock' \in Nat, clock =< clock',
           NEW k \in KeysOf[c], CallInv(c)'
    PROVE  StoreInv' /\ CallsInv'
  <1>1. /\ WriterStep(c, k)
        /\ \A j \in Keys : \A d : Sound(j, d) => Sound(j, d)'
        /\ \A e \in (DOMAIN store' \ Keys) \cup lost' : e[2] \in 0 .. (clock' - 1)
    BY QuietStep
  <1>2. ASSUME k \in DOMAIN store'
        PROVE  store'[k] = Text \/ Sound(k, store[k])'
    <2>1. PICK d : d = store[k]
      OBVIOUS
    <2>2. k \in Keys
      BY RedisAssumption
    <2>3. d = Text \/ Sound(k, d)
      BY <1>2, <2>1, <2>2 DEF StoreInv
    <2> QED BY <1>1, <2>1, <2>2, <2>3
  <1> QED BY <1>1, <1>2, WriterKeeps

\* The call of c ends.
LEMMA ReturnKeeps ==
    ASSUME OneWriterPerKey, StoreInv, CallsInv, NEW c \in Writers, Return(c),
           call[c] # NoCall, call[c].step # "put", UNCHANGED <<store, clock, lost>>
    PROVE  StoreInv' /\ CallsInv'
  <1>1. CallBecomes(c, NoCall) /\ NoCall.step # "put"
    BY DEF Return, CallBecomes, NoCall
  <1>2. CallInv(c)'
    BY <1>1, CallRows DEF CallInv
  <1>3. call[c].key \in KeysOf[c]
    BY CallIs
  <1>4. PICK k \in KeysOf[c] : TRUE
    BY <1>3
  <1> QED BY <1>1, <1>2, <1>4, QuietKeeps DEF StoreInv

-----------------------------------------------------------------------------
\* A call starts

\* Nothing is under a version that has just been made.
LEMMA FreshSound ==
    ASSUME StoreInv, NEW k \in Keys, NEW t \in Structures \cup {"List"}, NEW d,
           d = [type |-> t, version |-> clock, size |-> 0, head |-> 0, tail |-> 0],
           UNCHANGED <<store, lost>>, clock' = clock + 1
    PROVE  Sound(k, d)'
  <1>1. clock \in Nat /\ \A e \in (DOMAIN store \ Keys) \cup lost : e[2] < clock
    BY DEF StoreInv
  <1>2. d \in Metas /\ d.version < clock'
    BY <1>1 DEF Metas
  <1>3. MembersAt(k, d.version)' = {}
    BY <1>1, ElementKeyIs DEF MembersAt
  <1>4. Counts(k, d)'
    BY <1>3, FS_EmptySet DEF Counts
  <1>5. Scored(k, d)'
    <2>1. \A m \in Members, s \in Scores : ScoreKey(k, d.version, s, m) \notin DOMAIN store'
      BY <1>1, ScoreKeyIs
    <2> QED BY <1>3, <2>1 DEF Scored
  <1>6. Listed(k, d)'
    <2>1. Under(k, d.version)' = {} /\ LostUnder(k, d.version)' = {}
      BY <1>1 DEF Under, LostUnder
    <2>2. Cells(k, d)' = {}
      BY DEF Cells
    <2> QED BY <2>1, <2>2 DEF Listed
  <1> QED BY <1>2, <1>4, <1>5, <1>6 DEF Sound

LEMMA StartIs ==
    ASSUME OneWriterPerKey, StoreInv, CallsInv, NEW c \in Writers, NEW k \in KeysOf[c],
           NEW t \in Structures \cup {"List"}, NEW op, NEW m, NEW x, NEW step,
           Start(c, op, k, t, m, x, step), step # "put"
    PROVE  \E q : /\ CallBecomes(c, q) /\ call'[c] = q /\ q.step = step /\ q.step # "put"
                  /\ q.op = op /\ q.key = k /\ q.member = m /\ q.arg = x
                  /\ q.meta = Metadata(k, t) /\ q.meta.type = t
                  /\ DOMAIN q = CallFields
                  /\ Current(c)'
                  /\ call[c] = NoCall
                  /\ clock' \in Nat /\ clock =< clock'
                  /\ UNCHANGED <<store, read, possible, lost>>
  <1>1. k \in Keys
    BY RedisAssumption
  <1>2. PICK d : d = Metadata(k, t)
    OBVIOUS
  <1>3. PICK q : q = [op |-> op, key |-> k, member |-> m, arg |-> x,
                      meta |-> d, step |-> step, writes |-> <<>>, deletes |-> {}]
    OBVIOUS
  <1>4. /\ q.step = step /\ q.op = op /\ q.key = k /\ q.member = m /\ q.arg = x
        /\ q.meta = d /\ DOMAIN q = CallFields
    BY <1>3 DEF CallFields
  <1>5. CallBecomes(c, q)
    BY <1>2, <1>3 DEF Start, CallBecomes
  <1>6. call'[c] = q
    BY <1>5, CallRows
  <1>7. call[c] = NoCall /\ NoCall.step # "put"
    BY IdleIs DEF Start, At, NoCall
  <1>8. clock \in Nat /\ clock' \in Nat /\ clock =< clock'
    BY DEF Start, StoreInv
  <1>9. d.type = t /\ Sound(k, d)'
    <2>1. CASE k \in DOMAIN store
      <3>1. d = store[k] /\ d.type = t
        BY <1>2, <2>1 DEF Metadata, Start, WrongType
      <3>2. d # Text
        BY <3>1 DEF Text, Structures
      <3>3. Sound(k, d)
        BY <1>1, <2>1, <3>1, <3>2 DEF StoreInv
      <3>4. call[c].step # "put"
        BY <1>7
      <3>5. UNCHANGED <<store, lost>>
        BY DEF Start
      <3>6. step = q.step
        BY <1>4
      <3> QED BY <1>1, <1>5, <1>8, <3>1, <3>3, <3>4, <3>5, <3>6, QuietStep
    <2>2. CASE k \notin DOMAIN store
      <3>1. d = [type |-> t, version |-> clock, size |-> 0, head |-> 0, tail |-> 0]
        BY <1>2, <2>2 DEF Metadata, NewVersion, InitialListMark
      <3>2. clock' = clock + 1 /\ UNCHANGED <<store, lost>>
        BY <2>2 DEF Start
      <3> QED BY <1>1, <3>1, <3>2, FreshSound
    <2> QED BY <2>1, <2>2
  <1>10. Current(c)'
    <2>1. UNCHANGED store
      BY DEF Start
    <2>2. k \in DOMAIN store => d = store[k]
      BY <1>2 DEF Metadata
    <2>3. k \notin DOMAIN store => d.size = 0
      BY <1>2 DEF Metadata
    <2> QED BY <1>4, <1>6, <1>9, <2>1, <2>2, <2>3 DEF Current
  <1> QED BY <1>2, <1>4, <1>5, <1>6, <1>7, <1>8, <1>9, <1>10 DEF Start

LEMMA StartKeeps ==
    ASSUME OneWriterPerKey, StoreInv, CallsInv, NEW c \in Writers, NEW k \in KeysOf[c],
           NEW t \in Structures \cup {"List"}, NEW op, NEW m, NEW x, NEW step,
           Start(c, op, k, t, m, x, step),
           \/ /\ m \in Members /\ step = "look"
              /\ \/ op = "HSet" /\ t = "Hash" /\ x \in Values
                 \/ op = "SAdd" /\ t = "Set" /\ x = Nil
                 \/ op = "ZAdd" /\ t = "ZSet" /\ x \in Scores
                 \/ op = "HDel" /\ t = "Hash"
                 \/ op = "SRem" /\ t = "Set"
           \/ op \in {"LPush", "RPush"} /\ t = "List" /\ x \in Elements /\ step = "push"
           \/ /\ op \in {"LPop", "RPop"} /\ t = "List" /\ step = "get"
              /\ HasElements(k, t)
    PROVE  StoreInv' /\ CallsInv'
  <1>1. step \in {"look", "push", "get"}
    OBVIOUS
  <1>2. PICK q : /\ CallBecomes(c, q) /\ call'[c] = q /\ q.step = step /\ q.step # "put"
                 /\ q.op = op /\ q.key = k /\ q.member = m /\ q.arg = x
                 /\ q.meta = Metadata(k, t) /\ q.meta.type = t
                 /\ DOMAIN q = CallFields
                 /\ Current(c)'
                 /\ call[c] = NoCall
                 /\ clock' \in Nat /\ clock =< clock'
                 /\ UNCHANGED <<store, read, possible, lost>>
    BY <1>1, StartIs
  <1>3. Assigning(c)' \/ Scoring(c)' \/ Removing(c)' \/ Pushing(c)' \/ Popping(c)'
    <2>1. CASE op \in {"HSet", "SAdd"}
      BY <1>2, <2>1 DEF Assigning, At
    <2>2. CASE op = "ZAdd"
      BY <1>2, <2>2 DEF Scoring, At
    <2>3. CASE op \in {"HDel", "SRem"}
      BY <1>2, <2>3 DEF Removing, At
    <2>4. CASE op \in {"LPush", "RPush"}
      BY <1>2, <2>4 DEF Pushing, At
    <2>5. CASE op \in {"LPop", "RPop"}
      BY <1>2, <2>5 DEF Popping, At, HasElements
    <2> QED BY <2>1, <2>2, <2>3, <2>4, <2>5
  <1>4. CallInv(c)'
    BY <1>2, <1>3 DEF CallInv
  <1>5. call[c].step # "put"
    BY <1>2 DEF NoCall
  <1> QED BY <1>2, <1>4, <1>5, QuietKeeps

-----------------------------------------------------------------------------
\* A call goes on: it looks at the store and puts its batch together

GoesOn(c, q) ==
    /\ CallBecomes(c, q) /\ call'[c] = q /\ DOMAIN q = CallFields
    /\ q.op = call[c].op /\ q.key = call[c].key /\ q.member = call[c].member
    /\ q.arg = call[c].arg /\ q.meta = call[c].meta

LEMMA GoesOnIs ==
    ASSUME StoreInv, CallsInv, NEW c \in Writers, NEW q, GoesOn(c, q),
           call[c] # NoCall, call[c].step # "put", q.step # "put",
           UNCHANGED <<store, clock, lost>>
    PROVE  /\ Current(c)'
           /\ Mine(c)' = Mine(c) /\ Exists(c)' = Exists(c)
           /\ Counted(c, -1)' = Counted(c, -1)
           /\ Assigns(c)' = Assigns(c) /\ AssignsScore(c)' = AssignsScore(c)
           /\ OldScore(c)' = OldScore(c) /\ Pushes(c)' = Pushes(c)
           /\ Popped(c)' = Popped(c)
  <1>1. Current(c) /\ call[c].key \in Keys /\ call[c].key \in KeysOf[c]
    BY CallIs
  <1>2. PICK k, d : k = call[c].key /\ d = call[c].meta
    OBVIOUS
  <1>3. Sound(k, d)
    BY <1>1, <1>2 DEF Current
  <1>4. Sound(k, d)'
    BY <1>1, <1>2, <1>3, QuietStep DEF GoesOn, StoreInv
  <1>5. Current(c)'
    BY <1>1, <1>2, <1>4 DEF Current, GoesOn
  <1>6. Mine(c)' = Mine(c)
    BY DEF Mine, GoesOn
  <1>7. Exists(c)' = Exists(c)
    BY <1>6 DEF Exists
  <1>8. Counted(c, -1)' = Counted(c, -1) /\ Counted(c, 1)' = Counted(c, 1)
    BY DEF Counted, GoesOn
  <1>9. Assigns(c)' = Assigns(c)
    BY <1>6, <1>7, <1>8 DEF Assigns, CountNew, GoesOn
  <1>10. AssignsScore(c)' = AssignsScore(c)
    BY <1>9 DEF AssignsScore, ScoreKeyOf, GoesOn
  <1>11. OldScore(c)' = OldScore(c)
    BY <1>6, <1>7 DEF OldScore, ScoreKeyOf, GoesOn
  <1>12. Pushes(c)' = Pushes(c)
    BY DEF Pushes, MetaAfterPush, Pushed, PushIndex, GoesOn
  <1>13. Popped(c)' = Popped(c)
    BY DEF Popped, PopIndex, GoesOn
  <1> QED BY <1>5, <1>6, <1>7, <1>8, <1>9, <1>10, <1>11, <1>12, <1>13

LEMMA GoesOnKeeps ==
    ASSUME OneWriterPerKey, StoreInv, CallsInv, NEW c \in Writers, NEW q, GoesOn(c, q),
           call[c] # NoCall, call[c].step # "put", q.step # "put",
           UNCHANGED <<store, clock, lost>>,
           Assigning(c)' \/ Scoring(c)' \/ Removing(c)' \/ Pushing(c)' \/ Popping(c)'
    PROVE  StoreInv' /\ CallsInv'
  <1>1. call[c].key \in KeysOf[c]
    BY CallIs
  <1>2. CallInv(c)'
    BY GoesOnIs DEF CallInv, GoesOn
  <1>3. PICK k \in KeysOf[c] : TRUE
    BY <1>1
  <1> QED BY <1>2, <1>3, QuietKeeps DEF GoesOn, StoreInv

LEMMA StageIs ==
    ASSUME CallsInv, NEW c \in Writers, call[c] # NoCall,
           NEW puts, NEW deletes, Stage(c, puts, deletes)
    PROVE  \E q : /\ GoesOn(c, q) /\ q.writes = puts /\ q.deletes = deletes
                  /\ q.step = IF deletes = {} THEN "commit" ELSE "stage"
                  /\ q.step # "put"
  <1>1. DOMAIN call[c] = CallFields
    BY CallIs
  <1>2. PICK q : q = [call[c] EXCEPT !.writes = puts, !.deletes = deletes,
                                     !.step = IF deletes = {} THEN "commit" ELSE "stage"]
    OBVIOUS
  <1>3. /\ q.writes = puts /\ q.deletes = deletes
        /\ q.step = IF deletes = {} THEN "commit" ELSE "stage"
        /\ DOMAIN q = CallFields
        /\ q.op = call[c].op /\ q.key = call[c].key /\ q.member = call[c].member
        /\ q.arg = call[c].arg /\ q.meta = call[c].meta
    BY <1>1, <1>2 DEF CallFields
  <1>4. c \in DOMAIN call
    BY DEF CallsInv
  <1>5. CallBecomes(c, q)
    BY <1>2, <1>4 DEF Stage, CallBecomes
  <1>6. call'[c] = q
    BY <1>5, CallRows
  <1> QED BY <1>3, <1>5, <1>6 DEF GoesOn

LEMMA AssignLookKeeps ==
    ASSUME OneWriterPerKey, StoreInv, CallsInv, NEW c \in Writers,
           HSetLook(c) \/ SAddLook(c)
    PROVE  StoreInv' /\ CallsInv'
  <1>1. call[c].step = "look" /\ call[c] # NoCall
    BY DEF HSetLook, SAddLook, At, NoCall
  <1>2. Assigning(c)
    BY <1>1, CallIs DEF Scoring, Removing, Pushing, Popping, HSetLook, SAddLook
  <1>3. UNCHANGED <<store, clock, read, possible, lost>>
    BY DEF HSetLook, SAddLook
  <1>4. CASE Return(c)
    BY <1>1, <1>3, <1>4, ReturnKeeps
  <1>5. CASE Stage(c, Assigns(c), {})
    <2>1. PICK puts : puts = Assigns(c)
      OBVIOUS
    <2>2. PICK q : GoesOn(c, q) /\ q.writes = puts /\ q.step = "commit" /\ q.step # "put"
      BY <1>1, <1>5, <2>1, StageIs
    <2>3. Assigns(c)' = puts
      BY <1>1, <1>3, <2>1, <2>2, GoesOnIs
    <2>4. Assigning(c)'
      BY <1>2, <2>2, <2>3 DEF Assigning, At, GoesOn
    <2> QED BY <1>1, <1>3, <2>2, <2>4, GoesOnKeeps
  <1> QED BY <1>4, <1>5 DEF HSetLook, SAddLook

LEMMA PushLookKeeps ==
    ASSUME OneWriterPerKey, StoreInv, CallsInv, NEW c \in Writers, PushLook(c)
    PROVE  StoreInv' /\ CallsInv'
  <1>1. call[c].step = "push" /\ call[c] # NoCall
    BY DEF PushLook, At, NoCall
  <1>2. Pushing(c)
    BY <1>1, CallIs DEF Assigning, Scoring, Removing, Popping
  <1>3. UNCHANGED <<store, clock, read, possible, lost>>
    BY DEF PushLook
  <1>4. PICK puts : puts = Pushes(c)
    OBVIOUS
  <1>5. PICK q : GoesOn(c, q) /\ q.writes = puts /\ q.step = "commit" /\ q.step # "put"
    BY <1>1, <1>4, StageIs DEF PushLook
  <1>6. Pushes(c)' = puts
    BY <1>1, <1>3, <1>4, <1>5, GoesOnIs
  <1>7. Pushing(c)'
    BY <1>2, <1>5, <1>6 DEF Pushing, At, GoesOn
  <1> QED BY <1>1, <1>3, <1>5, <1>7, GoesOnKeeps

LEMMA RemoveLookKeeps ==
    ASSUME OneWriterPerKey, StoreInv, CallsInv, NEW c \in Writers, RemoveLook(c)
    PROVE  StoreInv' /\ CallsInv'
  <1>1. call[c].step = "look" /\ call[c] # NoCall
    BY DEF RemoveLook, At, NoCall
  <1>2. Removing(c)
    BY <1>1, CallIs DEF Assigning, Scoring, Pushing, Popping, RemoveLook
  <1>3. UNCHANGED <<store, clock, read, possible, lost>>
    BY DEF RemoveLook
  <1>4. CASE Return(c)
    BY <1>1, <1>3, <1>4, ReturnKeeps
  <1>5. CASE Exists(c) /\ Stage(c, Counted(c, -1), {Mine(c)})
    <2>1. PICK puts, deletes : puts = Counted(c, -1) /\ deletes = {Mine(c)}
      OBVIOUS
    <2>2. PICK q : /\ GoesOn(c, q) /\ q.writes = puts /\ q.deletes = deletes
                   /\ q.step = "stage" /\ q.step # "put"
      BY <1>1, <1>5, <2>1, StageIs
    <2>3. Counted(c, -1)' = puts /\ {Mine(c)}' = deletes /\ Exists(c)'
      BY <1>1, <1>3, <1>5, <2>1, <2>2, GoesOnIs
    <2>4. Removing(c)'
      BY <1>2, <2>2, <2>3 DEF Removing, At, GoesOn
    <2> QED BY <1>1, <1>3, <2>2, <2>4, GoesOnKeeps
  <1> QED BY <1>4, <1>5 DEF RemoveLook

LEMMA ZAddLookKeeps ==
    ASSUME OneWriterPerKey, StoreInv, CallsInv, NEW c \in Writers, ZAddLook(c)
    PROVE  StoreInv' /\ CallsInv'
  <1>1. call[c].step = "look" /\ call[c] # NoCall
    BY DEF ZAddLook, At, NoCall
  <1>2. Scoring(c)
    BY <1>1, CallIs DEF Assigning, Removing, Pushing, Popping, ZAddLook
  <1>3. UNCHANGED <<store, clock, read, possible, lost>>
    BY DEF ZAddLook
  <1>4. CASE Return(c)
    BY <1>1, <1>3, <1>4, ReturnKeeps
  <1>5. CASE ~(Exists(c) /\ store[Mine(c)] = call[c].arg)
               /\ Stage(c, AssignsScore(c), OldScore(c))
    <2>1. PICK puts, deletes : puts = AssignsScore(c) /\ deletes = OldScore(c)
      OBVIOUS
    <2>2. PICK q : /\ GoesOn(c, q) /\ q.writes = puts /\ q.deletes = deletes
                   /\ q.step = (IF deletes = {} THEN "commit" ELSE "stage") /\ q.step # "put"
      BY <1>1, <1>5, <2>1, StageIs
    <2>3. /\ AssignsScore(c)' = puts /\ OldScore(c)' = deletes
          /\ ~(Exists(c) /\ store[Mine(c)] = call[c].arg)'
      BY <1>1, <1>3, <1>5, <2>1, <2>2, GoesOnIs DEF GoesOn
    <2>4. deletes = {} => puts = puts ++ [e \in deletes |-> Gone]
      <3>1. puts = [e \in DOMAIN puts |-> puts[e]]
        BY <2>1 DEF AssignsScore, ++
      <3> QED BY <3>1 DEF ++
    <2>5. Scoring(c)'
      BY <1>2, <2>2, <2>3, <2>4 DEF Scoring, At, GoesOn
    <2> QED BY <1>1, <1>3, <2>2, <2>5, GoesOnKeeps
  <1> QED BY <1>4, <1>5 DEF ZAddLook

LEMMA PopGetKeeps ==
    ASSUME OneWriterPerKey, StoreInv, CallsInv, NEW c \in Writers, PopGet(c)
    PROVE  StoreInv' /\ CallsInv'
  <1>1. call[c].step = "get" /\ call[c] # NoCall
    BY DEF PopGet, At, NoCall
  <1>2. Popping(c)
    BY <1>1, CallIs DEF Assigning, Scoring, Removing, Pushing
  <1>3. UNCHANGED <<store, clock, read, possible, lost>>
    BY DEF PopGet
  <1>4. CASE Return(c)
    BY <1>1, <1>3, <1>4, ReturnKeeps
  <1>5. CASE Popped(c) \in DOMAIN store /\ call' = [call EXCEPT ![c].step = "delete"]
    <2>1. DOMAIN call[c] = CallFields /\ c \in DOMAIN call
      BY <1>1, CallIs DEF CallsInv
    <2>2. PICK q : q = [call[c] EXCEPT !.step = "delete"]
      OBVIOUS
    <2>3. CallBecomes(c, q)
      BY <1>5, <2>2 DEF CallBecomes
    <2>4. GoesOn(c, q) /\ q.step = "delete"
      BY <2>1, <2>2, <2>3, CallRows DEF GoesOn, CallFields
    <2>5. Popped(c)' = Popped(c)
      BY <1>1, <1>3, <2>4, GoesOnIs
    <2>6. Popping(c)'
      BY <1>2, <1>3, <1>5, <2>4, <2>5 DEF Popping, At, GoesOn
    <2> QED BY <1>1, <1>3, <2>4, <2>6, GoesOnKeeps
  <1> QED BY <1>4, <1>5 DEF PopGet

LEMMA StageDeletesKeeps ==
    ASSUME OneWriterPerKey, StoreInv, CallsInv, NEW c \in Writers, StageDeletes(c)
    PROVE  StoreInv' /\ CallsInv'
  <1>1. call[c].step = "stage" /\ call[c] # NoCall
    BY DEF StageDeletes, At, NoCall
  <1>2. Scoring(c) \/ Removing(c)
    BY <1>1, CallIs DEF Assigning, Pushing, Popping
  <1>3. UNCHANGED <<store, clock, read, possible, lost>>
    BY DEF StageDeletes
  <1>4. PICK puts : puts = call[c].writes ++ [e \in call[c].deletes \cap DOMAIN store |-> Gone]
    OBVIOUS
  <1>5. PICK q : GoesOn(c, q) /\ q.writes = puts /\ q.step = "commit" /\ q.step # "put"
    BY <1>1, <1>4, StageIs DEF StageDeletes
  <1>6. /\ Counted(c, -1)' = Counted(c, -1) /\ Mine(c)' = Mine(c) /\ Exists(c)' = Exists(c)
        /\ AssignsScore(c)' = AssignsScore(c) /\ OldScore(c)' = OldScore(c)
    BY <1>1, <1>3, <1>5, GoesOnIs
  <1>7. CASE Removing(c)
    <2>1. call[c].writes = Counted(c, -1) /\ call[c].deletes \cap DOMAIN store = {Mine(c)}
      BY <1>1, <1>7 DEF Removing, At, Exists
    <2>2. puts = Counted(c, -1) ++ [e \in {Mine(c)} |-> Gone]
      BY <1>4, <2>1
    <2>3. Removing(c)'
      BY <1>1, <1>5, <1>6, <1>7, <2>2 DEF Removing, At, GoesOn
    <2> QED BY <1>1, <1>3, <1>5, <2>3, GoesOnKeeps
  <1>8. CASE Scoring(c)
    <2>1. call[c].writes = AssignsScore(c) /\ call[c].deletes = OldScore(c)
      BY <1>1, <1>8 DEF Scoring, At
    <2>2. OldScore(c) \subseteq DOMAIN store
      <3>1. CASE Exists(c)
        <4>1. Scored(call[c].key, call[c].meta) /\ call[c].member \in Members
          BY <1>1, <1>8, CallIs DEF Scoring, Current, Sound
        <4>2. call[c].member \in MembersAt(call[c].key, call[c].meta.version)
          BY <3>1, <4>1 DEF Exists, Mine, MembersAt
        <4>3. {s \in Scores : ScoreKeyOf(c, s) \in DOMAIN store} = {store[Mine(c)]}
          BY <4>1, <4>2 DEF Scored, ScoreKeyOf, Mine
        <4> QED BY <3>1, <4>3 DEF OldScore
      <3> QED BY <3>1 DEF OldScore
    <2>3. call[c].deletes \cap DOMAIN store = OldScore(c)
      BY <2>1, <2>2
    <2>4. puts = AssignsScore(c) ++ [e \in OldScore(c) |-> Gone]
      BY <1>4, <2>1, <2>3
    <2>5. ~(Exists(c) /\ store[Mine(c)] = call[c].arg)'
      BY <1>1, <1>3, <1>5, <1>6, <1>8 DEF Scoring, At, GoesOn
    <2>6. Scoring(c)'
      BY <1>5, <1>6, <1>8, <2>4, <2>5 DEF Scoring, At, GoesOn
    <2> QED BY <1>1, <1>3, <1>5, <2>6, GoesOnKeeps
  <1> QED BY <1>2, <1>7, <1>8

\* The metadata of a list that has become longer or shorter.
Shifted(d, n, a, b) == [d EXCEPT !.size = n, !.head = a, !.tail = b]
LEMMA ShiftedIs ==
    ASSUME NEW d \in Metas, NEW n \in Int, NEW a \in Int, NEW b \in Int
    PROVE  /\ Shifted(d, n, a, b) \in Metas
           /\ Shifted(d, n, a, b).version = d.version /\ Shifted(d, n, a, b).type = d.type
           /\ Shifted(d, n, a, b).size = n
           /\ Shifted(d, n, a, b).head = a /\ Shifted(d, n, a, b).tail = b
  BY DEF Metas, Shifted

\* A pop is about the first or the last element of a list that is there.
LEMMA PoppingIs ==
    ASSUME StoreInv, CallsInv, NEW c \in Writers, call[c] # NoCall, Popping(c),
           NEW k, NEW d, k = call[c].key, d = call[c].meta
    PROVE  /\ k \in Keys /\ k \in KeysOf[c] /\ k \in DOMAIN store /\ store[k] = d
           /\ d \in Metas /\ d.type = "List" /\ Sound(k, d) /\ Listed(k, d)
           /\ PopIndex(c) \in d.head .. (d.tail - 1)
           /\ d.head \in Int /\ d.tail \in Int
           /\ Popped(c) = ElementKey(k, d.version, PopIndex(c))
           /\ d.version \in Nat /\ d.version < clock
           /\ Popped(c) \notin Keys /\ Popped(c) \in Cells(k, d)
           /\ Popped(c)[1] = k /\ Popped(c)[2] = d.version /\ Popped(c)[3] = PopIndex(c)
  <1>1. k \in Keys /\ k \in KeysOf[c] /\ Current(c) /\ d \in Metas
    BY CallIs
  <1>2. k \in DOMAIN store /\ store[k] = d /\ Sound(k, d) /\ d.type = "List"
    BY <1>1 DEF Current, Popping
  <1>3. Listed(k, d) /\ d.version < clock
    BY <1>2 DEF Sound
  <1>4. d.version \in Nat /\ d.head \in Int /\ d.tail \in Int /\ d.size \in Int
    BY <1>1 DEF Metas
  <1>5. d.head < d.tail
    BY <1>3, <1>4 DEF Listed, Popping
  <1>6. PopIndex(c) \in d.head .. (d.tail - 1)
    BY <1>4, <1>5 DEF PopIndex
  <1>7. Popped(c) = ElementKey(k, d.version, PopIndex(c))
    BY DEF Popped
  <1>8. PICK i \in Int : i = PopIndex(c)
    BY <1>4, <1>6
  <1>9. Popped(c) \in Cells(k, d)
    BY <1>6, <1>7 DEF Cells
  <1> QED BY <1>1, <1>2, <1>3, <1>4, <1>6, <1>7, <1>8, <1>9, ElementKeyIs

LEMMA CallFailsKeeps ==
    ASSUME OneWriterPerKey, StoreInv, CallsInv, NEW c \in Writers, CallFails(c)
    PROVE  StoreInv' /\ CallsInv'
  <1>1. /\ call[c].step \in {"commit", "delete", "put"} /\ call[c] # NoCall
        /\ Return(c) /\ UNCHANGED <<store, clock>>
    BY DEF CallFails, At, NoCall
  <1>2. CASE call[c].step # "put"
    <2>1. UNCHANGED lost
      BY <1>2 DEF CallFails, At
    <2> QED BY <1>1, <1>2, <2>1, ReturnKeeps
  <1>3. CASE call[c].step = "put"
    <2>1. Popping(c)
      BY <1>1, <1>3, CallIs DEF Assigning, Scoring, Removing, Pushing
    <2>2. PICK k, d : k = call[c].key /\ d = call[c].meta
      OBVIOUS
    <2>3. PICK p : p = Popped(c)
      OBVIOUS
    <2>4. /\ k \in Keys /\ k \in KeysOf[c] /\ k \in DOMAIN store /\ store[k] = d /\ Sound(k, d)
          /\ p \notin Keys /\ p[1] = k /\ p[2] = d.version /\ p \in Cells(k, d)
          /\ p[2] \in 0 .. (clock - 1)
      BY <1>1, <2>1, <2>2, <2>3, PoppingIs DEF StoreInv
    <2>5. lost' = lost \cup {p}
      BY <1>3, <2>3 DEF CallFails, At
    <2>6. /\ call' = [d2 \in Writers |-> call'[d2]] /\ call'[c] = NoCall
          /\ \A d2 \in Writers \ {c} : call'[d2] = call[d2]
      BY <1>1, CallRows DEF Return, CallBecomes
    <2>7. \A e : Same(e)
      BY <1>1 DEF Same
    <2>8. WriterStep(c, k)
      BY <1>1, <2>2, <2>4, <2>5, <2>6, <2>7 DEF WriterStep, Elsewhere, StoreInv, NoCall
    <2>9. SameGone(k)
      <3> SUFFICES ASSUME NEW e
                   PROVE  e \in lost' \cup BeingPopped' <=> e \in lost \cup BeingPopped
        BY DEF SameGone
      <3>1. p \in BeingPopped
        BY <1>3, <2>3 DEF BeingPopped, At
      <3>2. \A d2 \in Writers \ {c} : Popped(d2)' = Popped(d2)
        BY <2>6 DEF Popped, PopIndex
      <3>3. e \in BeingPopped' => e \in BeingPopped
        BY <2>6, <3>2 DEF BeingPopped, At, NoCall
      <3>4. e \in BeingPopped => e \in BeingPopped' \/ e = p
        BY <2>3, <2>6, <3>2 DEF BeingPopped, At
      <3> QED BY <2>5, <3>1, <3>3, <3>4
    <2>10. Sound(k, d)'
      BY <1>1, <2>4, <2>5, <2>7, <2>9, SoundKept DEF SameUnder, StoreInv
    <2>11. \A e \in (DOMAIN store' \ Keys) \cup lost' : e[2] \in 0 .. (clock' - 1)
      <3>1. \A e \in (DOMAIN store \ Keys) \cup lost : e[2] \in 0 .. (clock - 1)
        BY DEF StoreInv
      <3> QED BY <1>1, <2>4, <2>5, <3>1
    <2>12. CallInv(c)'
      BY <2>6 DEF CallInv
    <2> QED BY <1>1, <2>4, <2>8, <2>10, <2>11, <2>12, WriterKeeps
  <1> QED BY <1>2, <1>3

-----------------------------------------------------------------------------
\* Steps that change the store.  What a reader needs to know of them: key k
\* loses its structure, or the elements of its version change and it keeps it.

Ended(k) == SameUnder(k) /\ (k \in DOMAIN store' => store'[k] = Text)
Continued(c, k) ==
    /\ call[c] # NoCall /\ call[c].key = k
    /\ \A e : e \notin Keys /\ e[1] = k /\ e[2] # call[c].meta.version => Same(e)
    /\ k \in DOMAIN store' /\ store'[k] # Text
    /\ store'[k].version = call[c].meta.version /\ store'[k].type = call[c].meta.type
Changed(c, k) ==
    /\ WriterStep(c, k)
    /\ Ended(k) \/ Continued(c, k)
    /\ \/ call'[c] = NoCall
       \/ /\ call[c] # NoCall
          /\ call'[c].key = call[c].key /\ call'[c].meta = call[c].meta

LEMMA IdleKeeps ==
    ASSUME OneWriterPerKey, StoreInv, CallsInv, NEW c \in Writers, NEW k \in KeysOf[c],
           At(c, "idle"), UNCHANGED <<clock, call, lost>>,
           \A e : e # k => Same(e), k \in DOMAIN store' => store'[k] = Text
    PROVE  StoreInv' /\ CallsInv' /\ Changed(c, k)
  <1>1. call[c] = NoCall /\ k \in Keys
    BY IdleIs, RedisAssumption DEF At
  <1>2. WriterStep(c, k)
    BY <1>1 DEF WriterStep, Elsewhere, About, StoreInv, CallsInv, NoCall
  <1>3. Ended(k)
    BY <1>1 DEF Ended, SameUnder
  <1>4. \A e \in (DOMAIN store' \ Keys) \cup lost' : e[2] \in 0 .. (clock' - 1)
    <2>1. \A e \in (DOMAIN store \ Keys) \cup lost : e[2] \in 0 .. (clock - 1)
      BY DEF StoreInv
    <2>2. DOMAIN store' \ Keys \subseteq DOMAIN store \ Keys
      BY <1>1 DEF Same
    <2> QED BY <2>1, <2>2
  <1>5. CallInv(c)'
    BY <1>1 DEF CallInv
  <1> QED BY <1>1, <1>2, <1>3, <1>4, <1>5, WriterKeeps DEF Changed

LEMMA SetKeeps ==
    ASSUME OneWriterPerKey, StoreInv, CallsInv, NEW c \in Writers, Set(c)
    PROVE  StoreInv' /\ CallsInv' /\ \E k \in KeysOf[c] : Changed(c, k)
  <1>1. PICK k \in KeysOf[c] : store' = Entry(k, Text) ++ store
    BY DEF Set
  <1>2. \A e : e # k => Same(e)
    BY <1>1 DEF Same, Entry, ++
  <1>3. store'[k] = Text
    BY <1>1 DEF Entry, ++
  <1> QED BY <1>2, <1>3, IdleKeeps DEF Set

LEMMA DeleteKeeps ==
    ASSUME OneWriterPerKey, StoreInv, CallsInv, NEW c \in Writers, Delete(c)
    PROVE  StoreInv' /\ CallsInv' /\ \E k \in KeysOf[c] : Changed(c, k)
  <1>1. PICK k \in KeysOf[c] : k \in DOMAIN store /\ store' = Without(k)
    BY DEF Delete
  <1>2. \A e : e # k => Same(e)
    BY <1>1 DEF Same, Without
  <1>3. k \notin DOMAIN store'
    BY <1>1 DEF Without
  <1> QED BY <1>2, <1>3, IdleKeeps DEF Delete

LEMMA PopDeleteKeeps ==
    ASSUME OneWriterPerKey, StoreInv, CallsInv, NEW c \in Writers, PopDelete(c)
    PROVE  StoreInv' /\ CallsInv' /\ \E k \in KeysOf[c] : Changed(c, k)
  <1>1. call[c].step = "delete" /\ call[c] # NoCall
    BY DEF PopDelete, At, NoCall
  <1>2. Popping(c)
    BY <1>1, CallIs DEF Assigning, Scoring, Removing, Pushing
  <1>3. PICK k, d, p : k = call[c].key /\ d = call[c].meta /\ p = Popped(c)
    OBVIOUS
  <1>4. /\ k \in Keys /\ k \in KeysOf[c] /\ k \in DOMAIN store /\ store[k] = d /\ d \in Metas
        /\ d.type = "List" /\ Listed(k, d) /\ d.version < clock /\ d.version \in Nat
        /\ d.head \in Int /\ d.tail \in Int
        /\ p \notin Keys /\ p[1] = k /\ p[2] = d.version /\ p \in Cells(k, d)
    BY <1>1, <1>2, <1>3, PoppingIs
  <1>5. /\ store' = Without(p) /\ call' = [call EXCEPT ![c].step = "put"]
        /\ UNCHANGED <<clock, read, lost>>
    BY <1>3 DEF PopDelete
  <1>6. PICK q : q = [call[c] EXCEPT !.step = "put"]
    OBVIOUS
  <1>7. DOMAIN call[c] = CallFields /\ c \in DOMAIN call
    BY <1>1, CallIs DEF CallsInv
  <1>8. CallBecomes(c, q)
    BY <1>5, <1>6 DEF CallBecomes
  <1>9. /\ GoesOn(c, q) /\ q.step = "put"
        /\ call' = [d2 \in Writers |-> call'[d2]]
        /\ \A d2 \in Writers \ {c} : call'[d2] = call[d2]
    BY <1>6, <1>7, <1>8, CallRows DEF GoesOn, CallFields
  <1>10. \A e : e # p => Same(e)
    BY <1>5 DEF Same, Without
  <1>11. p \notin DOMAIN store' /\ k \in DOMAIN store' /\ store'[k] = d
    BY <1>4, <1>5, <1>10 DEF Without, Same
  <1>12. WriterStep(c, k)
    BY <1>1, <1>3, <1>4, <1>5, <1>9, <1>10 DEF WriterStep, Elsewhere, About, StoreInv, GoesOn
  <1>13. Popped(c)' = p
    BY <1>3, <1>9 DEF Popped, PopIndex, GoesOn
  <1>14. BeingPopped' = BeingPopped \cup {p}
    <2>1. \A d2 \in Writers \ {c} : Popped(d2)' = Popped(d2)
      BY <1>9 DEF Popped, PopIndex
    <2>2. ASSUME NEW e \in BeingPopped'
          PROVE  e \in BeingPopped \/ e = p
      BY <1>9, <1>13, <2>1, <2>2 DEF BeingPopped, At
    <2>3. ASSUME NEW e \in BeingPopped
          PROVE  e \in BeingPopped'
      BY <1>1, <1>9, <2>1, <2>3 DEF BeingPopped, At
    <2>4. p \in BeingPopped'
      BY <1>9, <1>13 DEF BeingPopped, At, GoesOn
    <2> QED BY <2>2, <2>3, <2>4
  <1>15. Listed(k, d)'
    <2>1. Under(k, d.version)' = Under(k, d.version) \ {p}
      BY <1>4, <1>10, <1>11 DEF Under, Same
    <2>2. LostUnder(k, d.version)' = LostUnder(k, d.version) /\ Cells(k, d)' = Cells(k, d)
      BY <1>5 DEF LostUnder, Cells
    <2> QED BY <1>4, <1>5, <1>14, <2>1, <2>2 DEF Listed
  <1>16. Sound(k, d)'
    BY <1>4, <1>5, <1>15 DEF Sound, Structures
  <1>17. \A e \in (DOMAIN store' \ Keys) \cup lost' : e[2] \in 0 .. (clock' - 1)
    <2>1. \A e \in (DOMAIN store \ Keys) \cup lost : e[2] \in 0 .. (clock - 1)
      BY DEF StoreInv
    <2>2. DOMAIN store' \subseteq DOMAIN store
      BY <1>5 DEF Without
    <2> QED BY <1>5, <2>1, <2>2
  <1>18. p \notin lost
    <2>1. p \in DOMAIN store
      BY <1>1, <1>2, <1>3 DEF Popping, At
    <2>2. p \in Under(k, d.version)
      BY <1>4, <2>1 DEF Under
    <2> QED BY <1>4, <2>2 DEF Listed
  <1>19. Current(c)'
    BY <1>3, <1>4, <1>9, <1>11, <1>16 DEF Current, GoesOn
  <1>20. Popping(c)'
    BY <1>2, <1>5, <1>9, <1>11, <1>13, <1>18 DEF Popping, At, GoesOn
  <1>21. CallInv(c)'
    BY <1>9, <1>19, <1>20 DEF CallInv, GoesOn
  <1>22. Continued(c, k)
    BY <1>1, <1>3, <1>4, <1>10, <1>11 DEF Continued, Text
  <1>23. Changed(c, k)
    BY <1>1, <1>9, <1>12, <1>22 DEF Changed, GoesOn
  <1> QED BY <1>4, <1>11, <1>12, <1>16, <1>17, <1>21, <1>23, WriterKeeps

LEMMA PopPutKeeps ==
    ASSUME OneWriterPerKey, StoreInv, CallsInv, NEW c \in Writers, PopPut(c)
    PROVE  StoreInv' /\ CallsInv' /\ \E k \in KeysOf[c] : Changed(c, k)
  <1>1. call[c].step = "put" /\ call[c] # NoCall
    BY DEF PopPut, At, NoCall
  <1>2. Popping(c)
    BY <1>1, CallIs DEF Assigning, Scoring, Removing, Pushing
  <1>3. PICK k, d, p, d2 : /\ k = call[c].key /\ d = call[c].meta /\ p = Popped(c)
                           /\ d2 = MetaAfterPop(c)
    OBVIOUS
  <1>4. /\ k \in Keys /\ k \in KeysOf[c] /\ k \in DOMAIN store /\ store[k] = d /\ d \in Metas
        /\ d.type = "List" /\ Listed(k, d) /\ d.version < clock /\ d.version \in Nat
        /\ d.head \in Int /\ d.tail \in Int /\ PopIndex(c) \in d.head .. (d.tail - 1)
        /\ p \notin Keys /\ p[1] = k /\ p[2] = d.version /\ p \in Cells(k, d)
        /\ p = ElementKey(k, d.version, PopIndex(c)) /\ p[3] = PopIndex(c)
    BY <1>1, <1>2, <1>3, PoppingIs
  <1>5. /\ store' = Entry(k, d2) ++ store /\ Return(c)
        /\ UNCHANGED <<clock, read, lost>>
    BY <1>3 DEF PopPut
  <1>6. /\ call'[c] = NoCall
        /\ call' = [c2 \in Writers |-> call'[c2]]
        /\ \A c2 \in Writers \ {c} : call'[c2] = call[c2]
    BY <1>5, CallRows DEF Return, CallBecomes
  <1>7. (\A e : e # k => Same(e)) /\ k \in DOMAIN store' /\ store'[k] = d2
    BY <1>5 DEF Same, Entry, ++
  <1>8. WriterStep(c, k)
    BY <1>3, <1>4, <1>5, <1>6, <1>7 DEF WriterStep, Elsewhere, About, StoreInv, NoCall
  <1>9. /\ d2 \in Metas /\ d2.version = d.version /\ d2.type = "List"
        /\ d2.size = d.size - 1
        /\ \/ PopIndex(c) = d.head /\ d2.head = d.head + 1 /\ d2.tail = d.tail
           \/ PopIndex(c) = d.tail - 1 /\ d2.head = d.head /\ d2.tail = d.tail - 1
    <2>1. /\ d.size \in Int /\ d.head \in Int /\ d.tail \in Int
          /\ d.size - 1 \in Int /\ d.head + 1 \in Int /\ d.tail - 1 \in Int
      BY <1>4 DEF Metas
    <2>2. CASE call[c].op = "LPop"
      <3>1. d2 = Shifted(d, d.size - 1, d.head + 1, d.tail) /\ PopIndex(c) = d.head
        BY <1>3, <1>4, <2>2 DEF MetaAfterPop, PopIndex, Metas, Shifted
      <3> QED BY <1>4, <2>1, <3>1, ShiftedIs
    <2>3. CASE call[c].op = "RPop"
      <3>1. d2 = Shifted(d, d.size - 1, d.head, d.tail - 1) /\ PopIndex(c) = d.tail - 1
        BY <1>3, <1>4, <2>3 DEF MetaAfterPop, PopIndex, Metas, Shifted
      <3> QED BY <1>4, <2>1, <3>1, ShiftedIs
    <2> QED BY <1>2, <2>2, <2>3 DEF Popping
  <1>10. Cells(k, d2) = Cells(k, d) \ {p}
    <2>1. \A i \in d.head .. (d.tail - 1) : ElementKey(k, d.version, i) = p <=> i = PopIndex(c)
      BY <1>4, ElementKeyIs
    <2> QED BY <1>4, <1>9, <2>1 DEF Cells
  <1>11. \A e : e[1] = k /\ e # p => (e \in BeingPopped' <=> e \in BeingPopped)
    <2>1. \A c2 \in Writers \ {c} : Popped(c2)' = Popped(c2)
      BY <1>6 DEF Popped, PopIndex
    <2>2. \A e \in BeingPopped' : e \in BeingPopped
      BY <1>6, <2>1 DEF BeingPopped, At, NoCall
    <2>3. \A e \in BeingPopped : e = p \/ e \in BeingPopped'
      BY <1>3, <1>6, <2>1 DEF BeingPopped, At
    <2> QED BY <2>2, <2>3
  <1>12. p \in BeingPopped /\ p \notin lost
    BY <1>1, <1>2, <1>3 DEF BeingPopped, At, Popping
  <1>13. Listed(k, d2)'
    <2>1. Under(k, d2.version)' = Under(k, d.version)
      BY <1>4, <1>7, <1>9 DEF Under, Same
    <2>2. LostUnder(k, d2.version)' = LostUnder(k, d.version) /\ Cells(k, d2)' = Cells(k, d2)
      BY <1>5, <1>9 DEF LostUnder, Cells
    <2>3. \A e \in Cells(k, d2) : e[1] = k
      BY <1>4, <1>9, ElementKeyIs DEF Cells
    <2>4. Cells(k, d2) \ (lost' \cup BeingPopped') = Cells(k, d) \ (lost \cup BeingPopped)
      BY <1>5, <1>10, <1>11, <1>12, <2>3
    <2>5. LostUnder(k, d.version) \subseteq Cells(k, d2)
      BY <1>4, <1>10, <1>12 DEF Listed, LostUnder
    <2>6. d2.head =< d2.tail /\ d2.size = d2.tail - d2.head
      BY <1>4, <1>9 DEF Listed, Metas
    <2> QED BY <1>4, <2>1, <2>2, <2>4, <2>5, <2>6 DEF Listed
  <1>14. Sound(k, d2)'
    BY <1>4, <1>5, <1>9, <1>13 DEF Sound, Structures
  <1>15. \A e \in (DOMAIN store' \ Keys) \cup lost' : e[2] \in 0 .. (clock' - 1)
    <2>1. \A e \in (DOMAIN store \ Keys) \cup lost : e[2] \in 0 .. (clock - 1)
      BY DEF StoreInv
    <2>2. DOMAIN store' \ Keys \subseteq DOMAIN store \ Keys
      BY <1>4, <1>7 DEF Same
    <2> QED BY <1>5, <2>1, <2>2
  <1>16. CallInv(c)'
    BY <1>6 DEF CallInv
  <1>17. Continued(c, k)
    BY <1>1, <1>3, <1>4, <1>7, <1>9 DEF Continued, Text
  <1>18. Changed(c, k)
    BY <1>6, <1>8, <1>17 DEF Changed
  <1> QED BY <1>4, <1>7, <1>8, <1>14, <1>15, <1>16, <1>18, WriterKeeps

-----------------------------------------------------------------------------
\* A Commit

LEMMA AppliedReads ==
    ASSUME NEW w
    PROVE  /\ \A e \in DOMAIN w : e \in DOMAIN Applied(w) <=> w[e] # Gone
           /\ \A e \in DOMAIN w : w[e] # Gone => Applied(w)[e] = w[e]
           /\ \A e : e \notin DOMAIN w =>
                 /\ e \in DOMAIN Applied(w) <=> e \in DOMAIN store
                 /\ e \in DOMAIN store => Applied(w)[e] = store[e]
  BY DEF Applied

\* The metadata that a batch puts when it counts n elements more.
LEMMA CountedIs ==
    ASSUME NEW d \in Metas, NEW n \in Int, NEW d2, d2 = [d EXCEPT !.size = @ + n]
    PROVE  /\ d2 \in Metas /\ d2 # Gone /\ d2.size = d.size + n
           /\ d2.type = d.type /\ d2.version = d.version
  <1>1. d2 \in Metas /\ d2.size = d.size + n /\ d2.type = d.type /\ d2.version = d.version
    BY DEF Metas
  <1> QED BY <1>1, RedisAssumption

\* A member is assigned.
LEMMA AssignSound ==
    ASSUME NEW k \in Keys, NEW d, Sound(k, d), d.type \in Structures, UNCHANGED clock,
           NEW m \in Members, NEW e, e = ElementKey(k, d.version, m), e \in DOMAIN store',
           \A n \in Members \ {m} : Same(ElementKey(k, d.version, n)),
           NEW d2, d2 = IF e \in DOMAIN store THEN d ELSE [d EXCEPT !.size = @ + 1],
           d.type = "ZSet" =>
              \A n \in Members : {s \in Scores : ScoreKey(k, d.version, s, n) \in DOMAIN store'}
                 = IF n = m THEN {store'[e]}
                   ELSE {s \in Scores : ScoreKey(k, d.version, s, n) \in DOMAIN store}
    PROVE  Sound(k, d2)' /\ d2 \in Metas /\ d2.type = d.type /\ d2.version = d.version
  <1>1. d \in Metas /\ d.version < clock
    BY DEF Sound
  <1>2. d2 \in Metas /\ d2.type = d.type /\ d2.version = d.version
    BY <1>1, CountedIs
  <1>3. d2.size = IF e \in DOMAIN store THEN d.size ELSE d.size + 1
    BY <1>1, CountedIs
  <1>4. MembersAt(k, d.version)' = MembersAt(k, d.version) \cup {m}
    BY DEF MembersAt, Same
  <1>5. Counts(k, d)
    BY DEF Sound
  <1>6. Counts(k, d2)'
    <2>1. e \in DOMAIN store <=> m \in MembersAt(k, d.version)
      BY DEF MembersAt
    <2>2. /\ IsFiniteSet(MembersAt(k, d.version) \cup {m})
          /\ Cardinality(MembersAt(k, d.version) \cup {m}) =
                IF m \in MembersAt(k, d.version) THEN Cardinality(MembersAt(k, d.version))
                ELSE Cardinality(MembersAt(k, d.version)) + 1
      BY <1>5, FS_AddElement DEF Counts
    <2> QED BY <1>2, <1>3, <1>4, <1>5, <2>1, <2>2 DEF Counts
  <1>7. ASSUME d.type = "ZSet"
        PROVE  Scored(k, d2)'
    <2>1. Scored(k, d)
      BY <1>7 DEF Sound
    <2> SUFFICES ASSUME NEW n \in Members
                 PROVE  {s \in Scores : ScoreKey(k, d.version, s, n) \in DOMAIN store'} =
                          IF n \in MembersAt(k, d.version)'
                          THEN {store'[ElementKey(k, d.version, n)]} ELSE {}
      BY <1>2 DEF Scored
    <2>2. CASE n = m
      BY <1>4, <1>7, <2>2
    <2>3. CASE n # m
      <3>1. n \in MembersAt(k, d.version)' <=> n \in MembersAt(k, d.version)
        BY <1>4, <2>3
      <3>2. n \in MembersAt(k, d.version) =>
               store'[ElementKey(k, d.version, n)] = store[ElementKey(k, d.version, n)]
        BY <2>3 DEF MembersAt, Same
      <3>3. {s \in Scores : ScoreKey(k, d.version, s, n) \in DOMAIN store} =
                          IF n \in MembersAt(k, d.version)
                          THEN {store[ElementKey(k, d.version, n)]} ELSE {}
        BY <2>1 DEF Scored
      <3> QED BY <1>7, <2>3, <3>1, <3>2, <3>3
    <2> QED BY <2>2, <2>3
  <1> QED BY <1>1, <1>2, <1>6, <1>7 DEF Sound, Structures

\* A member is removed.
LEMMA RemoveSound ==
    ASSUME NEW k \in Keys, NEW d, Sound(k, d), d.type \in {"Hash", "Set"}, UNCHANGED clock,
           NEW m \in Members, NEW e, e = ElementKey(k, d.version, m),
           e \in DOMAIN store, e \notin DOMAIN store',
           \A n \in Members \ {m} : Same(ElementKey(k, d.version, n)),
           NEW d2, d2 = [d EXCEPT !.size = @ + (-1)]
    PROVE  Sound(k, d2)' /\ d2 \in Metas /\ d2.type = d.type /\ d2.version = d.version
  <1>1. d \in Metas /\ d.version < clock
    BY DEF Sound
  <1>2. d2 \in Metas /\ d2.type = d.type /\ d2.version = d.version /\ d2.size = d.size - 1
    <2>1. d2 \in Metas /\ d2.type = d.type /\ d2.version = d.version /\ d2.size = d.size + (-1)
      BY <1>1, CountedIs
    <2>2. d.size \in Int
      BY <1>1 DEF Metas
    <2> QED BY <2>1, <2>2
  <1>3. MembersAt(k, d.version)' = MembersAt(k, d.version) \ {m}
    BY DEF MembersAt, Same
  <1>4. m \in MembersAt(k, d.version)
    BY DEF MembersAt
  <1>5. Counts(k, d)
    BY DEF Sound, Structures
  <1>6. Counts(k, d2)'
    BY <1>2, <1>3, <1>4, <1>5, FS_RemoveElement DEF Counts
  <1> QED BY <1>1, <1>2, <1>6 DEF Sound, Structures

\* An element that is there belongs to a key that is there.
LEMMA ElementThere ==
    ASSUME NEW c \in Writers, Current(c), NEW k, NEW d, k = call[c].key, d = call[c].meta,
           d.type \in Structures, NEW m \in Members, ElementKey(k, d.version, m) \in DOMAIN store
    PROVE  k \in DOMAIN store /\ store[k] = d
  <1>1. Sound(k, d)
    BY DEF Current
  <1>2. Counts(k, d)
    BY <1>1 DEF Sound
  <1>3. m \in MembersAt(k, d.version)
    BY DEF MembersAt
  <1>4. d.size # 0
    BY <1>2, <1>3, FS_EmptySet DEF Counts
  <1> QED BY <1>4 DEF Current

\* The batch of c as the steps before have left it.
Committing(c) ==
    /\ At(c, "commit") /\ store' = Applied(call[c].writes) /\ Return(c)
    /\ UNCHANGED <<clock, lost>>

\* What a Commit has to show: it writes under one version, and the metadata.
LEMMA CommitIs ==
    ASSUME OneWriterPerKey, StoreInv, CallsInv, NEW c \in Writers, Committing(c),
           NEW k, NEW d, NEW d2, k = call[c].key, d = call[c].meta,
           \A e : e # k /\ ~(e \notin Keys /\ e[1] = k /\ e[2] = d.version) => Same(e),
           k \in DOMAIN store', store'[k] = d2,
           d2 \in Metas, d2.version = d.version, d2.type = d.type,
           Sound(k, d2)'
    PROVE  StoreInv' /\ CallsInv' /\ \E j \in KeysOf[c] : Changed(c, j)
  <1>1. call[c].step = "commit" /\ call[c] # NoCall
    BY DEF Committing, At, NoCall
  <1>2. k \in Keys /\ k \in KeysOf[c] /\ d \in Metas /\ Current(c)
    BY <1>1, CallIs
  <1>3. d.version \in Nat /\ d.version < clock
    BY <1>2 DEF Current, Sound, Metas
  <1>4. /\ call'[c] = NoCall
        /\ call' = [c2 \in Writers |-> call'[c2]]
        /\ \A c2 \in Writers \ {c} : call'[c2] = call[c2]
    BY CallRows DEF Committing, Return, CallBecomes
  <1>5. WriterStep(c, k)
    BY <1>1, <1>2, <1>4 DEF WriterStep, Elsewhere, About, StoreInv, NoCall, Committing
  <1>6. \A e \in (DOMAIN store' \ Keys) \cup lost' : e[2] \in 0 .. (clock' - 1)
    <2>1. \A e \in (DOMAIN store \ Keys) \cup lost : e[2] \in 0 .. (clock - 1)
      BY DEF StoreInv
    <2>2. UNCHANGED <<clock, lost>> /\ clock \in Nat
      BY DEF Committing, StoreInv
    <2>3. ASSUME NEW e \in DOMAIN store' \ Keys
          PROVE  e[2] \in 0 .. (clock - 1)
      <3>1. CASE e[1] = k /\ e[2] = d.version
        BY <1>3, <2>2, <3>1
      <3>2. CASE ~(e[1] = k /\ e[2] = d.version)
        BY <1>2, <2>1, <2>3, <3>2 DEF Same
      <3> QED BY <3>1, <3>2
    <2> QED BY <2>1, <2>2, <2>3
  <1>7. CallInv(c)'
    BY <1>4 DEF CallInv
  <1>8. d2 # Text
    BY DEF Metas, Text
  <1>9. Continued(c, k)
    BY <1>1, <1>2, <1>8 DEF Continued
  <1>10. Changed(c, k)
    BY <1>4, <1>5, <1>9 DEF Changed
  <1> QED BY <1>2, <1>5, <1>6, <1>7, <1>10, WriterKeeps

\* HSet and SAdd: the element, and the count if it was not there.
LEMMA AssignEffect ==
    ASSUME CallsInv, NEW c \in Writers, call[c] # NoCall, Assigning(c), Committing(c),
           NEW k, NEW d, NEW e, k = call[c].key, d = call[c].meta, e = Mine(c)
    PROVE  /\ k \in Keys /\ e \notin Keys /\ e = ElementKey(k, d.version, call[c].member)
           /\ \A f : f # k /\ f # e => Same(f)
           /\ e \in DOMAIN store' /\ store'[e] = call[c].arg
           /\ k \in DOMAIN store'
           /\ store'[k] = IF e \in DOMAIN store THEN d ELSE [d EXCEPT !.size = @ + 1]
  <1>1. k \in Keys /\ d \in Metas /\ Current(c)
    BY CallIs
  <1>2. e = ElementKey(k, d.version, call[c].member) /\ e \notin Keys
    BY <1>1, ElementKeyIs DEF Mine, Assigning, Metas
  <1>3. call[c].arg # Gone
    BY RedisAssumption DEF Assigning
  <1>4. PICK w : w = call[c].writes
    OBVIOUS
  <1>5. w = CountNew(c) ++ Entry(e, call[c].arg) /\ store' = Applied(w)
    BY <1>4 DEF Assigning, Committing, Assigns
  <1>6. CASE e \in DOMAIN store
    <2>1. DOMAIN w = {e} /\ w[e] = call[c].arg
      BY <1>5, <1>6 DEF CountNew, Exists, ++, Entry
    <2>2. k \in DOMAIN store /\ store[k] = d
      BY <1>1, <1>2, <1>6, ElementThere DEF Assigning, Structures
    <2> QED BY <1>1, <1>2, <1>3, <1>5, <1>6, <2>1, <2>2, AppliedReads DEF Same
  <1>7. CASE e \notin DOMAIN store
    <2>1. PICK d2 : d2 = [d EXCEPT !.size = @ + 1]
      OBVIOUS
    <2>2. d2 # Gone
      BY <1>1, <2>1, CountedIs
    <2>3. CountNew(c) = Entry(k, d2)
      BY <1>7, <2>1 DEF CountNew, Exists, Counted
    <2>4. DOMAIN w = {k, e} /\ w[k] = d2 /\ w[e] = call[c].arg
      BY <1>1, <1>2, <1>5, <2>3 DEF ++, Entry
    <2> QED BY <1>1, <1>2, <1>3, <1>5, <1>7, <2>1, <2>2, <2>4, AppliedReads DEF Same
  <1> QED BY <1>6, <1>7

LEMMA AssignKeeps ==
    ASSUME OneWriterPerKey, StoreInv, CallsInv, NEW c \in Writers, call[c] # NoCall,
           Assigning(c), Committing(c)
    PROVE  StoreInv' /\ CallsInv' /\ \E k \in KeysOf[c] : Changed(c, k)
  <1>1. PICK k, d, e, m : k = call[c].key /\ d = call[c].meta /\ e = Mine(c) /\ m = call[c].member
    OBVIOUS
  <1>2. /\ k \in Keys /\ e \notin Keys /\ e = ElementKey(k, d.version, m)
        /\ \A f : f # k /\ f # e => Same(f)
        /\ e \in DOMAIN store' /\ store'[e] = call[c].arg
        /\ k \in DOMAIN store'
        /\ store'[k] = IF e \in DOMAIN store THEN d ELSE [d EXCEPT !.size = @ + 1]
    BY <1>1, AssignEffect
  <1>3. PICK d2 : d2 = IF e \in DOMAIN store THEN d ELSE [d EXCEPT !.size = @ + 1]
    OBVIOUS
  <1>4. m \in Members /\ d.type \in {"Hash", "Set"} /\ Sound(k, d)
    BY <1>1, CallIs DEF Assigning, Current
  <1>5. d.version \in Nat
    BY <1>1, CallIs DEF Metas
  <1>6. e[1] = k /\ e[2] = d.version
    BY <1>2, <1>4, <1>5, ElementKeyIs
  <1>7. \A n \in Members \ {m} : Same(ElementKey(k, d.version, n))
    <2> TAKE n \in Members \ {m}
    <2>1. PICK f : f = ElementKey(k, d.version, n)
      OBVIOUS
    <2>2. f \notin Keys /\ f[3] = n /\ e[3] = m
      BY <1>2, <1>4, <1>5, <2>1, ElementKeyIs
    <2> QED BY <1>2, <2>1, <2>2
  <1>8. Sound(k, d2)' /\ d2 \in Metas /\ d2.type = d.type /\ d2.version = d.version
    BY <1>2, <1>3, <1>4, <1>7, AssignSound DEF Structures, Committing
  <1> QED BY <1>1, <1>2, <1>3, <1>6, <1>8, CommitIs

\* ZAdd: also the key by score, and the one by the old score goes.
LEMMA ScoreEffect ==
    ASSUME CallsInv, NEW c \in Writers, call[c] # NoCall, Scoring(c), Committing(c),
           NEW k, NEW d, NEW e, NEW n, NEW m, k = call[c].key, d = call[c].meta, e = Mine(c),
           m = call[c].member, n = ScoreKey(k, d.version, call[c].arg, m)
    PROVE  /\ k \in Keys /\ e \notin Keys /\ e = ElementKey(k, d.version, m)
           /\ n \notin Keys /\ n # e
           /\ \A f : f # k /\ f # e /\ f # n /\ f \notin OldScore(c) => Same(f)
           /\ e \in DOMAIN store' /\ store'[e] = call[c].arg
           /\ n \in DOMAIN store'
           /\ \A f \in OldScore(c) : f \notin DOMAIN store' /\ f \notin Keys /\ f # e
           /\ e \in DOMAIN store =>
                 OldScore(c) = {ScoreKey(k, d.version, store[e], m)}
                    /\ store[e] \in Scores /\ store[e] # call[c].arg
           /\ e \notin DOMAIN store => OldScore(c) = {}
           /\ k \in DOMAIN store'
           /\ store'[k] = IF e \in DOMAIN store THEN d ELSE [d EXCEPT !.size = @ + 1]
  <1>1. k \in Keys /\ d \in Metas /\ Current(c) /\ d.version \in Nat /\ m \in Members
    BY CallIs DEF Metas, Scoring
  <1>2. e = ElementKey(k, d.version, m) /\ e \notin Keys
    BY <1>1, ElementKeyIs DEF Mine
  <1>3. /\ call[c].arg \in Scores /\ call[c].arg # Gone /\ Nil # Gone
        /\ ~(e \in DOMAIN store /\ store[e] = call[c].arg)
    BY RedisAssumption DEF Scoring, Committing, At, Exists
  <1>4. n = ScoreKeyOf(c, call[c].arg) /\ n \notin Keys /\ n # e
    BY <1>1, <1>2, <1>3, ScoreKeyIs, KeysApart DEF ScoreKeyOf
  <1>5. ASSUME e \in DOMAIN store
        PROVE  /\ OldScore(c) = {ScoreKey(k, d.version, store[e], m)}
               /\ store[e] \in Scores /\ store[e] # call[c].arg
    <2>1. Scored(k, d) /\ m \in MembersAt(k, d.version)
      BY <1>1, <1>2, <1>5 DEF Current, Sound, Scoring, MembersAt
    <2>2. {s \in Scores : ScoreKey(k, d.version, s, m) \in DOMAIN store} = {store[e]}
      BY <1>1, <1>2, <2>1 DEF Scored
    <2> QED BY <1>3, <1>5, <2>2 DEF OldScore, Exists, ScoreKeyOf
  <1>6. e \notin DOMAIN store => OldScore(c) = {}
    BY DEF OldScore, Exists
  <1>7. \A f \in OldScore(c) : f \notin Keys /\ f # e /\ f # n
    <2> SUFFICES ASSUME NEW f \in OldScore(c)
                 PROVE  f \notin Keys /\ f # e /\ f # n
      OBVIOUS
    <2>1. PICK s \in Scores : f = ScoreKey(k, d.version, s, m) /\ s # call[c].arg
      BY <1>5, <1>6
    <2>2. f \notin Keys /\ f[3] = s
      BY <1>1, <2>1, ScoreKeyIs
    <2>3. n[3] = call[c].arg
      BY <1>1, <1>3, ScoreKeyIs
    <2>4. f # e
      BY <1>2, <2>1, KeysApart
    <2> QED BY <2>1, <2>2, <2>3, <2>4
  <1>8. PICK w, old : w = call[c].writes /\ old = OldScore(c)
    OBVIOUS
  <1>9. /\ w = ((CountNew(c) ++ Entry(e, call[c].arg)) ++ Entry(n, Nil)) ++ [f \in old |-> Gone]
        /\ store' = Applied(w)
    BY <1>4, <1>8 DEF Scoring, Committing, At, AssignsScore, Assigns
  <1>10. CASE e \in DOMAIN store
    <2>1. CountNew(c) = <<>>
      BY <1>10 DEF CountNew, Exists
    <2>2. /\ DOMAIN w = {e, n} \cup old /\ w[e] = call[c].arg /\ w[n] = Nil
          /\ \A f \in old : w[f] = Gone
      <3>1. PICK a : a = (CountNew(c) ++ Entry(e, call[c].arg)) ++ Entry(n, Nil)
        OBVIOUS
      <3>2. DOMAIN a = {e, n} /\ a[e] = call[c].arg /\ a[n] = Nil
        BY <1>4, <2>1, <3>1 DEF ++, Entry
      <3>3. PICK g : g = [f \in old |-> Gone]
        OBVIOUS
      <3>4. w = a ++ g /\ DOMAIN g = old /\ \A f \in old : g[f] = Gone
        BY <1>9, <3>1, <3>3
      <3>5. DOMAIN w = {e, n} \cup old /\ w[e] = call[c].arg /\ w[n] = Nil
        BY <3>2, <3>4 DEF ++
      <3>6. \A f \in old : w[f] = Gone
        <4> TAKE f \in old
        <4>1. f \in DOMAIN g \ DOMAIN a
          BY <1>7, <1>8, <3>2, <3>4
        <4>2. w[f] = g[f]
          BY <3>4, <4>1 DEF ++
        <4> QED BY <3>4, <4>2
      <3> QED BY <3>5, <3>6
    <2>3. k \in DOMAIN store /\ store[k] = d
      BY <1>1, <1>2, <1>10, ElementThere DEF Scoring, Structures
    <2>4. k \notin DOMAIN w
      BY <1>1, <1>2, <1>4, <1>7, <1>8, <2>2
    <2>5. k \in DOMAIN store' /\ store'[k] = d
      BY <1>9, <2>3, <2>4, AppliedReads
    <2>6. /\ e \in DOMAIN store' /\ store'[e] = call[c].arg /\ n \in DOMAIN store'
          /\ \A f \in old : f \notin DOMAIN store'
      BY <1>3, <1>9, <2>2, AppliedReads
    <2>7. \A f : f # k /\ f # e /\ f # n /\ f \notin old => Same(f)
      BY <1>9, <2>2, AppliedReads DEF Same
    <2> QED BY <1>1, <1>2, <1>4, <1>5, <1>7, <1>8, <1>10, <2>5, <2>6, <2>7
  <1>11. CASE e \notin DOMAIN store
    <2>1. PICK d2 : d2 = [d EXCEPT !.size = @ + 1]
      OBVIOUS
    <2>2. d2 # Gone
      BY <1>1, <2>1, CountedIs
    <2>3. CountNew(c) = Entry(k, d2) /\ old = {}
      BY <1>6, <1>8, <1>11, <2>1 DEF CountNew, Exists, Counted
    <2>4. DOMAIN w = {k, e, n} /\ w[k] = d2 /\ w[e] = call[c].arg /\ w[n] = Nil
      BY <1>1, <1>2, <1>4, <1>9, <2>3 DEF ++, Entry
    <2>5. /\ e \in DOMAIN store' /\ store'[e] = call[c].arg /\ n \in DOMAIN store'
          /\ k \in DOMAIN store' /\ store'[k] = d2
      BY <1>3, <1>9, <2>2, <2>4, AppliedReads
    <2>6. \A f : f # k /\ f # e /\ f # n /\ f \notin old => Same(f)
      BY <1>9, <2>4, AppliedReads DEF Same
    <2> QED BY <1>1, <1>2, <1>4, <1>6, <1>8, <1>11, <2>1, <2>3, <2>5, <2>6
  <1> QED BY <1>10, <1>11

LEMMA ScoreKeeps ==
    ASSUME OneWriterPerKey, StoreInv, CallsInv, NEW c \in Writers, call[c] # NoCall,
           Scoring(c), Committing(c)
    PROVE  StoreInv' /\ CallsInv' /\ \E k \in KeysOf[c] : Changed(c, k)
  <1>1. PICK k, d, e, m, x : /\ k = call[c].key /\ d = call[c].meta /\ e = Mine(c)
                             /\ m = call[c].member /\ x = call[c].arg
    OBVIOUS
  <1>2. PICK n, old : n = ScoreKey(k, d.version, x, m) /\ old = OldScore(c)
    OBVIOUS
  <1>3. /\ k \in Keys /\ e \notin Keys /\ e = ElementKey(k, d.version, m)
        /\ n \notin Keys /\ n # e
        /\ \A f : f # k /\ f # e /\ f # n /\ f \notin old => Same(f)
        /\ e \in DOMAIN store' /\ store'[e] = x
        /\ n \in DOMAIN store'
        /\ \A f \in old : f \notin DOMAIN store' /\ f \notin Keys /\ f # e
        /\ e \in DOMAIN store =>
              old = {ScoreKey(k, d.version, store[e], m)} /\ store[e] \in Scores /\ store[e] # x
        /\ e \notin DOMAIN store => old = {}
        /\ k \in DOMAIN store'
        /\ store'[k] = IF e \in DOMAIN store THEN d ELSE [d EXCEPT !.size = @ + 1]
    BY <1>1, <1>2, ScoreEffect
  <1>4. PICK d2 : d2 = IF e \in DOMAIN store THEN d ELSE [d EXCEPT !.size = @ + 1]
    OBVIOUS
  <1>5. m \in Members /\ x \in Scores /\ d.type = "ZSet" /\ Sound(k, d) /\ Scored(k, d)
    BY <1>1, CallIs DEF Scoring, Current, Sound
  <1>6. d.version \in Nat
    BY <1>1, CallIs DEF Metas
  <1>7. e[1] = k /\ e[2] = d.version /\ e[3] = m /\ n[1] = k /\ n[2] = d.version
    BY <1>2, <1>3, <1>5, <1>6, ElementKeyIs, ScoreKeyIs
  <1>8. \A f \in old : f[1] = k /\ f[2] = d.version /\ f[4] = m
    BY <1>3, <1>5, <1>6, ScoreKeyIs
  <1>9. \A j \in Members \ {m} : Same(ElementKey(k, d.version, j))
    <2> TAKE j \in Members \ {m}
    <2>1. PICK f : f = ElementKey(k, d.version, j)
      OBVIOUS
    <2>2. f \notin Keys /\ f[3] = j
      BY <1>3, <1>6, <2>1, ElementKeyIs
    <2>3. f # n /\ f \notin old
      BY <1>2, <1>3, <2>1, KeysApart
    <2> QED BY <1>3, <1>7, <2>1, <2>2, <2>3
  <1>10. ASSUME NEW j \in Members, NEW s \in Scores
         PROVE  ScoreKey(k, d.version, s, j) \in DOMAIN store' <=>
                   IF j = m THEN s = x ELSE ScoreKey(k, d.version, s, j) \in DOMAIN store
    <2>1. PICK f : f = ScoreKey(k, d.version, s, j)
      OBVIOUS
    <2>2. f \notin Keys /\ f # e /\ f[3] = s /\ f[4] = j
      BY <1>3, <1>6, <2>1, ScoreKeyIs, KeysApart
    <2>3. n[3] = x /\ n[4] = m
      BY <1>2, <1>3, <1>5, <1>6, ScoreKeyIs
    <2>4. CASE j # m
      <3>1. f # n /\ f \notin old
        BY <1>8, <2>2, <2>3, <2>4
      <3> QED BY <1>3, <2>1, <2>2, <2>4, <3>1 DEF Same
    <2>5. CASE j = m /\ s = x
      BY <1>2, <1>3, <2>1, <2>5
    <2>6. CASE j = m /\ s # x /\ f \in old
      BY <1>3, <2>1, <2>6
    <2>7. CASE j = m /\ s # x /\ f \notin old
      <3>1. f # n /\ (f \in DOMAIN store' <=> f \in DOMAIN store)
        BY <1>3, <2>2, <2>3, <2>7 DEF Same
      <3>2. {u \in Scores : ScoreKey(k, d.version, u, m) \in DOMAIN store}
              = IF e \in DOMAIN store THEN {store[e]} ELSE {}
        BY <1>3, <1>5 DEF Scored, MembersAt
      <3>3. f \notin DOMAIN store
        BY <1>3, <2>1, <2>7, <3>2
      <3> QED BY <2>1, <2>7, <3>1, <3>3
    <2> QED BY <2>4, <2>5, <2>6, <2>7
  <1>11. \A j \in Members : {s \in Scores : ScoreKey(k, d.version, s, j) \in DOMAIN store'}
                 = IF j = m THEN {store'[e]}
                   ELSE {s \in Scores : ScoreKey(k, d.version, s, j) \in DOMAIN store}
    BY <1>3, <1>5, <1>10
  <1>12. Sound(k, d2)' /\ d2 \in Metas /\ d2.type = d.type /\ d2.version = d.version
    BY <1>3, <1>4, <1>5, <1>9, <1>11, AssignSound DEF Structures, Committing
  <1>13. \A f : f # k /\ ~(f \notin Keys /\ f[1] = k /\ f[2] = d.version) => Same(f)
    BY <1>3, <1>7, <1>8
  <1>14. store'[k] = d2
    BY <1>3, <1>4
  <1> QED BY <1>1, <1>3, <1>12, <1>13, <1>14, CommitIs

\* HDel and SRem: the element goes, and is no longer counted.
LEMMA RemoveEffect ==
    ASSUME CallsInv, NEW c \in Writers, call[c] # NoCall, Removing(c), Committing(c),
           NEW k, NEW d, NEW e, k = call[c].key, d = call[c].meta, e = Mine(c)
    PROVE  /\ k \in Keys /\ e \notin Keys /\ e = ElementKey(k, d.version, call[c].member)
           /\ \A f : f # k /\ f # e => Same(f)
           /\ k \in DOMAIN store /\ store[k] = d
           /\ e \in DOMAIN store /\ e \notin DOMAIN store'
           /\ k \in DOMAIN store' /\ store'[k] = [d EXCEPT !.size = @ + (-1)]
  <1>1. k \in Keys /\ d \in Metas /\ Current(c)
    BY CallIs
  <1>2. e = ElementKey(k, d.version, call[c].member) /\ e \notin Keys
    BY <1>1, ElementKeyIs DEF Mine, Removing, Metas
  <1>3. e \in DOMAIN store
    BY DEF Removing, Committing, At, Exists
  <1>4. k \in DOMAIN store /\ store[k] = d
    BY <1>1, <1>2, <1>3, ElementThere DEF Removing, Structures
  <1>5. PICK d2 : d2 = [d EXCEPT !.size = @ + (-1)]
    OBVIOUS
  <1>6. d2 # Gone
    BY <1>1, <1>5, CountedIs
  <1>7. PICK w : w = call[c].writes
    OBVIOUS
  <1>8. w = Entry(k, d2) ++ [f \in {e} |-> Gone] /\ store' = Applied(w)
    BY <1>5, <1>7 DEF Removing, Committing, At, Counted
  <1>9. DOMAIN w = {k, e} /\ w[k] = d2 /\ w[e] = Gone
    BY <1>1, <1>2, <1>8 DEF ++, Entry
  <1>10. e \notin DOMAIN store' /\ k \in DOMAIN store' /\ store'[k] = d2
    BY <1>6, <1>8, <1>9, AppliedReads
  <1>11. \A f : f # k /\ f # e => Same(f)
    BY <1>8, <1>9, AppliedReads DEF Same
  <1> QED BY <1>1, <1>2, <1>3, <1>4, <1>5, <1>10, <1>11

LEMMA RemoveKeeps ==
    ASSUME OneWriterPerKey, StoreInv, CallsInv, NEW c \in Writers, call[c] # NoCall,
           Removing(c), Committing(c)
    PROVE  StoreInv' /\ CallsInv' /\ \E k \in KeysOf[c] : Changed(c, k)
  <1>1. PICK k, d, e, m : k = call[c].key /\ d = call[c].meta /\ e = Mine(c) /\ m = call[c].member
    OBVIOUS
  <1>2. PICK d2 : d2 = [d EXCEPT !.size = @ + (-1)]
    OBVIOUS
  <1>3. /\ k \in Keys /\ e \notin Keys /\ e = ElementKey(k, d.version, m)
        /\ \A f : f # k /\ f # e => Same(f)
        /\ e \in DOMAIN store /\ e \notin DOMAIN store'
        /\ k \in DOMAIN store' /\ store'[k] = d2
    BY <1>1, <1>2, RemoveEffect
  <1>4. m \in Members /\ d.type \in {"Hash", "Set"} /\ Sound(k, d)
    BY <1>1, CallIs DEF Removing, Current
  <1>5. d.version \in Nat
    BY <1>1, CallIs DEF Metas
  <1>6. e[1] = k /\ e[2] = d.version
    BY <1>3, <1>4, <1>5, ElementKeyIs
  <1>7. \A n \in Members \ {m} : Same(ElementKey(k, d.version, n))
    <2> TAKE n \in Members \ {m}
    <2>1. PICK f : f = ElementKey(k, d.version, n)
      OBVIOUS
    <2>2. f \notin Keys /\ f[3] = n /\ e[3] = m
      BY <1>3, <1>4, <1>5, <2>1, ElementKeyIs
    <2> QED BY <1>3, <2>1, <2>2
  <1>8. Sound(k, d2)' /\ d2 \in Metas /\ d2.type = d.type /\ d2.version = d.version
    BY <1>2, <1>3, <1>4, <1>7, RemoveSound DEF Committing
  <1> QED BY <1>1, <1>3, <1>6, <1>8, CommitIs

\* LPush and RPush: the element at the free index next to the list.
LEMMA PushEffect ==
    ASSUME CallsInv, NEW c \in Writers, call[c] # NoCall, Pushing(c), Committing(c),
           NEW k, NEW d, NEW e, NEW d2, k = call[c].key, d = call[c].meta, e = Pushed(c),
           d2 = MetaAfterPush(c)
    PROVE  /\ k \in Keys /\ e \notin Keys /\ e = ElementKey(k, d.version, PushIndex(c))
           /\ d \in Metas /\ d.type = "List" /\ Listed(k, d) /\ d.version < clock
           /\ d.version \in Nat
           /\ d.head \in Int /\ d.tail \in Int /\ PushIndex(c) \in Int
           /\ e[1] = k /\ e[2] = d.version /\ e[3] = PushIndex(c)
           /\ \A f : f # k /\ f # e => Same(f)
           /\ e \in DOMAIN store' /\ store'[e] = call[c].arg
           /\ k \in DOMAIN store' /\ store'[k] = d2
           /\ d2 \in Metas /\ d2.type = "List" /\ d2.version = d.version
           /\ d2.size = d.size + 1
           /\ \/ /\ call[c].op = "LPush" /\ PushIndex(c) = d.head - 1
                 /\ d2.head = d.head - 1 /\ d2.tail = d.tail
              \/ /\ call[c].op = "RPush" /\ PushIndex(c) = d.tail
                 /\ d2.head = d.head /\ d2.tail = d.tail + 1
  <1>1. k \in Keys /\ d \in Metas /\ Current(c)
    BY CallIs
  <1>2. d.type = "List" /\ Listed(k, d) /\ d.version < clock
    BY <1>1 DEF Current, Sound, Pushing
  <1>3. /\ d.version \in Nat /\ d.head \in Int /\ d.tail \in Int /\ d.size \in Int
        /\ d.size + 1 \in Int /\ d.head - 1 \in Int /\ d.tail + 1 \in Int
    BY <1>1 DEF Metas
  <1>4. PushIndex(c) \in Int
    BY <1>3 DEF PushIndex
  <1>5. e = ElementKey(k, d.version, PushIndex(c))
    BY DEF Pushed
  <1>6. e \notin Keys /\ e[1] = k /\ e[2] = d.version /\ e[3] = PushIndex(c)
    <2>1. PICK i \in Int : i = PushIndex(c)
      BY <1>4
    <2> QED BY <1>1, <1>3, <1>5, <2>1, ElementKeyIs
  <1>7. /\ d2 \in Metas /\ d2.type = "List" /\ d2.version = d.version
        /\ d2.size = d.size + 1
        /\ \/ /\ call[c].op = "LPush" /\ PushIndex(c) = d.head - 1
              /\ d2.head = d.head - 1 /\ d2.tail = d.tail
           \/ /\ call[c].op = "RPush" /\ PushIndex(c) = d.tail
              /\ d2.head = d.head /\ d2.tail = d.tail + 1
    <2>1. CASE call[c].op = "LPush"
      <3>1. d2 = Shifted(d, d.size + 1, d.head - 1, d.tail) /\ PushIndex(c) = d.head - 1
        BY <1>1, <2>1 DEF MetaAfterPush, PushIndex, Metas, Shifted
      <3> QED BY <1>1, <1>2, <1>3, <2>1, <3>1, ShiftedIs
    <2>2. CASE call[c].op = "RPush"
      <3>1. d2 = Shifted(d, d.size + 1, d.head, d.tail + 1) /\ PushIndex(c) = d.tail
        BY <1>1, <2>2 DEF MetaAfterPush, PushIndex, Metas, Shifted
      <3> QED BY <1>1, <1>2, <1>3, <2>2, <3>1, ShiftedIs
    <2> QED BY <2>1, <2>2 DEF Pushing
  <1>8. d2 # Gone /\ call[c].arg # Gone
    BY <1>7, RedisAssumption DEF Pushing
  <1>9. PICK w : w = call[c].writes
    OBVIOUS
  <1>10. w = Entry(k, d2) ++ Entry(e, call[c].arg) /\ store' = Applied(w)
    BY <1>9 DEF Pushing, Committing, At, Pushes
  <1>11. DOMAIN w = {k, e} /\ w[k] = d2 /\ w[e] = call[c].arg
    BY <1>1, <1>6, <1>10 DEF ++, Entry
  <1>12. /\ k \in DOMAIN store' /\ store'[k] = d2
         /\ e \in DOMAIN store' /\ store'[e] = call[c].arg
    BY <1>8, <1>10, <1>11, AppliedReads
  <1>13. \A f : f # k /\ f # e => Same(f)
    BY <1>10, <1>11, AppliedReads DEF Same
  <1> QED BY <1>1, <1>2, <1>3, <1>4, <1>5, <1>6, <1>7, <1>12, <1>13

\* Of the elements of a key that one call works on, none is being popped but by
\* this call.
LEMMA NonePopped ==
    ASSUME OneWriterPerKey, CallsInv, NEW c \in Writers, NEW k \in KeysOf[c],
           call[c].step # "put", NEW e, e[1] = k
    PROVE  e \notin BeingPopped
  <1> SUFFICES ASSUME NEW d \in Writers, call[d].step = "put", e = Popped(d)
               PROVE  FALSE
    BY DEF BeingPopped, At
  <1>1. call[d] # NoCall
    BY DEF NoCall
  <1>2. call[d].key \in KeysOf[d] /\ d # c
    BY <1>1, CallIs
  <1>3. e[1] = call[d].key
    BY DEF Popped, ElementKey
  <1> QED BY <1>2, <1>3 DEF OneWriterPerKey

LEMMA PushKeeps ==
    ASSUME OneWriterPerKey, StoreInv, CallsInv, NEW c \in Writers, call[c] # NoCall,
           Pushing(c), Committing(c)
    PROVE  StoreInv' /\ CallsInv' /\ \E k \in KeysOf[c] : Changed(c, k)
  <1>1. PICK k, d, e, d2 : /\ k = call[c].key /\ d = call[c].meta /\ e = Pushed(c)
                           /\ d2 = MetaAfterPush(c)
    OBVIOUS
  <1>2. PICK i : i = PushIndex(c)
    OBVIOUS
  <1>3. /\ k \in Keys /\ e \notin Keys /\ e = ElementKey(k, d.version, i)
        /\ d \in Metas /\ d.type = "List" /\ Listed(k, d) /\ d.version < clock
        /\ d.version \in Nat
        /\ d.head \in Int /\ d.tail \in Int /\ i \in Int
        /\ e[1] = k /\ e[2] = d.version /\ e[3] = i
        /\ \A f : f # k /\ f # e => Same(f)
        /\ e \in DOMAIN store'
        /\ k \in DOMAIN store' /\ store'[k] = d2
        /\ d2 \in Metas /\ d2.type = "List" /\ d2.version = d.version
        /\ d2.size = d.size + 1
        /\ \/ i = d.head - 1 /\ d2.head = d.head - 1 /\ d2.tail = d.tail
           \/ i = d.tail /\ d2.head = d.head /\ d2.tail = d.tail + 1
    BY <1>1, <1>2, PushEffect
  <1>4. d.head =< d.tail /\ d.size = d.tail - d.head
    BY <1>3 DEF Listed
  <1>5. i \notin d.head .. (d.tail - 1) /\ d2.head .. (d2.tail - 1) = (d.head .. (d.tail - 1)) \cup {i}
    BY <1>3, <1>4
  <1>6. Cells(k, d2) = Cells(k, d) \cup {e} /\ e \notin Cells(k, d)
    <2>1. \A j \in d.head .. (d.tail - 1) : ElementKey(k, d.version, j)[3] = j
      BY <1>3, ElementKeyIs
    <2>2. e \notin Cells(k, d)
      BY <1>3, <1>5, <2>1 DEF Cells
    <2> QED BY <1>3, <1>5, <2>2 DEF Cells
  <1>7. e \notin lost
    BY <1>3, <1>6 DEF Listed, LostUnder
  <1>8. BeingPopped' = BeingPopped
    <2>1. CallBecomes(c, NoCall) /\ NoCall.step # "put" /\ call[c].step # "put"
      BY DEF Committing, Return, CallBecomes, NoCall, At
    <2> QED BY <2>1, PoppedSame
  <1>9. e \notin BeingPopped
    <2>1. k \in KeysOf[c] /\ call[c].step # "put"
      BY <1>1, CallIs DEF Committing, At
    <2> QED BY <1>3, <2>1, NonePopped
  <1>10. Listed(k, d2)'
    <2>1. Under(k, d2.version)' = Under(k, d.version) \cup {e}
      BY <1>3 DEF Under, Same
    <2>2. LostUnder(k, d2.version)' = LostUnder(k, d.version) /\ Cells(k, d2)' = Cells(k, d2)
      BY <1>3 DEF LostUnder, Cells, Committing
    <2>3. Under(k, d.version) = Cells(k, d) \ (lost \cup BeingPopped)
      BY <1>3 DEF Listed
    <2>4. Under(k, d2.version)' = Cells(k, d2) \ (lost' \cup BeingPopped')
      BY <1>6, <1>7, <1>8, <1>9, <2>1, <2>3 DEF Committing
    <2>5. LostUnder(k, d.version) \subseteq Cells(k, d2)
      BY <1>3, <1>6 DEF Listed
    <2>6. d2.head =< d2.tail /\ d2.size = d2.tail - d2.head
      BY <1>3, <1>4 DEF Metas
    <2> QED BY <2>2, <2>4, <2>5, <2>6 DEF Listed
  <1>11. Sound(k, d2)'
    BY <1>3, <1>10 DEF Sound, Structures, Committing
  <1>12. \A f : f # k /\ ~(f \notin Keys /\ f[1] = k /\ f[2] = d.version) => Same(f)
    BY <1>3
  <1> QED BY <1>1, <1>3, <1>11, <1>12, CommitIs

LEMMA CommitKeeps ==
    ASSUME OneWriterPerKey, StoreInv, CallsInv, NEW c \in Writers, Commit(c)
    PROVE  StoreInv' /\ CallsInv' /\ \E k \in KeysOf[c] : Changed(c, k)
  <1>1. Committing(c) /\ call[c] # NoCall /\ call[c].step = "commit"
    BY DEF Commit, Committing, At, NoCall
  <1>2. Assigning(c) \/ Scoring(c) \/ Removing(c) \/ Pushing(c)
    BY <1>1, CallIs DEF Popping
  <1> QED BY <1>1, <1>2, AssignKeeps, ScoreKeeps, RemoveKeeps, PushKeeps

-----------------------------------------------------------------------------
\* All steps of a writer

Starting(c) ==
    \/ HSetStart(c) \/ HDelStart(c) \/ SAddStart(c) \/ SRemStart(c) \/ ZAddStart(c)
    \/ \E op \in {"LPush", "RPush"} : PushStart(c, op)
    \/ \E op \in {"LPop", "RPop"} : PopStart(c, op)
Going(c) ==
    \/ HSetLook(c) \/ SAddLook(c) \/ RemoveLook(c) \/ ZAddLook(c) \/ StageDeletes(c)
    \/ PushLook(c) \/ PopGet(c) \/ CallFails(c)
Changing(c) ==
    Commit(c) \/ PopDelete(c) \/ PopPut(c) \/ Set(c) \/ Delete(c)

LEMMA WritingIs ==
    ASSUME NEW c \in Writers, Writing(c)
    PROVE  Starting(c) \/ Going(c) \/ Changing(c)
  BY DEF Writing, MembersStep, ListStep, Starting, Going, Changing

LEMMA StartingIs ==
    ASSUME NEW c \in Writers, Starting(c)
    PROVE  \E k \in KeysOf[c], t \in Structures \cup {"List"} : \E op, m, x, step :
              /\ Start(c, op, k, t, m, x, step)
              /\ \/ /\ m \in Members /\ step = "look"
                    /\ \/ op = "HSet" /\ t = "Hash" /\ x \in Values
                       \/ op = "SAdd" /\ t = "Set" /\ x = Nil
                       \/ op = "ZAdd" /\ t = "ZSet" /\ x \in Scores
                       \/ op = "HDel" /\ t = "Hash"
                       \/ op = "SRem" /\ t = "Set"
                 \/ op \in {"LPush", "RPush"} /\ t = "List" /\ x \in Elements /\ step = "push"
                 \/ /\ op \in {"LPop", "RPop"} /\ t = "List" /\ step = "get"
                    /\ HasElements(k, t)
  <1>0. {"Hash", "Set", "ZSet", "List"} \subseteq Structures \cup {"List"}
    BY DEF Structures
  <1>1. CASE HSetStart(c)
    <2>1. PICK k \in KeysOf[c], m \in Members, x \in Values : Start(c, "HSet", k, "Hash", m, x, "look")
      BY <1>1 DEF HSetStart
    <2> QED BY <1>0, <2>1
  <1>2. CASE HDelStart(c)
    <2>1. PICK k \in KeysOf[c], m \in Members : Start(c, "HDel", k, "Hash", m, Nil, "look")
      BY <1>2 DEF HDelStart
    <2> QED BY <1>0, <2>1
  <1>3. CASE SAddStart(c)
    <2>1. PICK k \in KeysOf[c], m \in Members : Start(c, "SAdd", k, "Set", m, Nil, "look")
      BY <1>3 DEF SAddStart
    <2> QED BY <1>0, <2>1
  <1>4. CASE SRemStart(c)
    <2>1. PICK k \in KeysOf[c], m \in Members : Start(c, "SRem", k, "Set", m, Nil, "look")
      BY <1>4 DEF SRemStart
    <2> QED BY <1>0, <2>1
  <1>5. CASE ZAddStart(c)
    <2>1. PICK k \in KeysOf[c], m \in Members, x \in Scores : Start(c, "ZAdd", k, "ZSet", m, x, "look")
      BY <1>5 DEF ZAddStart
    <2> QED BY <1>0, <2>1
  <1>6. CASE \E op \in {"LPush", "RPush"} : PushStart(c, op)
    <2>1. PICK op \in {"LPush", "RPush"}, k \in KeysOf[c], x \in Elements : Start(c, op, k, "List", Nil, x, "push")
      BY <1>6 DEF PushStart
    <2> QED BY <1>0, <2>1
  <1>7. CASE \E op \in {"LPop", "RPop"} : PopStart(c, op)
    <2>1. PICK op \in {"LPop", "RPop"}, k \in KeysOf[c] :
             HasElements(k, "List") /\ Start(c, op, k, "List", Nil, Nil, "get")
      BY <1>7 DEF PopStart
    <2> QED BY <1>0, <2>1
  <1> QED BY <1>1, <1>2, <1>3, <1>4, <1>5, <1>6, <1>7 DEF Starting

LEMMA StartingKeeps ==
    ASSUME OneWriterPerKey, StoreInv, CallsInv, NEW c \in Writers, Starting(c)
    PROVE  StoreInv' /\ CallsInv'
  BY StartingIs, StartKeeps

LEMMA GoingKeeps ==
    ASSUME OneWriterPerKey, StoreInv, CallsInv, NEW c \in Writers, Going(c)
    PROVE  StoreInv' /\ CallsInv'
  BY AssignLookKeeps, RemoveLookKeeps, ZAddLookKeeps, StageDeletesKeeps, PushLookKeeps,
     PopGetKeeps, CallFailsKeeps DEF Going

LEMMA ChangingKeeps ==
    ASSUME OneWriterPerKey, StoreInv, CallsInv, NEW c \in Writers, Changing(c)
    PROVE  /\ StoreInv' /\ CallsInv' /\ \E k \in KeysOf[c] : Changed(c, k)
           /\ Observe /\ UNCHANGED <<clock, read>>
  <1>1. StoreInv' /\ CallsInv' /\ \E k \in KeysOf[c] : Changed(c, k)
    BY CommitKeeps, PopDeleteKeeps, PopPutKeeps, SetKeeps, DeleteKeeps DEF Changing
  <1>2. Observe /\ UNCHANGED <<clock, read>>
    BY DEF Changing, Commit, PopDelete, PopPut, Set, Delete
  <1> QED BY <1>1, <1>2

-----------------------------------------------------------------------------
\* The readers, while the writers go on

\* A call keeps its key and its metadata until it ends.
KeepsWork == \A d \in Writers :
    \/ call'[d] = NoCall
    \/ call[d] # NoCall /\ call'[d].key = call[d].key /\ call'[d].meta = call[d].meta

LEMMA GoingIs ==
    ASSUME CallsInv, NEW c \in Writers, Going(c)
    PROVE  KeepsWork /\ UNCHANGED <<store, clock, read, possible>>
  <1>1. call[c] # NoCall /\ c \in DOMAIN call
    BY DEF Going, HSetLook, SAddLook, RemoveLook, ZAddLook, StageDeletes, PushLook, PopGet,
           CallFails, At, NoCall, CallsInv
  <1>2. UNCHANGED <<store, clock, read, possible>>
    BY DEF Going, HSetLook, SAddLook, RemoveLook, ZAddLook, StageDeletes, PushLook, PopGet, CallFails
  <1>3. CASE Return(c)
    <2>1. CallBecomes(c, NoCall)
      BY <1>3 DEF Return, CallBecomes
    <2>2. call'[c] = NoCall /\ \A d \in Writers \ {c} : call'[d] = call[d]
      BY <2>1, CallRows
    <2> QED BY <1>2, <2>2 DEF KeepsWork
  <1>4. CASE \E puts, deletes : Stage(c, puts, deletes)
    <2>1. PICK puts, deletes : Stage(c, puts, deletes)
      BY <1>4
    <2>2. PICK q : GoesOn(c, q)
      BY <1>1, <2>1, StageIs
    <2>3. call'[c] = q /\ \A d \in Writers \ {c} : call'[d] = call[d]
      BY <2>2, CallRows DEF GoesOn
    <2> QED BY <1>1, <1>2, <2>2, <2>3 DEF KeepsWork, GoesOn
  <1>5. CASE call' = [call EXCEPT ![c].step = "delete"]
    <2>1. DOMAIN call[c] = CallFields
      BY <1>1, CallIs
    <2>2. PICK q : q = [call[c] EXCEPT !.step = "delete"]
      OBVIOUS
    <2>3. q.key = call[c].key /\ q.meta = call[c].meta /\ CallBecomes(c, q)
      BY <1>1, <1>5, <2>1, <2>2 DEF CallFields, CallBecomes
    <2>4. call'[c] = q /\ \A d \in Writers \ {c} : call'[d] = call[d]
      BY <2>3, CallRows
    <2> QED BY <1>1, <1>2, <2>3, <2>4 DEF KeepsWork
  <1>6. Return(c) \/ (\E puts, deletes : Stage(c, puts, deletes))
           \/ call' = [call EXCEPT ![c].step = "delete"]
    BY DEF Going, HSetLook, SAddLook, RemoveLook, ZAddLook, StageDeletes, PushLook, PopGet, CallFails
  <1> QED BY <1>3, <1>4, <1>5, <1>6

\* The parts of SameType.
TypeInStore(r) ==
    read[r].key \in DOMAIN store /\ store[read[r].key] # Text
       /\ store[read[r].key].version = read[r].version =>
          store[read[r].key].type = read[r].type
TypeInCalls(r) == \A c \in Writers :
    call[c] # NoCall /\ call[c].key = read[r].key /\ call[c].meta.version = read[r].version =>
       call[c].meta.type = read[r].type
LEMMA SameTypeIs ==
    ASSUME NEW r
    PROVE  SameType(r) <=> read[r].version < clock /\ TypeInStore(r) /\ TypeInCalls(r)
  BY DEF SameType, TypeInStore, TypeInCalls

LEMMA TypeWorkKept ==
    ASSUME NEW r, TypeInCalls(r), KeepsWork, UNCHANGED read
    PROVE  TypeInCalls(r)'
  <1> SUFFICES ASSUME NEW c \in Writers, call'[c] # NoCall, call'[c].key = read[r].key,
                      call'[c].meta.version = read[r].version
               PROVE  call'[c].meta.type = read[r].type
    BY DEF TypeInCalls
  <1>1. call[c] # NoCall /\ call'[c].key = call[c].key /\ call'[c].meta = call[c].meta
    BY DEF KeepsWork
  <1> QED BY <1>1 DEF TypeInCalls

\* A step that leaves the store and the readers alone.
LEMMA QuietReads ==
    ASSUME StoreInv, ReadsInv, UNCHANGED <<store, read, possible>>, clock' \in Nat, clock =< clock',
           \A r \in Readers : read[r].step = "look" /\ SameType(r) => TypeInCalls(r)'
    PROVE  ReadsInv'
  <1>1. ASSUME NEW r \in Readers
        PROVE  ReadInv(r)'
    <2>1. CASE read[r] = NoCall
      BY <2>1 DEF ReadInv
    <2>2. CASE read[r] # NoCall /\ read[r].step = "done"
      BY <2>2 DEF ReadInv, ReadsInv
    <2>3. CASE read[r] # NoCall /\ read[r].step = "look"
      <3>1. SameType(r) /\ read[r].version \in Nat
        BY <2>3 DEF ReadInv, ReadsInv
      <3>2. read[r].version < clock' /\ TypeInStore(r)' /\ TypeInCalls(r)'
        BY <2>3, <3>1, SameTypeIs DEF StoreInv, TypeInStore
      <3>3. SameType(r)'
        BY <3>2 DEF SameType, TypeInStore, TypeInCalls
      <3>4. Lookup(read[r].key, read[r].version, read[r].asked)'
              = Lookup(read[r].key, read[r].version, read[r].asked)
        BY DEF Lookup
      <3> QED BY <2>3, <3>3, <3>4 DEF ReadInv, ReadsInv
    <2> QED BY <2>1, <2>2, <2>3 DEF ReadInv, ReadsInv
  <1> QED BY <1>1 DEF ReadsInv

LEMMA GoingReads ==
    ASSUME StoreInv, CallsInv, ReadsInv, NEW c \in Writers, Going(c)
    PROVE  ReadsInv'
  <1>1. KeepsWork /\ UNCHANGED <<store, clock, read, possible>>
    BY GoingIs
  <1>2. \A r \in Readers : SameType(r) => TypeInCalls(r)'
    BY <1>1, TypeWorkKept, SameTypeIs
  <1> QED BY <1>1, <1>2, QuietReads DEF StoreInv

LEMMA StartingReads ==
    ASSUME OneWriterPerKey, StoreInv, CallsInv, ReadsInv, NEW c \in Writers, Starting(c)
    PROVE  ReadsInv'
  <1>0. PICK k \in KeysOf[c], t \in Structures \cup {"List"} :
           \E op, m, x, step : Start(c, op, k, t, m, x, step) /\ step # "put"
    BY StartingIs
  <1>1. PICK op, m, x, step : Start(c, op, k, t, m, x, step) /\ step # "put"
    BY <1>0
  <1>2. PICK q : /\ CallBecomes(c, q) /\ call'[c] = q /\ q.key = k
                 /\ q.meta = Metadata(k, t) /\ q.meta.type = t
                 /\ clock' \in Nat /\ clock =< clock'
                 /\ UNCHANGED <<store, read, possible, lost>>
    BY <1>1, StartIs
  <1>3. \A d \in Writers \ {c} : call'[d] = call[d]
    BY <1>2, CallRows
  <1>4. ASSUME NEW r \in Readers, read[r].step = "look", SameType(r)
        PROVE  TypeInCalls(r)'
    <2>1. read[r].version < clock /\ TypeInStore(r) /\ TypeInCalls(r) /\ read[r].version \in Nat
      <3>1. read[r] # NoCall /\ ReadInv(r)
        BY <1>4 DEF NoCall, ReadsInv
      <3>2. read[r].version \in Nat
        BY <3>1 DEF ReadInv
      <3> QED BY <1>4, <3>2, SameTypeIs
    <2>2. ASSUME q.key = read[r].key, q.meta.version = read[r].version
          PROVE  q.meta.type = read[r].type
      <3>1. CASE k \in DOMAIN store
        <4>1. q.meta = store[k]
          BY <1>2, <3>1 DEF Metadata
        <4>2. store[k] # Text
          BY <1>2, <4>1 DEF Text, Structures
        <4> QED BY <1>2, <2>1, <2>2, <3>1, <4>1, <4>2 DEF TypeInStore
      <3>2. CASE k \notin DOMAIN store
        <4>1. q.meta.version = clock
          BY <1>2, <3>2 DEF Metadata, NewVersion
        <4> QED BY <2>1, <2>2, <4>1 DEF StoreInv
      <3> QED BY <3>1, <3>2
    <2> SUFFICES ASSUME NEW d \in Writers, call'[d] # NoCall, call'[d].key = read[r].key,
                        call'[d].meta.version = read[r].version
                 PROVE  call'[d].meta.type = read[r].type
      BY <1>2 DEF TypeInCalls
    <2> QED BY <1>2, <1>3, <2>1, <2>2 DEF TypeInCalls
  <1> QED BY <1>2, <1>4, QuietReads

\* A step that changes the store: what a reader would read now stays what it
\* was, or is the answer of the new store.
LEMMA ChangedReads ==
    ASSUME OneWriterPerKey, StoreInv, CallsInv, ReadsInv, NEW c \in Writers, NEW k \in KeysOf[c],
           Changed(c, k), Observe, UNCHANGED <<clock, read>>
    PROVE  ReadsInv'
  <1>1. k \in Keys /\ WriterStep(c, k)
    BY RedisAssumption DEF Changed
  <1>2. KeepsWork
    BY <1>1 DEF KeepsWork, Changed, WriterStep
  <1>3. \A r \in Readers : read[r] # NoCall =>
           possible'[r] = possible[r] \cup {Answer(store', read[r])}
    BY DEF Observe
  <1>4. ASSUME NEW r \in Readers, read[r] # NoCall, read[r].step = "look"
        PROVE  /\ SameType(r)'
               /\ Lookup(read[r].key, read[r].version, read[r].asked)' \in possible'[r]
    <2>1. PICK q : q = read[r]
      OBVIOUS
    <2>2. PICK j, v : j = q.key /\ v = q.version
      OBVIOUS
    <2>3. /\ j \in Keys /\ v \in Nat /\ q.asked \subseteq Members
          /\ v < clock /\ TypeInStore(r) /\ TypeInCalls(r)
          /\ Lookup(j, v, q.asked) \in possible[r]
      BY <1>4, <2>1, <2>2, SameTypeIs DEF ReadsInv, ReadInv
    <2>4. TypeInCalls(r)'
      BY <1>2, <2>3, TypeWorkKept
    <2>5. ASSUME NEW m \in Members
          PROVE  /\ ElementKey(j, v, m) \notin Keys
                 /\ ElementKey(j, v, m)[1] = j /\ ElementKey(j, v, m)[2] = v
      BY <2>3, ElementKeyIs
    <2>6. ASSUME \A m \in Members : Same(ElementKey(j, v, m))
          PROVE  Lookup(j, v, q.asked)' \in possible'[r]
      <3>1. Lookup(j, v, q.asked)' = Lookup(j, v, q.asked)
        BY <2>3, <2>6 DEF Lookup, Same
      <3> QED BY <1>3, <1>4, <2>1, <2>3, <3>1
    <2>7. CASE j # k
      <3>1. Same(j) /\ \A m \in Members : Same(ElementKey(j, v, m))
        BY <1>1, <2>3, <2>5, <2>7 DEF WriterStep, Elsewhere, About
      <3>2. TypeInStore(r)'
        BY <2>1, <2>2, <2>3, <3>1 DEF TypeInStore, Same
      <3> QED BY <2>1, <2>2, <2>3, <2>4, <2>6, <3>1, <3>2 DEF SameType, TypeInStore, TypeInCalls
    <2>8. CASE j = k /\ Ended(k)
      <3>1. \A m \in Members : Same(ElementKey(j, v, m))
        BY <2>5, <2>8 DEF Ended, SameUnder
      <3>2. TypeInStore(r)'
        BY <2>1, <2>2, <2>8 DEF TypeInStore, Ended
      <3> QED BY <2>1, <2>2, <2>3, <2>4, <2>6, <3>1, <3>2 DEF SameType, TypeInStore, TypeInCalls
    <2>9. CASE j = k /\ Continued(c, k)
      <3>1. v = call[c].meta.version => call[c].meta.type = q.type
        BY <2>1, <2>2, <2>3, <2>9 DEF TypeInCalls, Continued
      <3>2. TypeInStore(r)'
        BY <2>1, <2>2, <2>9, <3>1 DEF TypeInStore, Continued
      <3>3. CASE v = call[c].meta.version
        <4>1. k \in DOMAIN store' /\ store'[k].version = v /\ store'[k].type = q.type
          BY <2>9, <3>1, <3>3 DEF Continued
        <4>2. Lookup(j, v, q.asked)' = Answer(store', q)
          BY <2>2, <2>9, <4>1 DEF Lookup, Answer
        <4> QED BY <1>3, <1>4, <2>1, <2>2, <2>3, <2>4, <3>2, <4>2 DEF SameType, TypeInStore, TypeInCalls
      <3>4. CASE v # call[c].meta.version
        <4>1. \A m \in Members : Same(ElementKey(j, v, m))
          BY <2>5, <2>9, <3>4 DEF Continued
        <4> QED BY <2>1, <2>2, <2>3, <2>4, <2>6, <3>2, <4>1 DEF SameType, TypeInStore, TypeInCalls
      <3> QED BY <3>3, <3>4
    <2> QED BY <2>7, <2>8, <2>9 DEF Changed
  <1>5. ASSUME NEW r \in Readers
        PROVE  ReadInv(r)'
    <2>1. CASE read[r] = NoCall
      BY <2>1 DEF ReadInv
    <2>2. CASE read[r] # NoCall /\ read[r].step = "done"
      BY <1>3, <2>2 DEF ReadInv, ReadsInv
    <2>3. CASE read[r] # NoCall /\ read[r].step = "look"
      BY <1>4, <2>3 DEF ReadInv, ReadsInv
    <2> QED BY <2>1, <2>2, <2>3 DEF ReadInv, ReadsInv
  <1>6. possible' = [r \in Readers |-> possible'[r]]
    BY DEF Observe
  <1> QED BY <1>5, <1>6 DEF ReadsInv

LEMMA WritingKeeps ==
    ASSUME OneWriterPerKey, RedisIndInv, NEW c \in Writers, Writing(c)
    PROVE  RedisIndInv'
  <1>1. CASE Starting(c)
    BY <1>1, StartingKeeps, StartingReads DEF RedisIndInv
  <1>2. CASE Going(c)
    BY <1>2, GoingKeeps, GoingReads DEF RedisIndInv
  <1>3. CASE Changing(c)
    <2>1. /\ StoreInv' /\ CallsInv' /\ Observe /\ UNCHANGED <<clock, read>>
          /\ \E k \in KeysOf[c] : Changed(c, k)
      BY <1>3, ChangingKeeps DEF RedisIndInv
    <2>2. ReadsInv'
      BY <2>1, ChangedReads DEF RedisIndInv
    <2> QED BY <2>1, <2>2 DEF RedisIndInv
  <1> QED BY <1>1, <1>2, <1>3, WritingIs

-----------------------------------------------------------------------------
\* The steps of the readers

LEMMA ReaderLeaves ==
    ASSUME UNCHANGED <<store, clock, call, lost>>
    PROVE  (StoreInv => StoreInv') /\ (CallsInv => CallsInv')
  <1>1. BeingPopped' = BeingPopped
    BY DEF BeingPopped, At, Popped, PopIndex
  <1>2. \A k, d : Sound(k, d)' <=> Sound(k, d)
    <2> TAKE k, d
    <2>1. MembersAt(k, d.version)' = MembersAt(k, d.version)
      BY DEF MembersAt
    <2>2. Counts(k, d)' <=> Counts(k, d)
      BY <2>1 DEF Counts
    <2>3. Scored(k, d)' <=> Scored(k, d)
      BY <2>1 DEF Scored
    <2>4. Listed(k, d)' <=> Listed(k, d)
      BY <1>1 DEF Listed, Under, LostUnder, Cells
    <2> QED BY <2>2, <2>3, <2>4 DEF Sound
  <1>3. StoreInv => StoreInv'
    BY <1>2 DEF StoreInv
  <1>4. ASSUME NEW c
        PROVE  /\ Current(c)' <=> Current(c)
               /\ Mine(c)' = Mine(c) /\ Exists(c)' = Exists(c)
               /\ Counted(c, -1)' = Counted(c, -1)
               /\ Assigns(c)' = Assigns(c) /\ AssignsScore(c)' = AssignsScore(c)
               /\ OldScore(c)' = OldScore(c) /\ Pushes(c)' = Pushes(c)
               /\ Popped(c)' = Popped(c)
    <2>1. PICK k, d : k = call[c].key /\ d = call[c].meta
      OBVIOUS
    <2>2. Sound(k, d)' <=> Sound(k, d)
      BY <1>2
    <2>3. Current(c)' <=> Current(c)
      BY <2>1, <2>2 DEF Current
    <2>4. Mine(c)' = Mine(c) /\ Exists(c)' = Exists(c)
      BY DEF Mine, Exists
    <2>5. Counted(c, -1)' = Counted(c, -1) /\ Counted(c, 1)' = Counted(c, 1)
      BY DEF Counted
    <2>6. Assigns(c)' = Assigns(c)
      BY <2>4, <2>5 DEF Assigns, CountNew
    <2>7. AssignsScore(c)' = AssignsScore(c) /\ OldScore(c)' = OldScore(c)
      BY <2>4, <2>6 DEF AssignsScore, OldScore, ScoreKeyOf
    <2>8. Pushes(c)' = Pushes(c) /\ Popped(c)' = Popped(c)
      BY DEF Pushes, MetaAfterPush, Pushed, PushIndex, Popped, PopIndex
    <2> QED BY <2>3, <2>4, <2>5, <2>6, <2>7, <2>8
  <1>5. ASSUME CallsInv, NEW c \in Writers
        PROVE  CallInv(c)'
    <2>1. CASE call[c] = NoCall
      BY <2>1 DEF CallInv
    <2>2. CASE call[c] # NoCall
      <3>1. DOMAIN call[c] = CallFields /\ Current(c)'
        BY <1>4, <1>5, <2>2, CallIs
      <3>2. Assigning(c) => Assigning(c)'
        BY <1>4 DEF Assigning, At
      <3>3. Scoring(c) => Scoring(c)'
        BY <1>4 DEF Scoring, At
      <3>4. Removing(c) => Removing(c)'
        BY <1>4 DEF Removing, At
      <3>5. Pushing(c) => Pushing(c)'
        BY <1>4 DEF Pushing, At
      <3>6. Popping(c) => Popping(c)'
        BY <1>4 DEF Popping, At
      <3>7. Assigning(c)' \/ Scoring(c)' \/ Removing(c)' \/ Pushing(c)' \/ Popping(c)'
        BY <1>5, <2>2, <3>2, <3>3, <3>4, <3>5, <3>6, CallIs
      <3> QED BY <3>1, <3>7 DEF CallInv
    <2> QED BY <2>1, <2>2
  <1>6. CallsInv => CallsInv'
    BY <1>5 DEF CallsInv
  <1> QED BY <1>3, <1>6

\* The rows of the other readers stay.
LEMMA OtherReads ==
    ASSUME ReadsInv, NEW r \in Readers, NEW q, NEW p, UNCHANGED <<store, clock, call>>,
           read' = [read EXCEPT ![r] = q], possible' = [possible EXCEPT ![r] = p],
           ReadInv(r)'
    PROVE  ReadsInv'
  <1>1. /\ read' = [s \in Readers |-> read'[s]] /\ possible' = [s \in Readers |-> possible'[s]]
        /\ \A s \in Readers \ {r} : read'[s] = read[s] /\ possible'[s] = possible[s]
    BY DEF ReadsInv
  <1>2. ASSUME NEW s \in Readers \ {r}
        PROVE  ReadInv(s)'
    <2>1. ReadInv(s)
      BY DEF ReadsInv
    <2>2. read'[s] = read[s] /\ possible'[s] = possible[s]
      BY <1>1
    <2>3. SameType(s)' <=> SameType(s)
      BY <2>2 DEF SameType
    <2>4. Lookup(read[s].key, read[s].version, read[s].asked)'
            = Lookup(read[s].key, read[s].version, read[s].asked)
      BY <2>2 DEF Lookup
    <2> QED BY <2>1, <2>2, <2>3, <2>4 DEF ReadInv
  <1> QED BY <1>1, <1>2 DEF ReadsInv

LEMMA ReadStartKeeps ==
    ASSUME StoreInv, CallsInv, ReadsInv, NEW r \in Readers, ReadStart(r)
    PROVE  ReadsInv'
  <1>1. PICK k \in Keys, t \in Structures : \E asked \in Questions(t) :
          /\ ~WrongType(k, t)
          /\ read' = [read EXCEPT ![r] =
                        [key |-> k, type |-> t, asked |-> asked,
                         version |-> Metadata(k, t).version,
                         step |-> IF HasElements(k, t) THEN "look" ELSE "done",
                         got |-> [m \in asked |-> Gone]]]
    BY DEF ReadStart
  <1>2. PICK asked \in Questions(t) :
          /\ ~WrongType(k, t)
          /\ read' = [read EXCEPT ![r] =
                        [key |-> k, type |-> t, asked |-> asked,
                         version |-> Metadata(k, t).version,
                         step |-> IF HasElements(k, t) THEN "look" ELSE "done",
                         got |-> [m \in asked |-> Gone]]]
    BY <1>1
  <1>3. UNCHANGED <<store, clock, call>>
    BY DEF ReadStart
  <1>4. asked \subseteq Members
    BY DEF Questions
  <1>5. PICK d : d = Metadata(k, t)
    OBVIOUS
  <1>6. PICK q : q = [key |-> k, type |-> t, asked |-> asked, version |-> d.version,
                      step |-> IF HasElements(k, t) THEN "look" ELSE "done",
                      got |-> [m \in asked |-> Gone]]
    OBVIOUS
  <1>7. /\ q.key = k /\ q.type = t /\ q.asked = asked /\ q.version = d.version
        /\ q.step = (IF HasElements(k, t) THEN "look" ELSE "done")
        /\ q.got = [m \in asked |-> Gone] /\ DOMAIN q = ReadFields
    BY <1>6 DEF ReadFields
  <1>8. read' = [read EXCEPT ![r] = q] /\ r \in DOMAIN read /\ r \in DOMAIN possible
    BY <1>2, <1>5, <1>6 DEF ReadsInv
  <1>9. read'[r] = q
    BY <1>8
  <1>10. PICK a : a = Answer(store, q)
    OBVIOUS
  <1>11. possible' = [possible EXCEPT ![r] = {a}]
    BY <1>9, <1>10 DEF ReadStart
  <1>12. possible'[r] = {a}
    BY <1>8, <1>11
  <1>13. k \in DOMAIN store => /\ d = store[k] /\ d.type = t /\ d # Text
                              /\ Sound(k, d) /\ Counts(k, d) /\ d \in Metas
    BY <1>2, <1>5 DEF Metadata, WrongType, Text, Structures, StoreInv, Sound
  <1>14. k \notin DOMAIN store => d.version = clock /\ d.size = 0
    BY <1>5 DEF Metadata, NewVersion
  <1>15. d.version \in Nat
    BY <1>13, <1>14 DEF Metas, StoreInv
  <1>16. HasElements(k, t) <=> d.size # 0
    BY <1>2, <1>5 DEF HasElements
  <1>17. CASE d.size # 0
    <2>1. k \in DOMAIN store /\ q.step = "look"
      BY <1>7, <1>14, <1>16, <1>17
    <2>2. d.version < clock
      BY <1>13, <2>1 DEF Sound
    <2>3. \A c \in Writers : call[c] # NoCall /\ call[c].key = k => call[c].meta = d
      BY <1>13, <2>1, CallIs DEF Current
    <2>4. SameType(r)'
      BY <1>3, <1>7, <1>9, <1>13, <2>1, <2>2, <2>3 DEF SameType
    <2>5. Lookup(k, d.version, asked)' = a
      BY <1>3, <1>7, <1>10, <1>13, <2>1 DEF Lookup, Answer
    <2>6. ReadInv(r)'
      BY <1>4, <1>7, <1>9, <1>12, <1>15, <2>1, <2>4, <2>5 DEF ReadInv
    <2> QED BY <1>3, <1>8, <1>11, <2>6, OtherReads
  <1>18. CASE d.size = 0
    <2>1. q.step = "done"
      BY <1>7, <1>16, <1>18
    <2>2. a = [m \in asked |-> Gone]
      <3>1. CASE k \in DOMAIN store
        <4>1. MembersAt(k, d.version) = {}
          BY <1>13, <1>18, <3>1, FS_EmptySet DEF Counts
        <4>2. \A m \in asked : ElementKey(k, d.version, m) \notin DOMAIN store
          BY <1>4, <4>1 DEF MembersAt
        <4> QED BY <1>7, <1>10, <1>13, <3>1, <4>2 DEF Answer
      <3>2. CASE k \notin DOMAIN store
        BY <1>7, <1>10, <3>2 DEF Answer
      <3> QED BY <3>1, <3>2
    <2>3. ReadInv(r)'
      BY <1>4, <1>7, <1>9, <1>12, <1>15, <2>1, <2>2 DEF ReadInv
    <2> QED BY <1>3, <1>8, <1>11, <2>3, OtherReads
  <1> QED BY <1>17, <1>18

LEMMA ReadLookKeeps ==
    ASSUME ReadsInv, NEW r \in Readers, ReadLook(r)
    PROVE  ReadsInv'
  <1>1. PICK q : q = [read[r] EXCEPT
                  !.got = Lookup(read[r].key, read[r].version, read[r].asked), !.step = "done"]
    OBVIOUS
  <1>2. /\ read[r] # NoCall /\ read[r].step = "look" /\ DOMAIN read[r] = ReadFields
        /\ read[r].key \in Keys /\ read[r].type \in Structures
        /\ read[r].asked \subseteq Members /\ read[r].version \in Nat
        /\ Lookup(read[r].key, read[r].version, read[r].asked) \in possible[r]
    BY DEF ReadLook, ReadsInv, ReadInv, NoCall
  <1>3. /\ q.key = read[r].key /\ q.type = read[r].type /\ q.asked = read[r].asked
        /\ q.version = read[r].version /\ q.step = "done" /\ DOMAIN q = ReadFields
        /\ q.got = Lookup(read[r].key, read[r].version, read[r].asked)
    BY <1>1, <1>2 DEF ReadFields
  <1>4. r \in DOMAIN read /\ possible' = [possible EXCEPT ![r] = possible[r]]
    BY DEF ReadsInv, ReadLook
  <1>5. read' = [read EXCEPT ![r] = q]
    BY <1>1, <1>4 DEF ReadLook
  <1>6. read'[r] = q /\ possible'[r] = possible[r]
    BY <1>4, <1>5 DEF ReadLook
  <1>7. ReadInv(r)'
    BY <1>2, <1>3, <1>6 DEF ReadInv
  <1> QED BY <1>4, <1>5, <1>7, OtherReads DEF ReadLook

LEMMA ReadReturnKeeps ==
    ASSUME ReadsInv, NEW r \in Readers, ReadReturn(r)
    PROVE  ReadsInv'
  <1>1. read'[r] = NoCall
    BY DEF ReadReturn, ReadsInv
  <1>2. ReadInv(r)'
    BY <1>1 DEF ReadInv
  <1> QED BY <1>2, OtherReads DEF ReadReturn

LEMMA ReadingKeeps ==
    ASSUME RedisIndInv, NEW r \in Readers, Reading(r)
    PROVE  RedisIndInv'
  <1>1. UNCHANGED <<store, clock, call, lost>>
    BY DEF Reading, ReadStart, ReadLook, ReadReturn
  <1>2. StoreInv' /\ CallsInv'
    BY <1>1, ReaderLeaves DEF RedisIndInv
  <1>3. ReadsInv'
    BY ReadStartKeeps, ReadLookKeeps, ReadReturnKeeps DEF Reading, RedisIndInv
  <1> QED BY <1>2, <1>3 DEF RedisIndInv

-----------------------------------------------------------------------------
LEMMA RedisInit ==
    ASSUME Init
    PROVE  RedisIndInv
  <1>1. StoreInv
    BY DEF Init, StoreInv
  <1>2. CallsInv
    BY DEF Init, CallsInv, CallInv
  <1>3. ReadsInv
    BY DEF Init, ReadsInv, ReadInv
  <1> QED BY <1>1, <1>2, <1>3 DEF RedisIndInv

LEMMA RedisStutter ==
    ASSUME RedisIndInv, UNCHANGED vars
    PROVE  RedisIndInv'
  <1>1. StoreInv' /\ CallsInv'
    BY ReaderLeaves DEF RedisIndInv, vars
  <1>2. \A r \in Readers : SameType(r) => TypeInCalls(r)'
    BY DEF SameType, TypeInCalls, vars
  <1>3. ReadsInv'
    BY <1>2, QuietReads DEF RedisIndInv, vars, StoreInv
  <1> QED BY <1>1, <1>3 DEF RedisIndInv

\* The inductive invariant, for any number of keys, members, writers and
\* readers, and any calls that fail, as long as no key has two writers.
THEOREM RedisInvariance ==
    ASSUME OneWriterPerKey
    PROVE  Spec => []RedisIndInv
  <1>1. RedisIndInv /\ [Next]_vars => RedisIndInv'
    BY WritingKeeps, ReadingKeeps, RedisStutter DEF Next
  <1> QED BY <1>1, RedisInit, PTL DEF Spec

\* meta.size, which decides whether HGet, HDel, SRem and ZScore look at all, is
\* the number of elements that can be reached.
THEOREM SizesAreCounts ==
    ASSUME OneWriterPerKey
    PROVE  Spec => []SizeIsCount
  <1>1. RedisIndInv => SizeIsCount
    <2> SUFFICES ASSUME RedisIndInv
                 PROVE  SizeIsCount
      OBVIOUS
    <2>1. \A k \in Keys \cap DOMAIN store : store[k] = Text \/ Sound(k, store[k])
      BY DEF RedisIndInv, StoreInv
    <2>2. ASSUME NEW t \in Structures, NEW k \in Holding(t)
          PROVE  store[k].size = Cardinality(PresentMembers(k))
      <3>1. Sound(k, store[k]) /\ store[k].type = t
        BY <2>1 DEF Holding, Text, Structures
      <3> QED BY <3>1 DEF Sound, Counts, MembersAt, PresentMembers
    <2>3. ASSUME NEW k \in Holding("List")
          PROVE  store[k].size = store[k].tail - store[k].head
      BY <2>1 DEF Holding, Text, Sound, Listed
    <2> QED BY <2>2, <2>3 DEF SizeIsCount
  <1> QED BY <1>1, RedisInvariance, PTL

\* Every member of a sorted set has one score key, that of its score.
THEOREM ScoresAlwaysAgree ==
    ASSUME OneWriterPerKey
    PROVE  Spec => []ScoresAgree
  <1>1. RedisIndInv => ScoresAgree
    <2> SUFFICES ASSUME RedisIndInv, NEW k \in Holding("ZSet"), NEW m \in Members
                 PROVE  {s \in Scores : ScoreKey(k, store[k].version, s, m) \in DOMAIN store} =
                          IF ElementKey(k, store[k].version, m) \in DOMAIN store
                          THEN {store[ElementKey(k, store[k].version, m)]} ELSE {}
      BY DEF ScoresAgree
    <2>1. store[k] = Text \/ Sound(k, store[k])
      BY DEF RedisIndInv, StoreInv, Holding
    <2>2. Scored(k, store[k])
      BY <2>1 DEF Holding, Text, Sound
    <2> QED BY <2>2 DEF Scored, MembersAt
  <1> QED BY <1>1, RedisInvariance, PTL

\* A list has the elements from head to tail - 1 and no others, save what a pop
\* has taken out and not, or never, counted.
THEOREM ListsAreWhole ==
    ASSUME OneWriterPerKey
    PROVE  Spec => []ListIsWhole
  <1>1. RedisIndInv => ListIsWhole
    <2> SUFFICES ASSUME RedisIndInv, NEW k \in Holding("List"), NEW i \in MinIndex .. MaxIndex,
                        NEW e, e = ElementKey(k, store[k].version, i)
                 PROVE  e \in DOMAIN store <=>
                          /\ i \in store[k].head .. (store[k].tail - 1)
                          /\ e \notin lost \cup BeingPopped
      BY DEF ListIsWhole
    <2>1. store[k] = Text \/ Sound(k, store[k])
      BY DEF RedisIndInv, StoreInv, Holding
    <2>2. PICK d : d = store[k]
      OBVIOUS
    <2>3. Listed(k, d) /\ d \in Metas /\ k \in Keys
      BY <2>1, <2>2 DEF Holding, Text, Sound
    <2>4. d.version \in Nat /\ d.head \in Int /\ d.tail \in Int /\ i \in Int
      BY <2>3, RedisAssumption DEF Metas
    <2>5. e \notin Keys /\ e[1] = k /\ e[2] = d.version /\ e[3] = i
      BY <2>2, <2>3, <2>4, ElementKeyIs
    <2>6. e \in Under(k, d.version) <=> e \in DOMAIN store
      BY <2>5 DEF Under
    <2>7. e \in Cells(k, d) <=> i \in d.head .. (d.tail - 1)
      <3>1. \A j \in d.head .. (d.tail - 1) : ElementKey(k, d.version, j)[3] = j
        BY <2>3, <2>4, ElementKeyIs
      <3> QED BY <2>2, <2>5, <3>1 DEF Cells
    <2> QED BY <2>2, <2>3, <2>6, <2>7 DEF Listed
  <1> QED BY <1>1, RedisInvariance, PTL

\* A read answers with what the structure held at some instant of the call.
THEOREM ReadsAlwaysCurrent ==
    ASSUME OneWriterPerKey
    PROVE  Spec => []ReadsAreCurrent
  <1>1. RedisIndInv => ReadsAreCurrent
    BY DEF RedisIndInv, ReadsInv, ReadInv, ReadsAreCurrent, NoCall
  <1> QED BY <1>1, RedisInvariance, PTL

-----------------------------------------------------------------------------
\* The n-th smallest member of a set of numbers

Below(I, i) == {j \in I : j < i}

LEMMA RankedIs ==
    ASSUME NEW I, NEW n, NEW i
    PROVE  i \in Ranked(I, n) <=> i \in I /\ Cardinality(Below(I, i)) = n - 1
  BY DEF Ranked, Below

LEMMA BelowCounts ==
    ASSUME NEW I, I \subseteq Int, IsFiniteSet(I), NEW i \in I
    PROVE  /\ IsFiniteSet(Below(I, i)) /\ Cardinality(Below(I, i)) \in Nat
           /\ Cardinality(I) \in Nat /\ Cardinality(Below(I, i)) < Cardinality(I)
           /\ \A j \in I : i < j => Cardinality(Below(I, i)) < Cardinality(Below(I, j))
  <1>1. \A j \in I : IsFiniteSet(Below(I, j)) /\ Cardinality(Below(I, j)) \in Nat
    BY FS_Subset, FS_CardinalityType DEF Below
  <1>2. Cardinality(I) \in Nat
    BY FS_CardinalityType
  <1>3. ASSUME NEW J, J \subseteq I, IsFiniteSet(J), i \in J, Below(I, i) \subseteq J
        PROVE  Cardinality(Below(I, i)) < Cardinality(J)
    <2>1. Below(I, i) \subseteq J \ {i}
      BY <1>3 DEF Below
    <2>2. IsFiniteSet(J \ {i}) /\ Cardinality(J \ {i}) = Cardinality(J) - 1
      BY <1>3, FS_RemoveElement
    <2>3. Cardinality(Below(I, i)) =< Cardinality(J \ {i})
      BY <2>1, <2>2, FS_Subset
    <2>4. Cardinality(J) \in Nat
      BY <1>3, FS_CardinalityType
    <2> QED BY <1>1, <2>2, <2>3, <2>4
  <1>4. Cardinality(Below(I, i)) < Cardinality(I)
    BY <1>3 DEF Below
  <1>5. ASSUME NEW j \in I, i < j
        PROVE  Cardinality(Below(I, i)) < Cardinality(Below(I, j))
    <2>1. i \in Below(I, j) /\ Below(I, i) \subseteq Below(I, j) /\ Below(I, j) \subseteq I
      <3>1. i \in Int /\ j \in Int /\ \A l \in I : l \in Int
        OBVIOUS
      <3>2. \A l \in I : l < i => l < j
        BY <1>5, <3>1
      <3> QED BY <1>5, <3>2 DEF Below
    <2> QED BY <1>1, <1>3, <2>1
  <1> QED BY <1>1, <1>2, <1>4, <1>5

LEMMA NthThere ==
    ASSUME NEW I, I \subseteq Int, IsFiniteSet(I), NEW n \in 1 .. Cardinality(I)
    PROVE  Nth(I, n) \in I
  <1>1. Cardinality(I) \in Nat
    BY FS_CardinalityType
  <1>2. PICK T : T = 1 .. Cardinality(I)
    OBVIOUS
  <1>3. IsFiniteSet(T) /\ Cardinality(T) = Cardinality(I)
    BY <1>1, <1>2, FS_Interval
  <1>4. PICK f : f = [i \in I |-> Cardinality(Below(I, i)) + 1]
    OBVIOUS
  <1>5. f \in [I -> T]
    <2>1. ASSUME NEW i \in I
          PROVE  Cardinality(Below(I, i)) + 1 \in 1 .. Cardinality(I)
      <3>1. Cardinality(Below(I, i)) \in Nat /\ Cardinality(Below(I, i)) < Cardinality(I)
        BY BelowCounts
      <3> QED BY <1>1, <3>1
    <2> QED BY <1>2, <1>4, <2>1
  <1>6. \A i, j \in I : f[i] = f[j] => i = j
    <2> SUFFICES ASSUME NEW i \in I, NEW j \in I, i < j
                 PROVE  f[i] # f[j]
      OBVIOUS
    <2>1. /\ Cardinality(Below(I, i)) < Cardinality(Below(I, j))
          /\ Cardinality(Below(I, i)) \in Nat /\ Cardinality(Below(I, j)) \in Nat
      BY BelowCounts
    <2> QED BY <1>4, <2>1
  <1>7. f \in Injection(I, T)
    BY <1>5, <1>6 DEF Injection, IsInjective
  <1>8. f \in Surjection(I, T)
    BY <1>3, <1>7, FS_Injection
  <1>9. PICK i \in I : f[i] = n
    BY <1>2, <1>8 DEF Surjection
  <1>10. Cardinality(Below(I, i)) \in Nat
    BY BelowCounts
  <1>11. i \in Ranked(I, n)
    BY <1>4, <1>9, <1>10 DEF Ranked, Below
  <1>12. Nth(I, n) \in Ranked(I, n)
    BY <1>11 DEF Nth, AnyOf
  <1> QED BY <1>12 DEF Ranked

\* A number below all members becomes the first.
LEMMA NthLeft ==
    ASSUME NEW I, I \subseteq Int, IsFiniteSet(I), NEW x \in Int, \A i \in I : x < i
    PROVE  /\ Nth(I \cup {x}, 1) = x
           /\ \A n \in 1 .. Cardinality(I) : Nth(I \cup {x}, n + 1) = Nth(I, n)
  <1>1. PICK J : J = I \cup {x}
    OBVIOUS
  <1>2. J \subseteq Int /\ IsFiniteSet(J) /\ x \in J /\ x \notin I
    BY <1>1, FS_AddElement
  <1>3. Below(J, x) = {} /\ Cardinality(Below(J, x)) = 0
    <2>1. \A j \in J : ~(j < x)
      <3>1. \A i \in I : i \in Int
        OBVIOUS
      <3> QED BY <1>1, <3>1
    <2>2. Below(J, x) = {}
      BY <2>1 DEF Below
    <2> QED BY <2>2, FS_EmptySet
  <1>4. ASSUME NEW i \in I
        PROVE  /\ Cardinality(Below(J, i)) = Cardinality(Below(I, i)) + 1
               /\ Cardinality(Below(I, i)) \in Nat
    <2>1. Below(J, i) = Below(I, i) \cup {x} /\ x \notin Below(I, i)
      BY <1>1, <1>2 DEF Below
    <2>2. IsFiniteSet(Below(I, i)) /\ Cardinality(Below(I, i)) \in Nat
      BY BelowCounts
    <2> QED BY <2>1, <2>2, FS_AddElement
  <1>5. Ranked(J, 1) = {x}
    <2> SUFFICES ASSUME NEW i
                 PROVE  i \in Ranked(J, 1) <=> i = x
      OBVIOUS
    <2>1. CASE i = x
      BY <1>2, <1>3, <2>1, RankedIs
    <2>2. CASE i \in I
      <3>1. Cardinality(Below(J, i)) # 1 - 1 /\ i # x
        BY <1>2, <1>4, <2>2
      <3> QED BY <3>1, RankedIs
    <2>3. CASE i \notin J
      BY <1>1, <2>3, RankedIs
    <2> QED BY <1>1, <2>1, <2>2, <2>3
  <1>6. ASSUME NEW n \in 1 .. Cardinality(I)
        PROVE  Ranked(J, n + 1) = Ranked(I, n)
    <2>1. n \in Nat /\ n >= 1
      BY <1>6, FS_CardinalityType
    <2>2. \A i \in I : Cardinality(Below(J, i)) = (n + 1) - 1 <=> Cardinality(Below(I, i)) = n - 1
      BY <1>4, <2>1
    <2>3. Cardinality(Below(J, x)) # (n + 1) - 1
      BY <1>3, <2>1
    <2> SUFFICES ASSUME NEW i
                 PROVE  i \in Ranked(J, n + 1) <=> i \in Ranked(I, n)
      OBVIOUS
    <2>4. i \in Ranked(J, n + 1) <=> i \in J /\ Cardinality(Below(J, i)) = (n + 1) - 1
      BY RankedIs
    <2>5. i \in Ranked(I, n) <=> i \in I /\ Cardinality(Below(I, i)) = n - 1
      BY RankedIs
    <2> QED BY <1>1, <2>2, <2>3, <2>4, <2>5
  <1>7. AnyOf({x}) = x
    BY DEF AnyOf
  <1> QED BY <1>1, <1>5, <1>6, <1>7 DEF Nth

\* A number above all members becomes the last.
LEMMA NthRight ==
    ASSUME NEW I, I \subseteq Int, IsFiniteSet(I), NEW x \in Int, \A i \in I : i < x
    PROVE  /\ Nth(I \cup {x}, Cardinality(I) + 1) = x
           /\ \A n \in 1 .. Cardinality(I) : Nth(I \cup {x}, n) = Nth(I, n)
  <1>1. PICK J : J = I \cup {x}
    OBVIOUS
  <1>2. J \subseteq Int /\ x \in J /\ x \notin I /\ Cardinality(I) \in Nat
    BY <1>1, FS_CardinalityType
  <1>3. Below(J, x) = I
    <2>1. \A j \in J : j < x <=> j \in I
      BY <1>1, <1>2
    <2> QED BY <1>1, <2>1 DEF Below
  <1>4. ASSUME NEW i \in I
        PROVE  /\ Below(J, i) = Below(I, i) /\ Cardinality(Below(I, i)) < Cardinality(I)
               /\ Cardinality(Below(I, i)) \in Nat
    <2>1. Below(J, i) = Below(I, i)
      BY <1>1, <1>2 DEF Below
    <2> QED BY <2>1, BelowCounts
  <1>5. Ranked(J, Cardinality(I) + 1) = {x}
    <2> SUFFICES ASSUME NEW i
                 PROVE  i \in Ranked(J, Cardinality(I) + 1) <=> i = x
      OBVIOUS
    <2>0. (Cardinality(I) + 1) - 1 = Cardinality(I)
      BY <1>2
    <2>1. CASE i = x
      BY <1>2, <1>3, <2>0, <2>1, RankedIs
    <2>2. CASE i \in I
      <3>1. Cardinality(Below(J, i)) # (Cardinality(I) + 1) - 1 /\ i # x
        BY <1>2, <1>4, <2>0, <2>2
      <3> QED BY <3>1, RankedIs
    <2>3. CASE i \notin J
      BY <1>1, <2>3, RankedIs
    <2> QED BY <1>1, <2>1, <2>2, <2>3
  <1>6. ASSUME NEW n \in 1 .. Cardinality(I)
        PROVE  Ranked(J, n) = Ranked(I, n)
    <2>1. n - 1 # Cardinality(Below(J, x))
      BY <1>2, <1>3, <1>6
    <2> SUFFICES ASSUME NEW i
                 PROVE  i \in Ranked(J, n) <=> i \in Ranked(I, n)
      OBVIOUS
    <2>2. i \in Ranked(J, n) <=> i \in J /\ Cardinality(Below(J, i)) = n - 1
      BY RankedIs
    <2>3. i \in Ranked(I, n) <=> i \in I /\ Cardinality(Below(I, i)) = n - 1
      BY RankedIs
    <2>4. i \in I => Below(J, i) = Below(I, i)
      BY <1>4
    <2> QED BY <1>1, <2>1, <2>2, <2>3, <2>4
  <1>7. AnyOf({x}) = x
    BY DEF AnyOf
  <1> QED BY <1>1, <1>5, <1>6, <1>7 DEF Nth

\* The sequence of what h holds for the members of I.
Listing(h, I) == [n \in 1 .. Cardinality(I) |-> h[Nth(I, n)]]

LEMMA ListingEmpty ==
    ASSUME NEW h
    PROVE  Listing(h, {}) = <<>>
  <1>1. Cardinality({}) = 0
    BY FS_EmptySet
  <1> QED BY <1>1 DEF Listing

LEMMA ListingIsSeq ==
    ASSUME NEW h, NEW I, IsFiniteSet(I)
    PROVE  /\ Listing(h, I) \in Seq({Listing(h, I)[n] : n \in 1 .. Cardinality(I)})
           /\ Len(Listing(h, I)) = Cardinality(I)
  <1>1. Cardinality(I) \in Nat
    BY FS_CardinalityType
  <1>2. DOMAIN Listing(h, I) = 1 .. Cardinality(I)
    BY DEF Listing
  <1>3. Listing(h, I) = [n \in 1 .. Cardinality(I) |-> Listing(h, I)[n]]
    BY DEF Listing
  <1>4. PICK s, N : s = Listing(h, I) /\ N = Cardinality(I)
    OBVIOUS
  <1>5. s \in [1 .. N -> {s[n] : n \in 1 .. N}]
    BY <1>3, <1>4
  <1>6. s \in Seq({s[n] : n \in 1 .. N}) /\ Len(s) = N
    BY <1>1, <1>2, <1>4, <1>5
  <1> QED BY <1>4, <1>6

Numbers(I) == I \subseteq Int /\ IsFiniteSet(I)
LeftOf(x, I) == x \in Int /\ \A i \in I : x < i
RightOf(x, I) == x \in Int /\ \A i \in I : i < x
Agree(g, h, I) == \A i \in I : g[i] = h[i]

\* t is the sequence s with x before or after it.
Grown(t, s, x) ==
    /\ t # <<>>
    /\ t = <<x>> \o s \/ t = Append(s, x)
    /\ s = Tail(t) \/ s = SubSeq(t, 1, Len(t) - 1)

LEMMA ListingLeft ==
    ASSUME NEW I, NEW x, NEW h, NEW g, Numbers(I), LeftOf(x, I), Agree(g, h, I)
    PROVE  Grown(Listing(g, I \cup {x}), Listing(h, I), g[x])
  <1> USE DEF Numbers, LeftOf, Agree
  <1>1. PICK N : N = Cardinality(I)
    OBVIOUS
  <1>2. N \in Nat /\ IsFiniteSet(I \cup {x}) /\ Cardinality(I \cup {x}) = N + 1
    BY <1>1, FS_CardinalityType, FS_AddElement
  <1>3. PICK s, t : s = Listing(h, I) /\ t = Listing(g, I \cup {x})
    OBVIOUS
  <1>4. PICK S1, T1 : s \in Seq(S1) /\ Len(s) = N /\ t \in Seq(T1) /\ Len(t) = N + 1
    BY <1>1, <1>2, <1>3, ListingIsSeq
  <1>5. t[1] = g[x]
    <2>0. Nth(I \cup {x}, 1) = x
      BY NthLeft
    <2>1. 1 \in 1 .. Cardinality(I \cup {x})
      BY <1>2
    <2> QED BY <2>0, <1>3, <2>1 DEF Listing
  <1>6. ASSUME NEW n \in 1 .. N
        PROVE  t[n + 1] = s[n]
    <2>1. Nth(I \cup {x}, n + 1) = Nth(I, n) /\ Nth(I, n) \in I
      BY <1>1, <1>6, NthLeft, NthThere
    <2>2. n + 1 \in 1 .. (N + 1)
      BY <1>2
    <2>3. t[n + 1] = g[Nth(I \cup {x}, n + 1)]
      BY <1>2, <1>3, <2>2 DEF Listing
    <2>4. s[n] = h[Nth(I, n)]
      BY <1>1, <1>3 DEF Listing
    <2> QED BY <2>1, <2>3, <2>4
  <1>7. PICK S2 : s \in Seq(S2) /\ t \in Seq(S2) /\ g[x] \in S2
    <2>1. s \in Seq(S1 \cup T1 \cup {g[x]}) /\ t \in Seq(S1 \cup T1 \cup {g[x]})
      BY <1>4
    <2> QED BY <2>1
  <1>8. t = <<g[x]>> \o s
    BY <1>2, <1>4, <1>5, <1>6, <1>7
  <1>9. Tail(t) = s /\ t # <<>>
    BY <1>2, <1>4, <1>5, <1>6, <1>7
  <1>10. Grown(t, s, g[x])
    BY <1>8, <1>9 DEF Grown
  <1> QED BY <1>3, <1>10

LEMMA ListingRight ==
    ASSUME NEW I, NEW x, NEW h, NEW g, Numbers(I), RightOf(x, I), Agree(g, h, I)
    PROVE  Grown(Listing(g, I \cup {x}), Listing(h, I), g[x])
  <1> USE DEF Numbers, RightOf, Agree
  <1>1. PICK N : N = Cardinality(I)
    OBVIOUS
  <1>2. N \in Nat /\ IsFiniteSet(I \cup {x}) /\ Cardinality(I \cup {x}) = N + 1
    BY <1>1, FS_CardinalityType, FS_AddElement
  <1>3. PICK s, t : s = Listing(h, I) /\ t = Listing(g, I \cup {x})
    OBVIOUS
  <1>4. PICK S1, T1 : s \in Seq(S1) /\ Len(s) = N /\ t \in Seq(T1) /\ Len(t) = N + 1
    BY <1>1, <1>2, <1>3, ListingIsSeq
  <1>5. t[N + 1] = g[x]
    <2>0. Nth(I \cup {x}, N + 1) = x
      BY <1>1, NthRight
    <2>1. N + 1 \in 1 .. Cardinality(I \cup {x})
      BY <1>2
    <2> QED BY <2>0, <1>3, <2>1 DEF Listing
  <1>6. ASSUME NEW n \in 1 .. N
        PROVE  t[n] = s[n]
    <2>1. Nth(I \cup {x}, n) = Nth(I, n) /\ Nth(I, n) \in I
      BY <1>1, <1>6, NthRight, NthThere
    <2>2. n \in 1 .. (N + 1)
      BY <1>2
    <2>3. t[n] = g[Nth(I \cup {x}, n)]
      BY <1>2, <1>3, <2>2 DEF Listing
    <2>4. s[n] = h[Nth(I, n)]
      BY <1>1, <1>3 DEF Listing
    <2> QED BY <2>1, <2>3, <2>4
  <1>7. PICK S2 : s \in Seq(S2) /\ t \in Seq(S2) /\ g[x] \in S2
    <2>1. s \in Seq(S1 \cup T1 \cup {g[x]}) /\ t \in Seq(S1 \cup T1 \cup {g[x]})
      BY <1>4
    <2> QED BY <2>1
  <1>8. t = Append(s, g[x])
    BY <1>2, <1>4, <1>5, <1>6, <1>7
  <1>9. SubSeq(t, 1, N) = s /\ t # <<>> /\ Len(t) - 1 = N
    BY <1>2, <1>4, <1>5, <1>6, <1>7
  <1>10. Grown(t, s, g[x])
    BY <1>8, <1>9 DEF Grown
  <1> QED BY <1>3, <1>10

-----------------------------------------------------------------------------
\* What a key holds, as metadata d and the elements say

Present(k, d) == {i \in d.head .. (d.tail - 1) : ElementKey(k, d.version, i) \in DOMAIN store}
ListHeld(k, d) ==
    Listing([i \in Present(k, d) |-> store[ElementKey(k, d.version, i)]], Present(k, d))
MembersHeld(k, d) ==
    [m \in MembersAt(k, d.version) |-> store[ElementKey(k, d.version, m)]]
BodyOf(k, d) == IF d.type = "List" THEN ListHeld(k, d) ELSE MembersHeld(k, d)

LEMMA PresentIs ==
    ASSUME NEW k, NEW d \in Metas
    PROVE  /\ Present(k, d) \subseteq Int /\ IsFiniteSet(Present(k, d))
           /\ \A i \in Present(k, d) : d.head =< i /\ i < d.tail
  <1>1. d.head \in Int /\ d.tail \in Int /\ d.tail - 1 \in Int
    BY DEF Metas
  <1>2. IsFiniteSet(d.head .. (d.tail - 1))
    BY <1>1, FS_Interval
  <1>3. Present(k, d) \subseteq d.head .. (d.tail - 1)
    BY DEF Present
  <1> QED BY <1>1, <1>2, <1>3, FS_Subset

LEMMA ContentsIs ==
    ASSUME NEW k \in DOMAIN store, NEW d \in Metas, store[k] = d
    PROVE  Contents(k) = BodyOf(k, d)
  <1>1. CASE d.type = "List"
    <2>1. PICK I : I = Present(k, d)
      OBVIOUS
    <2>2. I \subseteq Int /\ IsFiniteSet(I) /\ PresentIndexes(k) = I
      BY <2>1, PresentIs DEF Present, PresentIndexes
    <2>3. PICK h : h = [i \in I |-> store[ElementKey(k, d.version, i)]]
      OBVIOUS
    <2>4. \A n \in 1 .. Cardinality(I) : Nth(I, n) \in I
      BY <2>2, NthThere
    <2>5. \A n \in 1 .. Cardinality(I) :
             h[Nth(I, n)] = store[ElementKey(k, d.version, Nth(I, n))]
      BY <2>3, <2>4
    <2>6. Contents(k) = [n \in 1 .. Cardinality(I) |-> store[ElementKey(k, d.version, Nth(I, n))]]
      BY <1>1, <2>2 DEF Contents
    <2>7. Contents(k) = Listing(h, I)
      BY <2>5, <2>6 DEF Listing
    <2> QED BY <1>1, <2>1, <2>3, <2>7 DEF BodyOf, ListHeld
  <1>2. CASE d.type # "List"
    BY <1>2 DEF Contents, BodyOf, MembersHeld, MembersAt, PresentMembers
  <1> QED BY <1>1, <1>2

LEMMA HeldIs ==
    ASSUME NEW k \in Keys
    PROVE  /\ k \notin DOMAIN store => Held[k] = S!Nothing
           /\ k \in DOMAIN store /\ store[k] = Text => Held[k] = S!Text
           /\ \A d \in Metas : k \in DOMAIN store /\ store[k] = d =>
                 Held[k] = [type |-> d.type, body |-> BodyOf(k, d)]
  <1>1. \A d \in Metas : d # Text
    BY DEF Metas, Text
  <1> QED BY <1>1, ContentsIs DEF Held, S!Nothing, S!Text, Text

\* The same in the next state.
LEMMA HeldBecomes ==
    ASSUME NEW k \in Keys
    PROVE  /\ k \notin DOMAIN store' => Held'[k] = S!Nothing
           /\ k \in DOMAIN store' /\ store'[k] = Text => Held'[k] = S!Text
           /\ \A d \in Metas : k \in DOMAIN store' /\ store'[k] = d =>
                 Held'[k] = [type |-> d.type, body |-> BodyOf(k, d)']
  <1>1. \A d \in Metas : d # Text
    BY DEF Metas, Text
  <1>2. ASSUME NEW d \in Metas, k \in DOMAIN store', store'[k] = d
        PROVE  Contents(k)' = BodyOf(k, d)'
    <2>1. CASE d.type = "List"
      <3>1. PICK I : I = Present(k, d)'
        OBVIOUS
      <3>2. I \subseteq Int /\ IsFiniteSet(I)
        <4>1. d.head \in Int /\ d.tail \in Int /\ d.tail - 1 \in Int
          BY DEF Metas
        <4>2. IsFiniteSet(d.head .. (d.tail - 1))
          BY <4>1, FS_Interval
        <4>3. I \subseteq d.head .. (d.tail - 1)
          BY <3>1 DEF Present
        <4>4. IsFiniteSet(I)
          BY <4>2, <4>3, FS_Subset
        <4>5. \A i \in I : i \in Int
          BY <4>1, <4>3
        <4> QED BY <4>4, <4>5
      <3>3. PresentIndexes(k)' = I
        BY <1>2, <3>1 DEF Present, PresentIndexes
      <3>4. PICK h : h = [i \in I |-> store'[ElementKey(k, d.version, i)]]
        OBVIOUS
      <3>5. \A n \in 1 .. Cardinality(I) : Nth(I, n) \in I
        BY <3>2, NthThere
      <3>6. \A n \in 1 .. Cardinality(I) :
               h[Nth(I, n)] = store'[ElementKey(k, d.version, Nth(I, n))]
        BY <3>4, <3>5
      <3>7. Contents(k)' = [n \in 1 .. Cardinality(I) |-> store'[ElementKey(k, d.version, Nth(I, n))]]
        BY <1>2, <2>1, <3>3 DEF Contents
      <3>8. Contents(k)' = Listing(h, I)
        BY <3>6, <3>7 DEF Listing
      <3> QED BY <2>1, <3>1, <3>4, <3>8 DEF BodyOf, ListHeld
    <2>2. CASE d.type # "List"
      BY <1>2, <2>2 DEF Contents, BodyOf, MembersHeld, MembersAt, PresentMembers
    <2> QED BY <2>1, <2>2
  <1> QED BY <1>1, <1>2 DEF Held, S!Nothing, S!Text, Text

\* What a step on key k leaves of the other keys.
LEMMA BodySame ==
    ASSUME NEW j \in Keys, NEW d \in Metas, SameUnder(j)
    PROVE  BodyOf(j, d)' = BodyOf(j, d)
  <1>1. d.version \in Nat /\ d.head \in Int /\ d.tail \in Int
    BY DEF Metas
  <1>2. \A x \in Members \cup Int : Same(ElementKey(j, d.version, x))
    BY <1>1, ElementKeyIs DEF SameUnder
  <1>3. MembersHeld(j, d)' = MembersHeld(j, d)
    <2>1. MembersAt(j, d.version)' = MembersAt(j, d.version)
      BY <1>2 DEF MembersAt, Same
    <2>2. \A m \in MembersAt(j, d.version) :
             store'[ElementKey(j, d.version, m)] = store[ElementKey(j, d.version, m)]
      BY <1>2 DEF MembersAt, Same
    <2> QED BY <2>1, <2>2 DEF MembersHeld
  <1>4. ListHeld(j, d)' = ListHeld(j, d)
    <2>1. \A i \in d.head .. (d.tail - 1) : Same(ElementKey(j, d.version, i))
      BY <1>1, <1>2
    <2>2. Present(j, d)' = Present(j, d)
      BY <2>1 DEF Present, Same
    <2>3. \A i \in Present(j, d) :
             store'[ElementKey(j, d.version, i)] = store[ElementKey(j, d.version, i)]
      BY <2>1 DEF Present, Same
    <2>4. [i \in Present(j, d) |-> store[ElementKey(j, d.version, i)]]'
            = [i \in Present(j, d) |-> store[ElementKey(j, d.version, i)]]
      BY <2>2, <2>3
    <2> QED BY <2>2, <2>4 DEF ListHeld
  <1> QED BY <1>3, <1>4 DEF BodyOf

LEMMA OthersHeld ==
    ASSUME StoreInv, NEW k \in Keys, Elsewhere(k)
    PROVE  \A h : Held'[k] = h => Held' = [Held EXCEPT ![k] = h]
  <1>1. ASSUME NEW j \in Keys, j # k
        PROVE  Held'[j] = Held[j]
    <2>1. Same(j) /\ SameUnder(j)
      BY <1>1 DEF Elsewhere, About, SameUnder
    <2>2. CASE j \notin DOMAIN store
      BY <2>1, <2>2, HeldIs, HeldBecomes DEF Same
    <2>3. CASE j \in DOMAIN store /\ store[j] = Text
      BY <2>1, <2>3, HeldIs, HeldBecomes DEF Same
    <2>4. CASE j \in DOMAIN store /\ store[j] # Text
      <3>1. PICK d : d = store[j]
        OBVIOUS
      <3>2. d \in Metas
        BY <2>4, <3>1 DEF StoreInv, Sound
      <3>3. BodyOf(j, d)' = BodyOf(j, d)
        BY <2>1, <3>2, BodySame
      <3> QED BY <2>1, <2>4, <3>1, <3>2, <3>3, HeldIs, HeldBecomes DEF Same
    <2> QED BY <2>2, <2>3, <2>4
  <1>2. DOMAIN Held = Keys /\ DOMAIN Held' = Keys
    BY DEF Held
  <1>3. Held = [j \in Keys |-> Held[j]] /\ Held' = [j \in Keys |-> Held'[j]]
    BY DEF Held
  <1> QED BY <1>1, <1>2, <1>3

\* What the call of c works on, as Structures sees it.
LEMMA BodyIs ==
    ASSUME NEW c \in Writers, Current(c), NEW k, NEW d, k = call[c].key, d = call[c].meta
    PROVE  /\ S!OfType(k, d.type) /\ S!Body(k) = BodyOf(k, d)
           /\ k \in DOMAIN store => Held[k] # S!Nothing
  <1>1. k \in Keys /\ d \in Metas /\ Sound(k, d)
    BY RedisAssumption DEF Current, Sound
  <1>2. CASE k \in DOMAIN store
    <2>1. Held[k] = [type |-> d.type, body |-> BodyOf(k, d)]
      BY <1>1, <1>2, HeldIs DEF Current
    <2>2. d.type # "None"
      BY <1>1 DEF Metas, Structures
    <2>3. Held[k] # S!Nothing
      BY <2>1, <2>2 DEF S!Nothing
    <2> QED BY <2>1, <2>3 DEF S!OfType, S!Body
  <1>3. CASE k \notin DOMAIN store
    <2>1. Held[k] = S!Nothing /\ d.size = 0
      BY <1>1, <1>3, HeldIs DEF Current
    <2>2. BodyOf(k, d) = <<>>
      <3>1. CASE d.type = "List"
        <4>1. d.head =< d.tail /\ d.tail - d.head = 0 /\ d.head \in Int /\ d.tail \in Int
          BY <1>1, <2>1, <3>1 DEF Sound, Listed, Metas
        <4>2. Present(k, d) = {}
          BY <4>1 DEF Present
        <4> QED BY <3>1, <4>2, ListingEmpty DEF BodyOf, ListHeld
      <3>2. CASE d.type # "List"
        <4>1. Counts(k, d)
          BY <1>1, <3>2 DEF Sound, Metas
        <4>2. MembersAt(k, d.version) = {}
          BY <2>1, <4>1, FS_EmptySet DEF Counts
        <4> QED BY <3>2, <4>2 DEF BodyOf, MembersHeld
      <3> QED BY <3>1, <3>2
    <2> QED BY <1>3, <2>1, <2>2 DEF S!OfType, S!Body
  <1> QED BY <1>2, <1>3

\* What a step that ends with metadata d2 under k is for Structures.
LEMMA BecomesIs ==
    ASSUME StoreInv, NEW k \in Keys, Elsewhere(k), NEW d2 \in Metas,
           k \in DOMAIN store', store'[k] = d2, NEW b, b = BodyOf(k, d2)'
    PROVE  S!Becomes(k, d2.type, b)
  <1>1. Held'[k] = [type |-> d2.type, body |-> b]
    BY HeldBecomes
  <1> QED BY <1>1, OthersHeld DEF S!Becomes

-----------------------------------------------------------------------------
\* Every step of a writer is a step of Structures or leaves the structures alone

LEMMA SetRefines ==
    ASSUME StoreInv, NEW c \in Writers, Set(c)
    PROVE  S!Next
  <1>1. PICK k \in KeysOf[c] : store' = Entry(k, Text) ++ store
    BY DEF Set
  <1>2. k \in Keys
    BY RedisAssumption
  <1>3. (\A e : e # k => Same(e)) /\ k \in DOMAIN store' /\ store'[k] = Text
    BY <1>1 DEF Same, Entry, ++
  <1>4. Elsewhere(k)
    BY <1>3 DEF Elsewhere, About
  <1>5. S!Set(k)
    BY <1>2, <1>3, <1>4, HeldBecomes, OthersHeld DEF S!Set
  <1> QED BY <1>2, <1>5 DEF S!Next

LEMMA DeleteRefines ==
    ASSUME StoreInv, NEW c \in Writers, Delete(c)
    PROVE  S!Next
  <1>1. PICK k \in KeysOf[c] : k \in DOMAIN store /\ store' = Without(k)
    BY DEF Delete
  <1>2. k \in Keys
    BY RedisAssumption
  <1>3. (\A e : e # k => Same(e)) /\ k \notin DOMAIN store'
    BY <1>1 DEF Same, Without
  <1>4. Elsewhere(k)
    BY <1>3 DEF Elsewhere, About
  <1>5. S!Delete(k)
    BY <1>2, <1>3, <1>4, HeldBecomes, OthersHeld DEF S!Delete
  <1> QED BY <1>2, <1>5 DEF S!Next

\* A member is assigned: the body with the member laid over it.
LEMMA MemberAssigned ==
    ASSUME NEW k \in Keys, NEW d \in Metas, NEW d2 \in Metas, d.type # "List",
           d2.type = d.type, d2.version = d.version,
           NEW m \in Members, NEW x, NEW e, e = ElementKey(k, d.version, m),
           e \in DOMAIN store', store'[e] = x,
           \A n \in Members \ {m} : Same(ElementKey(k, d.version, n))
    PROVE  BodyOf(k, d2)' = Entry(m, x) ++ BodyOf(k, d)
  <1>1. PICK A, B : A = MembersAt(k, d.version) /\ B = MembersAt(k, d2.version)'
    OBVIOUS
  <1>2. B = A \cup {m}
    BY <1>1 DEF MembersAt, Same
  <1>3. PICK f, g : f = BodyOf(k, d) /\ g = BodyOf(k, d2)'
    OBVIOUS
  <1>4. f = [n \in A |-> store[ElementKey(k, d.version, n)]]
    BY <1>1, <1>3 DEF BodyOf, MembersHeld
  <1>5. g = [n \in B |-> store'[ElementKey(k, d.version, n)]]
    BY <1>1, <1>3 DEF BodyOf, MembersHeld
  <1>6. \A n \in A \ {m} : store'[ElementKey(k, d.version, n)] = store[ElementKey(k, d.version, n)]
    BY <1>1 DEF MembersAt, Same
  <1>7. PICK h : h = Entry(m, x) ++ f
    OBVIOUS
  <1>8. h = [n \in A \cup {m} |-> IF n = m THEN x ELSE f[n]]
    BY <1>4, <1>7 DEF Entry, ++
  <1>9. g = h
    BY <1>2, <1>4, <1>5, <1>6, <1>8
  <1> QED BY <1>3, <1>7, <1>9

\* The keys of the other members stay when the element key of m changes.
LEMMA OtherMembers ==
    ASSUME NEW k \in Keys, NEW v \in Nat, NEW m \in Members, NEW e, e = ElementKey(k, v, m),
           \A f : f # k /\ f # e /\ (\A w, s, n : f # ScoreKey(k, w, s, n)) => Same(f)
    PROVE  \A n \in Members \ {m} : Same(ElementKey(k, v, n))
  <1> TAKE n \in Members \ {m}
  <1>1. PICK f : f = ElementKey(k, v, n)
    OBVIOUS
  <1>2. f \notin Keys /\ f[3] = n /\ e[3] = m
    BY <1>1, ElementKeyIs
  <1>3. \A w, s, o : f # ScoreKey(k, w, s, o)
    BY <1>1, KeysApart
  <1> QED BY <1>1, <1>2, <1>3

LEMMA AssignRefines ==
    ASSUME StoreInv, CallsInv, NEW c \in Writers, call[c] # NoCall,
           Assigning(c), Committing(c)
    PROVE  S!Next
  <1>1. PICK k, d, e, m, x : /\ k = call[c].key /\ d = call[c].meta /\ e = Mine(c)
                             /\ m = call[c].member /\ x = call[c].arg
    OBVIOUS
  <1>2. PICK d2 : d2 = IF e \in DOMAIN store THEN d ELSE [d EXCEPT !.size = @ + 1]
    OBVIOUS
  <1>3. /\ k \in Keys /\ e \notin Keys /\ e = ElementKey(k, d.version, m)
        /\ \A f : f # k /\ f # e => Same(f)
        /\ e \in DOMAIN store' /\ store'[e] = x
        /\ k \in DOMAIN store' /\ store'[k] = d2
    BY <1>1, <1>2, AssignEffect
  <1>4. d \in Metas /\ Current(c) /\ m \in Members /\ d.type \in {"Hash", "Set"}
    BY <1>1, CallIs DEF Assigning
  <1>5. d.version \in Nat
    BY <1>4 DEF Metas
  <1>6. d2 \in Metas /\ d2.type = d.type /\ d2.version = d.version
    BY <1>2, <1>4, CountedIs
  <1>7. \A n \in Members \ {m} : Same(ElementKey(k, d.version, n))
    BY <1>3, <1>4, <1>5, OtherMembers
  <1>8. BodyOf(k, d2)' = Entry(m, x) ++ BodyOf(k, d)
    BY <1>3, <1>4, <1>6, <1>7, MemberAssigned
  <1>9. Elsewhere(k)
    BY <1>3, <1>4, <1>5, ElementKeyIs DEF Elsewhere, About
  <1>10. S!Becomes(k, d.type, Entry(m, x) ++ BodyOf(k, d))
    BY <1>3, <1>6, <1>8, <1>9, BecomesIs
  <1>11. S!Assign(k, d.type, m, x)
    <2>1. S!OfType(k, d.type) /\ S!Body(k) = BodyOf(k, d)
      BY <1>1, <1>4, BodyIs
    <2> QED BY <1>10, <2>1 DEF S!Assign, S!Entry, S!++, Entry, ++
  <1>12. (d.type = "Hash" /\ x \in Values) \/ (d.type = "Set" /\ x = Nil)
    BY <1>1 DEF Assigning
  <1> QED BY <1>3, <1>4, <1>11, <1>12 DEF S!Next

LEMMA ScoreRefines ==
    ASSUME StoreInv, CallsInv, NEW c \in Writers, call[c] # NoCall,
           Scoring(c), Committing(c)
    PROVE  S!Next
  <1>1. PICK k, d, e, m, x : /\ k = call[c].key /\ d = call[c].meta /\ e = Mine(c)
                             /\ m = call[c].member /\ x = call[c].arg
    OBVIOUS
  <1>2. PICK d2 : d2 = IF e \in DOMAIN store THEN d ELSE [d EXCEPT !.size = @ + 1]
    OBVIOUS
  <1>3. PICK n, old : n = ScoreKey(k, d.version, x, m) /\ old = OldScore(c)
    OBVIOUS
  <1>4. /\ k \in Keys /\ e \notin Keys /\ e = ElementKey(k, d.version, m)
        /\ n \notin Keys
        /\ \A f : f # k /\ f # e /\ f # n /\ f \notin old => Same(f)
        /\ e \in DOMAIN store' /\ store'[e] = x
        /\ \A f \in old : f \notin Keys
        /\ e \in DOMAIN store => old = {ScoreKey(k, d.version, store[e], m)}
        /\ e \notin DOMAIN store => old = {}
        /\ k \in DOMAIN store' /\ store'[k] = d2
    BY <1>1, <1>2, <1>3, ScoreEffect
  <1>5. d \in Metas /\ Current(c) /\ m \in Members /\ d.type = "ZSet" /\ x \in Scores
    BY <1>1, CallIs DEF Scoring
  <1>6. d.version \in Nat
    BY <1>5 DEF Metas
  <1>7. d2 \in Metas /\ d2.type = d.type /\ d2.version = d.version
    BY <1>2, <1>5, CountedIs
  <1>8. \A f : f \in old => f = ScoreKey(k, d.version, store[e], m)
    BY <1>4
  <1>9. \A j \in Members \ {m} : Same(ElementKey(k, d.version, j))
    BY <1>3, <1>4, <1>5, <1>6, <1>8, OtherMembers
  <1>10. BodyOf(k, d2)' = Entry(m, x) ++ BodyOf(k, d)
    BY <1>4, <1>5, <1>7, <1>9, MemberAssigned
  <1>11. Elsewhere(k)
    <2>1. e[1] = k /\ n[1] = k /\ \A f \in old : f[1] = k
      BY <1>3, <1>4, <1>8 DEF ElementKey, ScoreKey
    <2> QED BY <1>4, <2>1 DEF Elsewhere, About
  <1>12. S!Becomes(k, d.type, Entry(m, x) ++ BodyOf(k, d))
    BY <1>4, <1>7, <1>10, <1>11, BecomesIs
  <1>13. S!Assign(k, "ZSet", m, x)
    <2>1. S!OfType(k, d.type) /\ S!Body(k) = BodyOf(k, d)
      BY <1>1, <1>5, BodyIs
    <2> QED BY <1>5, <1>12, <2>1 DEF S!Assign, S!Entry, S!++, Entry, ++
  <1> QED BY <1>4, <1>5, <1>13 DEF S!Next

LEMMA RemoveRefines ==
    ASSUME StoreInv, CallsInv, NEW c \in Writers, call[c] # NoCall,
           Removing(c), Committing(c)
    PROVE  S!Next
  <1>1. PICK k, d, e, m : /\ k = call[c].key /\ d = call[c].meta /\ e = Mine(c)
                          /\ m = call[c].member
    OBVIOUS
  <1>2. PICK d2 : d2 = [d EXCEPT !.size = @ + (-1)]
    OBVIOUS
  <1>3. /\ k \in Keys /\ e \notin Keys /\ e = ElementKey(k, d.version, m)
        /\ \A f : f # k /\ f # e => Same(f)
        /\ k \in DOMAIN store /\ e \in DOMAIN store /\ e \notin DOMAIN store'
        /\ k \in DOMAIN store' /\ store'[k] = d2
    BY <1>1, <1>2, RemoveEffect
  <1>4. d \in Metas /\ Current(c) /\ m \in Members /\ d.type \in {"Hash", "Set"}
    BY <1>1, CallIs DEF Removing
  <1>5. d.version \in Nat
    BY <1>4 DEF Metas
  <1>6. d2 \in Metas /\ d2.type = d.type /\ d2.version = d.version
    BY <1>2, <1>4, CountedIs
  <1>7. \A n \in Members \ {m} : Same(ElementKey(k, d.version, n))
    BY <1>3, <1>4, <1>5, OtherMembers
  <1>8. PICK f, g : f = BodyOf(k, d) /\ g = BodyOf(k, d2)'
    OBVIOUS
  <1>9. m \in DOMAIN f /\ g = [n \in DOMAIN f \ {m} |-> f[n]]
    <2>1. PICK A, B : A = MembersAt(k, d.version) /\ B = MembersAt(k, d2.version)'
      OBVIOUS
    <2>2. B = A \ {m} /\ m \in A
      BY <1>3, <1>4, <1>6, <1>7, <2>1 DEF MembersAt, Same
    <2>3. f = [n \in A |-> store[ElementKey(k, d.version, n)]]
      BY <1>4, <1>8, <2>1 DEF BodyOf, MembersHeld
    <2>4. g = [n \in B |-> store'[ElementKey(k, d.version, n)]]
      BY <1>4, <1>6, <1>8, <2>1 DEF BodyOf, MembersHeld
    <2>5. \A n \in B : store'[ElementKey(k, d.version, n)] = store[ElementKey(k, d.version, n)]
      BY <1>7, <2>1, <2>2 DEF MembersAt, Same
    <2> QED BY <2>2, <2>3, <2>4, <2>5
  <1>10. Elsewhere(k)
    BY <1>3, <1>4, <1>5, ElementKeyIs DEF Elsewhere, About
  <1>11. S!Becomes(k, d.type, g)
    BY <1>3, <1>6, <1>8, <1>10, BecomesIs
  <1>12. S!OfType(k, d.type) /\ S!Body(k) = f /\ Held[k] # S!Nothing
    BY <1>1, <1>3, <1>4, <1>8, BodyIs
  <1>13. S!Remove(k, d.type, m)
    BY <1>9, <1>11, <1>12 DEF S!Remove
  <1> QED BY <1>3, <1>4, <1>13 DEF S!Next

\* A list loses or gains the element at its end i.
LEMMA ListShorter ==
    ASSUME NEW I, NEW i, NEW J, NEW h, NEW g, Numbers(I), LeftOf(i, I) \/ RightOf(i, I),
           J = I \cup {i}, Agree(g, h, I)
    PROVE  Grown(Listing(g, J), Listing(h, I), g[i])
  BY ListingLeft, ListingRight

LEMMA PushRefines ==
    ASSUME StoreInv, CallsInv, NEW c \in Writers, call[c] # NoCall,
           Pushing(c), Committing(c)
    PROVE  S!Next
  <1>1. PICK k, d, e, d2, i, x : /\ k = call[c].key /\ d = call[c].meta /\ e = Pushed(c)
                                 /\ d2 = MetaAfterPush(c) /\ i = PushIndex(c) /\ x = call[c].arg
    OBVIOUS
  <1>2. /\ k \in Keys /\ e \notin Keys /\ e = ElementKey(k, d.version, i)
        /\ d \in Metas /\ d.type = "List" /\ Listed(k, d)
        /\ d.version \in Nat
        /\ d.head \in Int /\ d.tail \in Int /\ i \in Int
        /\ e[1] = k /\ e[3] = i
        /\ \A f : f # k /\ f # e => Same(f)
        /\ e \in DOMAIN store' /\ store'[e] = x
        /\ k \in DOMAIN store' /\ store'[k] = d2
        /\ d2 \in Metas /\ d2.type = "List" /\ d2.version = d.version
        /\ \/ i = d.head - 1 /\ d2.head = d.head - 1 /\ d2.tail = d.tail
           \/ i = d.tail /\ d2.head = d.head /\ d2.tail = d.tail + 1
    BY <1>1, PushEffect
  <1>3. d.head =< d.tail /\ x \in Elements /\ Current(c)
    BY <1>1, <1>2, CallIs DEF Listed, Pushing
  <1>4. /\ d2.head .. (d2.tail - 1) = (d.head .. (d.tail - 1)) \cup {i}
        /\ i \notin d.head .. (d.tail - 1)
    BY <1>2, <1>3
  <1>5. ASSUME NEW j \in d.head .. (d.tail - 1)
        PROVE  Same(ElementKey(k, d.version, j))
    <2>1. PICK f : f = ElementKey(k, d.version, j)
      OBVIOUS
    <2>2. f \notin Keys /\ f[3] = j
      BY <1>2, <2>1, ElementKeyIs
    <2> QED BY <1>2, <1>4, <2>1, <2>2
  <1>6. PICK I, J : I = Present(k, d) /\ J = Present(k, d2)'
    OBVIOUS
  <1>7. /\ I \subseteq Int /\ IsFiniteSet(I) /\ J = I \cup {i}
        /\ (\A j \in I : i < j) \/ (\A j \in I : j < i)
    <2>1. I \subseteq Int /\ IsFiniteSet(I) /\ \A j \in I : d.head =< j /\ j < d.tail
      BY <1>2, <1>6, PresentIs
    <2>2. J = I \cup {i}
      BY <1>2, <1>4, <1>5, <1>6 DEF Present, Same
    <2>3. \A j \in I : j \in Int
      BY <2>1
    <2>4. CASE i = d.head - 1
      BY <1>2, <2>1, <2>2, <2>3, <2>4
    <2>5. CASE i = d.tail
      BY <1>2, <2>1, <2>2, <2>3, <2>5
    <2> QED BY <1>2, <2>4, <2>5
  <1>8. PICK h, g : /\ h = [j \in I |-> store[ElementKey(k, d.version, j)]]
                    /\ g = [j \in J |-> store'[ElementKey(k, d.version, j)]]
    OBVIOUS
  <1>9. g[i] = x /\ \A j \in I : g[j] = h[j]
    <2>1. i \in J /\ I \subseteq J
      BY <1>7
    <2>2. \A j \in I : store'[ElementKey(k, d.version, j)] = store[ElementKey(k, d.version, j)]
      BY <1>5, <1>6 DEF Present, Same
    <2> QED BY <1>2, <1>8, <2>1, <2>2
  <1>10. PICK s, t : s = Listing(h, I) /\ t = Listing(g, J)
    OBVIOUS
  <1>11. t = <<x>> \o s \/ t = Append(s, x)
    <2>1. Numbers(I) /\ (LeftOf(i, I) \/ RightOf(i, I)) /\ Agree(g, h, I)
      BY <1>2, <1>7, <1>9 DEF Numbers, LeftOf, RightOf, Agree
    <2>2. Grown(t, s, g[i])
      BY <1>7, <1>10, <2>1, ListShorter
    <2> QED BY <1>9, <2>2 DEF Grown
  <1>12. s = BodyOf(k, d) /\ t = BodyOf(k, d2)'
    BY <1>2, <1>6, <1>8, <1>10 DEF BodyOf, ListHeld
  <1>13. Elsewhere(k)
    BY <1>2 DEF Elsewhere, About
  <1>14. S!Becomes(k, "List", t)
    BY <1>2, <1>12, <1>13, BecomesIs
  <1>15. S!OfType(k, "List") /\ S!Body(k) = s
    BY <1>1, <1>2, <1>3, <1>12, BodyIs
  <1>16. S!Push(k, x)
    BY <1>11, <1>14, <1>15 DEF S!Push
  <1> QED BY <1>2, <1>3, <1>16 DEF S!Next

LEMMA PopDeleteRefines ==
    ASSUME StoreInv, CallsInv, NEW c \in Writers, PopDelete(c)
    PROVE  S!Next
  <1>1. call[c].step = "delete" /\ call[c] # NoCall
    BY DEF PopDelete, At, NoCall
  <1>2. Popping(c)
    BY <1>1, CallIs DEF Assigning, Scoring, Removing, Pushing
  <1>3. PICK k, d, e, i : k = call[c].key /\ d = call[c].meta /\ e = Popped(c) /\ i = PopIndex(c)
    OBVIOUS
  <1>4. /\ k \in Keys /\ k \in DOMAIN store /\ store[k] = d /\ d \in Metas
        /\ d.type = "List" /\ d.version \in Nat
        /\ d.head \in Int /\ d.tail \in Int /\ i \in d.head .. (d.tail - 1)
        /\ e = ElementKey(k, d.version, i) /\ e \notin Keys /\ e[1] = k /\ e[3] = i
    BY <1>1, <1>2, <1>3, PoppingIs
  <1>5. i = d.head \/ i = d.tail - 1
    BY <1>2, <1>3 DEF PopIndex, Popping
  <1>6. store' = Without(e) /\ e \in DOMAIN store
    BY <1>1, <1>2, <1>3 DEF PopDelete, Popping, At
  <1>7. /\ \A f : f # e => Same(f)
        /\ e \notin DOMAIN store' /\ k \in DOMAIN store' /\ store'[k] = d
    BY <1>4, <1>6 DEF Same, Without
  <1>8. ASSUME NEW j \in (d.head .. (d.tail - 1)) \ {i}
        PROVE  Same(ElementKey(k, d.version, j))
    <2>1. PICK f : f = ElementKey(k, d.version, j)
      OBVIOUS
    <2>2. f[3] = j
      BY <1>4, <2>1, ElementKeyIs
    <2> QED BY <1>4, <1>7, <2>1, <2>2
  <1>9. PICK I, J : I = Present(k, d)' /\ J = Present(k, d)
    OBVIOUS
  <1>10. J = I \cup {i} /\ i \notin I
    BY <1>4, <1>6, <1>7, <1>8, <1>9 DEF Present, Same
  <1>11. /\ I \subseteq Int /\ IsFiniteSet(I) /\ i \in Int
         /\ (\A j \in I : i < j) \/ (\A j \in I : j < i)
    <2>1. J \subseteq Int /\ IsFiniteSet(J) /\ \A j \in J : d.head =< j /\ j < d.tail
      BY <1>4, <1>9, PresentIs
    <2>2. IsFiniteSet(I)
      BY <1>10, <2>1, FS_Subset
    <2>3. i \in Int /\ \A j \in I : j \in Int /\ j # i /\ d.head =< j /\ j < d.tail
      BY <1>10, <2>1
    <2>4. CASE i = d.head
      BY <1>4, <2>2, <2>3, <2>4
    <2>5. CASE i = d.tail - 1
      BY <1>4, <2>2, <2>3, <2>5
    <2> QED BY <1>5, <2>4, <2>5
  <1>12. PICK h, g : /\ h = [j \in I |-> store'[ElementKey(k, d.version, j)]]
                     /\ g = [j \in J |-> store[ElementKey(k, d.version, j)]]
    OBVIOUS
  <1>13. \A j \in I : g[j] = h[j]
    <2>1. \A j \in I : store'[ElementKey(k, d.version, j)] = store[ElementKey(k, d.version, j)]
      BY <1>8, <1>9, <1>10 DEF Present, Same
    <2> QED BY <1>10, <1>12, <2>1
  <1>14. PICK s, t : s = Listing(h, I) /\ t = Listing(g, J)
    OBVIOUS
  <1>15. t # <<>> /\ (s = Tail(t) \/ s = SubSeq(t, 1, Len(t) - 1))
    <2>1. Numbers(I) /\ (LeftOf(i, I) \/ RightOf(i, I)) /\ Agree(g, h, I)
      BY <1>11, <1>13 DEF Numbers, LeftOf, RightOf, Agree
    <2>2. Grown(t, s, g[i])
      BY <1>10, <1>14, <2>1, ListShorter
    <2> QED BY <2>2 DEF Grown
  <1>16. t = BodyOf(k, d) /\ s = BodyOf(k, d)'
    BY <1>4, <1>9, <1>12, <1>14 DEF BodyOf, ListHeld
  <1>17. Elsewhere(k)
    BY <1>4, <1>7 DEF Elsewhere, About
  <1>18. S!Becomes(k, "List", s)
    BY <1>4, <1>7, <1>16, <1>17, BecomesIs
  <1>19. S!OfType(k, "List") /\ S!Body(k) = t /\ Held[k] # S!Nothing
    <2>1. Current(c)
      BY <1>1, CallIs
    <2> QED BY <1>3, <1>4, <1>16, <2>1, BodyIs
  <1>20. S!Pop(k)
    BY <1>15, <1>18, <1>19 DEF S!Pop
  <1> QED BY <1>4, <1>20 DEF S!Next

\* The metadata catch up with what has been popped before.
LEMMA PopPutRefines ==
    ASSUME StoreInv, CallsInv, NEW c \in Writers, PopPut(c)
    PROVE  UNCHANGED Held
  <1>1. call[c].step = "put" /\ call[c] # NoCall
    BY DEF PopPut, At, NoCall
  <1>2. Popping(c)
    BY <1>1, CallIs DEF Assigning, Scoring, Removing, Pushing
  <1>3. PICK k, d, e, i, d2 : /\ k = call[c].key /\ d = call[c].meta /\ e = Popped(c)
                              /\ i = PopIndex(c) /\ d2 = MetaAfterPop(c)
    OBVIOUS
  <1>4. /\ k \in Keys /\ k \in DOMAIN store /\ store[k] = d /\ d \in Metas
        /\ d.type = "List" /\ d.version \in Nat
        /\ d.head \in Int /\ d.tail \in Int /\ i \in d.head .. (d.tail - 1)
        /\ e = ElementKey(k, d.version, i)
    BY <1>1, <1>2, <1>3, PoppingIs
  <1>5. e \notin DOMAIN store
    BY <1>1, <1>2, <1>3 DEF Popping, At
  <1>6. (\A f : f # k => Same(f)) /\ k \in DOMAIN store' /\ store'[k] = d2
    BY <1>3 DEF PopPut, Same, Entry, ++
  <1>7. /\ d2 \in Metas /\ d2.version = d.version /\ d2.type = "List"
        /\ \/ i = d.head /\ d2.head = d.head + 1 /\ d2.tail = d.tail
           \/ i = d.tail - 1 /\ d2.head = d.head /\ d2.tail = d.tail - 1
    <2>1. d.size - 1 \in Int /\ d.head + 1 \in Int /\ d.tail - 1 \in Int
      BY <1>4 DEF Metas
    <2>2. CASE call[c].op = "LPop"
      <3>1. d2 = Shifted(d, d.size - 1, d.head + 1, d.tail) /\ i = d.head
        BY <1>3, <1>4, <2>2 DEF MetaAfterPop, PopIndex, Metas, Shifted
      <3> QED BY <1>4, <2>1, <3>1, ShiftedIs
    <2>3. CASE call[c].op = "RPop"
      <3>1. d2 = Shifted(d, d.size - 1, d.head, d.tail - 1) /\ i = d.tail - 1
        BY <1>3, <1>4, <2>3 DEF MetaAfterPop, PopIndex, Metas, Shifted
      <3> QED BY <1>4, <2>1, <3>1, ShiftedIs
    <2> QED BY <1>2, <2>2, <2>3 DEF Popping
  <1>8. ASSUME NEW j \in Int
        PROVE  Same(ElementKey(k, d.version, j))
    <2>1. PICK f : f = ElementKey(k, d.version, j)
      OBVIOUS
    <2>2. f \notin Keys
      BY <1>4, <2>1, ElementKeyIs
    <2> QED BY <1>4, <1>6, <2>1, <2>2
  <1>9. d2.head .. (d2.tail - 1) = (d.head .. (d.tail - 1)) \ {i}
    BY <1>4, <1>7
  <1>10. Present(k, d2)' = Present(k, d)
    <2>1. \A j \in d.head .. (d.tail - 1) : j \in Int
      BY <1>4
    <2> QED BY <1>4, <1>5, <1>7, <1>8, <1>9, <2>1 DEF Present, Same
  <1>11. PICK I : I = Present(k, d)
    OBVIOUS
  <1>12. I \subseteq Int
    BY <1>4, <1>11, PresentIs
  <1>13. [j \in I |-> store'[ElementKey(k, d.version, j)]] = [j \in I |-> store[ElementKey(k, d.version, j)]]
    <2>1. \A j \in I : store'[ElementKey(k, d.version, j)] = store[ElementKey(k, d.version, j)]
      BY <1>8, <1>11, <1>12 DEF Present, Same
    <2> QED BY <2>1
  <1>14. BodyOf(k, d2)' = BodyOf(k, d)
    BY <1>4, <1>7, <1>10, <1>11, <1>13 DEF BodyOf, ListHeld
  <1>15. Held'[k] = Held[k]
    <2>1. Held[k] = [type |-> d.type, body |-> BodyOf(k, d)]
      BY <1>4, HeldIs
    <2>2. Held'[k] = [type |-> d2.type, body |-> BodyOf(k, d2)']
      BY <1>4, <1>6, <1>7, HeldBecomes
    <2> QED BY <1>4, <1>7, <1>14, <2>1, <2>2
  <1>16. Elsewhere(k)
    BY <1>6 DEF Elsewhere, About
  <1>17. Held' = [Held EXCEPT ![k] = Held[k]]
    BY <1>4, <1>15, <1>16, OthersHeld
  <1>18. Held = [j \in Keys |-> Held[j]]
    BY DEF Held
  <1> QED BY <1>17, <1>18

LEMMA CommitRefines ==
    ASSUME StoreInv, CallsInv, NEW c \in Writers, Commit(c)
    PROVE  S!Next
  <1>1. Committing(c) /\ call[c] # NoCall /\ call[c].step = "commit"
    BY DEF Commit, Committing, At, NoCall
  <1>2. Assigning(c) \/ Scoring(c) \/ Removing(c) \/ Pushing(c)
    BY <1>1, CallIs DEF Popping
  <1> QED BY <1>1, <1>2, AssignRefines, ScoreRefines, RemoveRefines, PushRefines

LEMMA HeldStays ==
    ASSUME UNCHANGED store
    PROVE  UNCHANGED Held
  BY DEF Held, Contents, PresentIndexes, PresentMembers

LEMMA RedisNextRefines ==
    ASSUME RedisIndInv, [Next]_vars
    PROVE  [S!Next]_Held
  <1>1. ASSUME NEW c \in Writers, Writing(c)
        PROVE  S!Next \/ UNCHANGED Held
    <2>1. CASE Starting(c)
      <3>1. PICK k \in KeysOf[c], t \in Structures \cup {"List"} :
               \E op, m, x, step : Start(c, op, k, t, m, x, step)
        BY <2>1, StartingIs
      <3>2. UNCHANGED store
        BY <3>1 DEF Start
      <3> QED BY <3>2, HeldStays
    <2>2. CASE Going(c)
      <3>1. UNCHANGED store
        BY <2>2, GoingIs DEF RedisIndInv
      <3> QED BY <3>1, HeldStays
    <2>3. CASE Changing(c)
      BY <2>3, CommitRefines, PopDeleteRefines, PopPutRefines, SetRefines, DeleteRefines
         DEF Changing, RedisIndInv
    <2> QED BY <1>1, <2>1, <2>2, <2>3, WritingIs
  <1>2. ASSUME NEW r \in Readers, Reading(r)
        PROVE  UNCHANGED Held
    <2>1. UNCHANGED store
      BY <1>2 DEF Reading, ReadStart, ReadLook, ReadReturn
    <2> QED BY <2>1, HeldStays
  <1>3. CASE UNCHANGED vars
    BY <1>3, HeldStays DEF vars
  <1> QED BY <1>1, <1>2, <1>3 DEF Next

LEMMA RedisInitRefines ==
    ASSUME Init
    PROVE  S!Init
  <1>1. DOMAIN store = {}
    BY DEF Init
  <1> QED BY <1>1 DEF S!Init, S!Nothing, Held

\* Redis implements Structures: every call changes one structure at one
\* instant, a Commit or the Delete of a pop, or changes nothing, whatever
\* fails half-way and whoever reads or writes other keys in between.
THEOREM RedisIsStructures ==
    ASSUME OneWriterPerKey
    PROVE  Spec => Refines
  <1>1. RedisIndInv /\ [Next]_vars => [S!Next]_Held
    BY RedisNextRefines
  <1> QED BY <1>1, RedisInitRefines, RedisInvariance, PTL DEF Spec, Refines, S!Spec
=============================================================================
