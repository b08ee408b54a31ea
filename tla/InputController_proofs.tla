----------------------- MODULE InputController_proofs -----------------------
(***************************************************************************)
(* Proofs about InputController for any number of controllers and objects, *)
(* any inputs and maps, and every order of the calls.  What fire calls is  *)
(* exact but for the objects that are astray.                              *)
(***************************************************************************)
EXTENDS InputController, TLAPS

-----------------------------------------------------------------------------
(* The helpers *)

LEMMA AddType ==
    ASSUME NEW b \in [Inputs -> Bucket], NEW id \in Ids, NEW o
    PROVE  /\ AddToBuckets(b, id, o) \in [Inputs -> Bucket]
           /\ \A i \in Inputs, x \in Ids :
                 AddToBuckets(b, id, o)[i][x] =
                     IF x = id /\ Handles(o, i) THEN b[i][x] + 1 ELSE b[i][x]
<1>1. ASSUME NEW i \in Inputs
      PROVE  /\ AddToBuckets(b, id, o)[i] \in Bucket
             /\ \A x \in Ids : AddToBuckets(b, id, o)[i][x] =
                    IF x = id /\ Handles(o, i) THEN b[i][x] + 1 ELSE b[i][x]
  <2>1. b[i] \in [Ids -> Nat]
        BY DEF Bucket
  <2>2. CASE Handles(o, i)
        BY <2>1, <2>2 DEF AddToBuckets, Bucket
  <2>3. CASE ~Handles(o, i)
        BY <2>1, <2>3 DEF AddToBuckets, Bucket
  <2>4. QED BY <2>2, <2>3
<1>2. AddToBuckets(b, id, o) = [i \in Inputs |-> AddToBuckets(b, id, o)[i]]
      BY DEF AddToBuckets
<1>3. QED BY <1>1, <1>2

LEMMA RemoveType ==
    ASSUME NEW b \in [Inputs -> Bucket], NEW id \in Ids
    PROVE  /\ RemoveFromBuckets(b, id) \in [Inputs -> Bucket]
           /\ \A i \in Inputs, x \in Ids :
                 RemoveFromBuckets(b, id)[i][x] = IF x = id THEN 0 ELSE b[i][x]
BY DEF RemoveFromBuckets, Bucket

LEMMA RegenerateType ==
    ASSUME NEW S
    PROVE  /\ RegenerateBuckets(S) \in [Inputs -> Bucket]
           /\ \A i \in Inputs, x \in Ids :
                 RegenerateBuckets(S)[i][x] =
                     IF x \in S /\ Handles(obj[x], i) THEN 1 ELSE 0
BY DEF RegenerateBuckets, Bucket

LEMMA InitType ==
    ASSUME NEW o \in Objects, NEW ok \in BOOLEAN
    PROVE  /\ AfterInit(o, ok) \in Objects
           /\ AfterInit(o, ok).mapping \in Maps
           /\ AfterInit(o, ok).kind = o.kind
           /\ ok => /\ AfterInit(o, ok).initialized
                    /\ AfterInit(o, ok).device = (o.kind \in UinputKinds)
           /\ ~ok => ~AfterInit(o, ok).initialized
<1>1. /\ AfterInit(o, ok) \in Objects
      /\ AfterInit(o, ok).mapping \in Maps
      /\ AfterInit(o, ok).initialized = ok
      /\ AfterInit(o, ok).kind = o.kind
      /\ AfterInit(o, ok).device = (ok /\ o.kind \in UinputKinds)
      BY MapAssumption DEF AfterInit, Objects
<1>2. CASE ok = TRUE
  <2>1. (ok /\ o.kind \in UinputKinds) = (o.kind \in UinputKinds)
        BY <1>2
  <2>2. AfterInit(o, ok).device = (o.kind \in UinputKinds)
        BY <1>1, <2>1, Zenon
  <2>3. AfterInit(o, ok).initialized
        BY <1>1, <1>2
  <2>4. QED BY <1>1, <1>2, <2>2, <2>3
<1>3. CASE ok = FALSE
      BY <1>1, <1>3
<1>4. QED BY <1>2, <1>3

LEMMA FreshType ==
    ASSUME NEW kind \in Kinds
    PROVE  /\ Fresh(kind) \in Objects
           /\ Fresh(kind).mapping = NoMap
           /\ Fresh(kind).initialized = FALSE
BY DEF Fresh, Objects

-----------------------------------------------------------------------------
(* Types *)

\* An owned object has memory, and its id fits.
LEMMA Owned ==
    ASSUME TypeOK, NEW c \in Controllers, NEW id \in inputs[c]
    PROVE  id \in 0..counter - 1 /\ id \in Ids /\ obj[id] \in Objects
<1>1. id \in 0..counter - 1 /\ counter \in 0..MaxObjects
      BY DEF TypeOK
<1>2. QED BY <1>1, BoundAssumption DEF TypeOK, Ids

LEMMA TypeInit == Init => TypeOK
<1> SUFFICES ASSUME Init PROVE TypeOK
    OBVIOUS
<1>1. counter \in 0..MaxObjects /\ 0..counter - 1 = {}
      BY BoundAssumption DEF Init
<1>2. obj \in [0..counter - 1 -> Objects]
      BY <1>1 DEF Init
<1>3. NoEntries \in [Inputs -> Bucket]
      BY DEF NoEntries, Bucket
<1>4. QED BY <1>1, <1>2, <1>3 DEF Init, TypeOK

\* A new object takes the number counter.
LEMMA TypeNew ==
    ASSUME TypeOK, counter < MaxObjects, NEW o \in Objects,
           counter' = counter + 1, obj' = Extend(obj, counter, o)
    PROVE  /\ counter \in Nat /\ counter \in Ids
           /\ counter' \in 0..MaxObjects
           /\ 0..counter - 1 \subseteq 0..counter' - 1
           /\ counter \in 0..counter' - 1
           /\ obj' \in [0..counter' - 1 -> Objects]
           /\ obj'[counter] = o
           /\ \A x \in 0..counter - 1 : obj'[x] = obj[x]
<1>1. counter \in Nat /\ counter' - 1 = counter /\ counter \in Ids
      BY BoundAssumption DEF TypeOK, Ids
<1>2. obj \in [0..counter - 1 -> Objects]
      BY DEF TypeOK
<1>3. /\ counter' \in 0..MaxObjects
      /\ 0..counter - 1 \subseteq 0..counter' - 1
      /\ counter \in 0..counter' - 1
      BY <1>1, BoundAssumption
<1>4. /\ Extend(obj, counter, o) \in [0..counter -> Objects]
      /\ Extend(obj, counter, o)[counter] = o
      /\ \A x \in 0..counter - 1 : Extend(obj, counter, o)[x] = obj[x]
  <2>1. (0..counter - 1) \cup {counter} = 0..counter
        /\ counter \notin 0..counter - 1
        BY <1>1
  <2>2. Extend(obj, counter, o) =
            [x \in 0..counter |-> IF x = counter THEN o ELSE obj[x]]
        BY <1>2, <2>1 DEF Extend
  <2>3. QED BY <1>1, <1>2, <2>1, <2>2
<1>5. QED BY <1>1, <1>3, <1>4

\* Each action, one lemma: what it makes of the types.
LEMMA TypeNext == TypeOK /\ [Next]_vars => TypeOK'
<1> SUFFICES ASSUME TypeOK, [Next]_vars PROVE TypeOK'
    OBVIOUS
<1>0. /\ \A c \in Controllers : inputs[c] \subseteq 0..counter - 1
      /\ inputs \in [Controllers -> SUBSET (0..counter - 1)]
      /\ buckets \in [Controllers -> [Inputs -> Bucket]]
      /\ NoEntries \in [Inputs -> Bucket]
      /\ Usable \subseteq Controllers /\ astray \subseteq 0..counter - 1
      BY DEF TypeOK, NoEntries, Bucket, Usable
<1>1. ASSUME NEW c \in Usable, NEW kind \in Kinds, CreateFails(c, kind)
      PROVE  TypeOK'
  <2>1. AfterInit(Fresh(kind), FALSE) \in Objects
        BY FreshType, InitType
  <2>2. /\ 0..counter - 1 \subseteq 0..counter' - 1
        /\ counter' \in 0..MaxObjects
        /\ obj' \in [0..counter' - 1 -> Objects]
        BY <1>1, <2>1, TypeNew DEF CreateFails
  <2>3. inputs' \in [Controllers -> SUBSET (0..counter' - 1)]
        BY <1>0, <1>1, <2>2 DEF CreateFails
  <2>4. QED BY <1>0, <1>1, <2>2, <2>3 DEF CreateFails, TypeOK
<1>2. ASSUME NEW c \in Usable, NEW kind \in Kinds, NEW init \in BOOLEAN,
             Create(c, kind, init)
      PROVE  TypeOK'
  <2> DEFINE o == IF init THEN AfterInit(Fresh(kind), TRUE) ELSE Fresh(kind)
  <2>1. o \in Objects
        BY FreshType, InitType
  <2>2. /\ counter < MaxObjects /\ counter' = counter + 1
        /\ obj' = Extend(obj, counter, o)
        /\ inputs' = [inputs EXCEPT ![c] = @ \cup {counter}]
        /\ buckets' = [buckets EXCEPT ![c] = AddToBuckets(@, counter, o)]
        /\ UNCHANGED <<donors, astray>>
        BY <1>2 DEF Create
  <2> HIDE DEF o
  <2>3. /\ 0..counter - 1 \subseteq 0..counter' - 1
        /\ counter' \in 0..MaxObjects /\ counter \in Ids
        /\ counter \in 0..counter' - 1
        /\ obj' \in [0..counter' - 1 -> Objects]
        BY <2>1, <2>2, TypeNew
  <2>4. inputs' \in [Controllers -> SUBSET (0..counter' - 1)]
        BY <1>0, <2>2, <2>3
  <2>5. buckets' \in [Controllers -> [Inputs -> Bucket]]
        BY <1>0, <2>2, <2>3, AddType
  <2>6. QED BY <1>0, <2>2, <2>3, <2>4, <2>5 DEF TypeOK
<1>3. ASSUME NEW c \in Usable, NEW id \in inputs[c], InitializeOk(c, id)
      PROVE  TypeOK'
  <2>1. /\ id \in 0..counter - 1 /\ id \in Ids
        /\ AfterInit(obj[id], TRUE) \in Objects
        BY <1>0, Owned, InitType
  <2>2. buckets' \in [Controllers -> [Inputs -> Bucket]]
        BY <1>0, <1>3, <2>1, AddType DEF InitializeOk
  <2>3. QED BY <1>3, <2>1, <2>2 DEF InitializeOk, TypeOK
<1>4. ASSUME NEW c \in Usable, NEW id \in inputs[c], InitializeFails(c, id)
      PROVE  TypeOK'
  <2>1. AfterInit(obj[id], FALSE) \in Objects /\ id \in 0..counter - 1
        BY <1>0, Owned, InitType
  <2>2. QED BY <1>4, <2>1 DEF InitializeFails, TypeOK
<1>5. ASSUME NEW c \in Usable, NEW id \in inputs[c], NEW map \in Maps,
             OverrideMapping(c, id, map)
      PROVE  TypeOK'
  <2> DEFINE o == [obj[id] EXCEPT !.mapping = map]
  <2>1. o \in Objects /\ id \in Ids /\ id \in 0..counter - 1
        BY <1>0, Owned DEF Objects
  <2>2. /\ obj' = [obj EXCEPT ![id] = o]
        /\ buckets' = [buckets EXCEPT
               ![c] = AddToBuckets(RemoveFromBuckets(@, id), id, o)]
        /\ UNCHANGED <<counter, inputs, donors>>
        /\ astray' = astray \ {id} \/ astray' = astray \cup {id}
        BY <1>5 DEF OverrideMapping
  <2> HIDE DEF o
  <2>3. buckets' \in [Controllers -> [Inputs -> Bucket]]
        BY <1>0, <2>1, <2>2, AddType, RemoveType
  <2>4. QED BY <1>0, <2>1, <2>2, <2>3 DEF TypeOK
<1>6. ASSUME NEW c \in Usable, NEW id \in inputs[c], Remove(c, id)
      PROVE  TypeOK'
  <2>1. id \in Ids
        BY <1>0, Owned
  <2>2. buckets' \in [Controllers -> [Inputs -> Bucket]]
        BY <1>0, <1>6, <2>1, RemoveType DEF Remove
  <2>3. QED BY <1>6, <2>2 DEF Remove, TypeOK
<1>7. ASSUME NEW c \in Usable, NEW d \in Usable, Adopt(c, d) PROVE TypeOK'
  <2>1. inputs' \in [Controllers -> SUBSET (0..counter - 1)]
        BY <1>0, <1>7 DEF Adopt
  <2>2. buckets' \in [Controllers -> [Inputs -> Bucket]]
        BY <1>0, <1>7, RegenerateType DEF Adopt
  <2>3. astray' \subseteq 0..counter - 1
        BY <1>0, <1>7, <2>1 DEF Adopt, Strays
  <2>4. QED BY <1>0, <1>7, <2>1, <2>2, <2>3 DEF Adopt, TypeOK
<1>8. ASSUME NEW c \in Controllers, NEW d \in Usable, MoveAssign(c, d)
      PROVE  TypeOK'
  <2>1. inputs' \in [Controllers -> SUBSET (0..counter - 1)]
        BY <1>0, <1>8 DEF MoveAssign
  <2>2. buckets' \in [Controllers -> [Inputs -> Bucket]]
        BY <1>0, <1>8 DEF MoveAssign
  <2>3. QED BY <1>8, <2>1, <2>2 DEF MoveAssign, TypeOK
<1>9. CASE UNCHANGED vars
      BY <1>9 DEF vars, TypeOK
<1>10. QED BY <1>1, <1>2, <1>3, <1>4, <1>5, <1>6, <1>7, <1>8, <1>9 DEF Next

\* Type correctness.
THEOREM TypeSafe == Spec => []TypeOK
<1>1. QED BY TypeInit, TypeNext, PTL DEF Spec


-----------------------------------------------------------------------------
(* Ownership *)

OwnerInv == OneOwner /\ \A d \in donors : inputs[d] = {}

LEMMA OwnerNext == TypeOK /\ OwnerInv /\ [Next]_vars => OwnerInv'
<1> SUFFICES ASSUME TypeOK, OwnerInv, [Next]_vars PROVE OwnerInv'
    OBVIOUS
<1> USE DEF OwnerInv, OneOwner
<1>0. /\ \A c \in Controllers : inputs[c] \subseteq 0..counter - 1
      /\ inputs \in [Controllers -> SUBSET (0..counter - 1)]
      /\ donors \subseteq Controllers /\ Usable = Controllers \ donors
      /\ counter \in Nat /\ counter \notin 0..counter - 1
      BY BoundAssumption DEF TypeOK, Usable
<1>1. ASSUME NEW c \in Usable, NEW kind \in Kinds, NEW init \in BOOLEAN,
             Create(c, kind, init)
      PROVE  OwnerInv'
  <2>1. /\ inputs' = [inputs EXCEPT ![c] = @ \cup {counter}]
        /\ UNCHANGED donors
        BY <1>1 DEF Create
  <2>2. \A e \in Controllers : counter \notin inputs[e]
        BY <1>0
  <2>3. QED BY <1>0, <2>1, <2>2
<1>2. ASSUME NEW c \in Usable, NEW id \in inputs[c], Remove(c, id)
      PROVE  OwnerInv'
      BY <1>0, <1>2 DEF Remove
<1>3. ASSUME NEW c \in Usable, NEW d \in Usable, Adopt(c, d)
      PROVE  OwnerInv'
      BY <1>0, <1>3 DEF Adopt
<1>4. ASSUME NEW c \in Controllers, NEW d \in Usable, MoveAssign(c, d)
      PROVE  OwnerInv'
      BY <1>0, <1>4 DEF MoveAssign
<1>5. CASE UNCHANGED <<inputs, donors>>
      BY <1>5
<1>6. QED BY <1>1, <1>2, <1>3, <1>4, <1>5 DEF Next, vars, CreateFails,
         InitializeOk, InitializeFails, OverrideMapping

LEMMA OwnerInit == Init => OwnerInv
BY DEF Init, OwnerInv, OneOwner

\* Every object has at most one owner.
THEOREM OwnerSafe == Spec => []OneOwner
<1>1. OwnerInv => OneOwner
      BY DEF OwnerInv
<1>2. QED BY <1>1, OwnerInit, OwnerNext, TypeSafe, PTL DEF Spec

\* The id of an object that is gone is never used again.
THEOREM DeadIdsSafe == Spec => DeadIdsStayDead
<1> DEFINE Dead(id) == (\A c \in Controllers : id \notin inputs[c])
                           => \A c \in Controllers : id \notin inputs'[c]
<1>1. TypeOK /\ [Next]_vars => \A id \in 0..counter - 1 : Dead(id)
  <2> SUFFICES ASSUME TypeOK, [Next]_vars, NEW id \in 0..counter - 1,
                      \A c \in Controllers : id \notin inputs[c],
                      NEW e \in Controllers
               PROVE  id \notin inputs'[e]
      OBVIOUS
  <2>0. inputs \in [Controllers -> SUBSET (0..counter - 1)]
        /\ id # counter /\ Usable \subseteq Controllers
        BY DEF TypeOK, Usable
  <2>1. ASSUME NEW c \in Usable, NEW kind \in Kinds, NEW init \in BOOLEAN,
               Create(c, kind, init)
        PROVE  id \notin inputs'[e]
        BY <2>0, <2>1 DEF Create
  <2>2. ASSUME NEW c \in Usable, NEW k \in inputs[c], Remove(c, k)
        PROVE  id \notin inputs'[e]
        BY <2>0, <2>2 DEF Remove
  <2>3. ASSUME NEW c \in Usable, NEW d \in Usable, Adopt(c, d)
        PROVE  id \notin inputs'[e]
        BY <2>0, <2>3 DEF Adopt
  <2>4. ASSUME NEW c \in Controllers, NEW d \in Usable, MoveAssign(c, d)
        PROVE  id \notin inputs'[e]
        BY <2>0, <2>4 DEF MoveAssign
  <2>5. CASE UNCHANGED inputs
        BY <2>5
  <2>6. QED BY <2>1, <2>2, <2>3, <2>4, <2>5 DEF Next, vars, CreateFails,
           InitializeOk, InitializeFails, OverrideMapping
<1>2. QED BY <1>1, TypeSafe, PTL DEF Spec, DeadIdsStayDead


-----------------------------------------------------------------------------
(***************************************************************************)
(* What fire calls.  An object that is not astray has no entry before its  *)
(* init() returned: so initialize, that only adds entries, adds the first. *)
(* adopt makes the entries from the maps alone; what it enters without an  *)
(* initialize is astray from then on, all else in it is right again.       *)
(***************************************************************************)
\* Whatever is initialized has the device that its kind needs.
ObjectInv ==
    \A id \in 0..counter - 1 :
        obj[id].initialized => obj[id].device = (obj[id].kind \in UinputKinds)

\* The entries of id in the bucket of i of c are what FireExact says.
Right(c, i, id) ==
    /\ id \notin inputs[c] => buckets[c][i][id] = 0
    /\ id \in inputs[c] \ astray =>
          buckets[c][i][id] =
              IF obj[id].initialized /\ Handles(obj[id], i) THEN 1 ELSE 0

Exact(c) == \A i \in Inputs, id \in Ids : Right(c, i, id)

FireInv == ObjectInv /\ OwnerInv /\ \A c \in Usable : Exact(c)

LEMMA ObjectNext == TypeOK /\ ObjectInv /\ [Next]_vars => ObjectInv'
<1> SUFFICES ASSUME TypeOK, ObjectInv, [Next]_vars PROVE ObjectInv'
    OBVIOUS
<1> USE DEF ObjectInv
<1>0. /\ \A c \in Controllers : inputs[c] \subseteq 0..counter - 1
      /\ obj \in [0..counter - 1 -> Objects]
      /\ Usable \subseteq Controllers
      BY DEF TypeOK, Usable
<1>1. ASSUME NEW o \in Objects, counter < MaxObjects, counter' = counter + 1,
             obj' = Extend(obj, counter, o),
             o.initialized => o.device = (o.kind \in UinputKinds)
      PROVE  ObjectInv'
  <2>1. /\ obj'[counter] = o
        /\ \A x \in 0..counter - 1 : obj'[x] = obj[x]
        BY <1>1, TypeNew
  <2>2. \A x \in 0..counter' - 1 : x = counter \/ x \in 0..counter - 1
        BY <1>1, BoundAssumption DEF TypeOK
  <2>3. QED BY <1>1, <2>1, <2>2
<1>2. ASSUME NEW c \in Usable, NEW kind \in Kinds, CreateFails(c, kind)
      PROVE  ObjectInv'
  <2> DEFINE o == AfterInit(Fresh(kind), FALSE)
  <2>1. o \in Objects /\ ~o.initialized
        BY FreshType, InitType
  <2>2. counter < MaxObjects /\ counter' = counter + 1
        /\ obj' = Extend(obj, counter, o)
        BY <1>2 DEF CreateFails
  <2> HIDE DEF o
  <2>3. QED BY <1>1, <2>1, <2>2
<1>3. ASSUME NEW c \in Usable, NEW kind \in Kinds, NEW init \in BOOLEAN,
             Create(c, kind, init)
      PROVE  ObjectInv'
  <2> DEFINE o == IF init THEN AfterInit(Fresh(kind), TRUE) ELSE Fresh(kind)
  <2>1. /\ o \in Objects
        /\ o.initialized => o.device = (o.kind \in UinputKinds)
    <3>1. CASE init
      <4>1. o = AfterInit(Fresh(kind), TRUE)
            BY <3>1
      <4>2. QED BY <4>1, FreshType, InitType
    <3>2. CASE ~init
          BY <3>2, FreshType
    <3>3. QED BY <3>1, <3>2
  <2>2. counter < MaxObjects /\ counter' = counter + 1
        /\ obj' = Extend(obj, counter, o)
        BY <1>3 DEF Create
  <2> HIDE DEF o
  <2>3. QED BY <1>1, <2>1, <2>2
<1>4. ASSUME NEW c \in Usable, NEW id \in inputs[c], NEW ok \in BOOLEAN,
             obj' = [obj EXCEPT ![id] = AfterInit(obj[id], ok)],
             UNCHANGED counter
      PROVE  ObjectInv'
  <2> DEFINE o == AfterInit(obj[id], ok)
  <2>1. /\ ok => o.initialized /\ o.device = (o.kind \in UinputKinds)
        /\ ~ok => ~o.initialized
        BY <1>0, Owned, InitType
  <2>2. /\ obj'[id] = o
        /\ \A x \in 0..counter - 1 : x # id => obj'[x] = obj[x]
        BY <1>0, <1>4
  <2> HIDE DEF o
  <2>3. QED BY <1>4, <2>1, <2>2
<1>5. ASSUME NEW c \in Usable, NEW id \in inputs[c], NEW map \in Maps,
             OverrideMapping(c, id, map)
      PROVE  ObjectInv'
  <2>1. obj' = [obj EXCEPT ![id] = [obj[id] EXCEPT !.mapping = map]]
        /\ UNCHANGED counter
        BY <1>5 DEF OverrideMapping
  <2>2. /\ obj'[id] = [obj[id] EXCEPT !.mapping = map]
        /\ \A x \in 0..counter - 1 : x # id => obj'[x] = obj[x]
        /\ id \in 0..counter - 1 /\ obj[id] \in Objects
        BY <1>0, <2>1, Owned
  <2>3. /\ obj'[id].initialized = obj[id].initialized
        /\ obj'[id].device = obj[id].device /\ obj'[id].kind = obj[id].kind
        BY <2>2 DEF Objects
  <2>4. QED BY <2>1, <2>2, <2>3
<1>6. CASE UNCHANGED <<obj, counter>>
      BY <1>6
<1>7. ASSUME NEW c \in Usable, NEW id \in inputs[c], InitializeOk(c, id)
      PROVE  ObjectInv'
      BY <1>4, <1>7 DEF InitializeOk
<1>8. ASSUME NEW c \in Usable, NEW id \in inputs[c], InitializeFails(c, id)
      PROVE  ObjectInv'
      BY <1>4, <1>8 DEF InitializeFails
<1>9. QED BY <1>2, <1>3, <1>5, <1>6, <1>7, <1>8 DEF Next, vars, Remove,
         Adopt, MoveAssign

\* A controller whose objects and buckets a step leaves alone.
LEMMA ExactFrame ==
    ASSUME NEW e, Exact(e), inputs'[e] = inputs[e], buckets'[e] = buckets[e],
           \A x \in inputs[e] : /\ obj'[x] = obj[x]
                                /\ x \in astray => x \in astray'
    PROVE  Exact(e)'
BY DEF Exact, Right, Handles

LEMMA ExactNext == TypeOK /\ FireInv /\ [Next]_vars => \A e \in Usable' : Exact(e)'
<1> SUFFICES ASSUME TypeOK, FireInv, [Next]_vars, NEW e \in Usable'
             PROVE  Exact(e)'
    OBVIOUS
<1>0. /\ \A c \in Controllers : /\ inputs[c] \subseteq 0..counter - 1
                                /\ buckets[c] \in [Inputs -> Bucket]
      /\ inputs \in [Controllers -> SUBSET (0..counter - 1)]
      /\ obj \in [0..counter - 1 -> Objects]
      /\ buckets \in [Controllers -> [Inputs -> Bucket]]
      /\ counter \in Nat /\ counter \notin 0..counter - 1
      /\ astray \subseteq 0..counter - 1
      /\ e \in Controllers
      /\ \A c : c \in Usable <=> c \in Controllers /\ c \notin donors
      /\ \A c : c \in Usable' <=> c \in Controllers /\ c \notin donors'
      BY BoundAssumption DEF TypeOK, Usable
<1>1. /\ \A c \in Usable : Exact(c)
      /\ ObjectInv /\ OneOwner /\ \A d \in donors : inputs[d] = {}
      BY DEF FireInv, OwnerInv
<1>2. ASSUME NEW c \in Usable, NEW kind \in Kinds, CreateFails(c, kind)
      PROVE  Exact(e)'
  <2>1. AfterInit(Fresh(kind), FALSE) \in Objects
        BY FreshType, InitType
  <2>2. \A x \in 0..counter - 1 : obj'[x] = obj[x]
        BY <1>2, <2>1, TypeNew DEF CreateFails
  <2>3. UNCHANGED <<inputs, buckets, donors, astray>>
        BY <1>2 DEF CreateFails
  <2>4. QED BY <1>0, <1>1, <2>2, <2>3, ExactFrame
<1>3. ASSUME NEW c \in Usable, NEW kind \in Kinds, NEW init \in BOOLEAN,
             Create(c, kind, init)
      PROVE  Exact(e)'
  <2> DEFINE o == IF init THEN AfterInit(Fresh(kind), TRUE) ELSE Fresh(kind)
  <2>1. o \in Objects /\ (~o.initialized => o.mapping = NoMap)
    <3>1. CASE init
      <4>1. o = AfterInit(Fresh(kind), TRUE)
            BY <3>1
      <4>2. QED BY <4>1, FreshType, InitType
    <3>2. CASE ~init
          BY <3>2, FreshType
    <3>3. QED BY <3>1, <3>2
  <2>2. /\ counter < MaxObjects /\ counter' = counter + 1
        /\ obj' = Extend(obj, counter, o)
        /\ inputs' = [inputs EXCEPT ![c] = @ \cup {counter}]
        /\ buckets' = [buckets EXCEPT ![c] = AddToBuckets(@, counter, o)]
        /\ UNCHANGED <<donors, astray>>
        BY <1>3 DEF Create
  <2> HIDE DEF o
  <2>3. /\ counter \in Ids /\ obj'[counter] = o
        /\ \A x \in 0..counter - 1 : obj'[x] = obj[x]
        BY <2>1, <2>2, TypeNew
  <2>4. CASE e # c
        BY <1>0, <1>1, <2>2, <2>3, <2>4, ExactFrame
  <2>5. CASE e = c
    <3>1. inputs'[c] = inputs[c] \cup {counter} /\ counter \notin inputs[c]
          BY <1>0, <2>2
    <3>2. ASSUME NEW i \in Inputs, NEW x \in Ids
          PROVE  buckets'[c][i][x] = IF x = counter /\ Handles(o, i)
                                     THEN buckets[c][i][x] + 1
                                     ELSE buckets[c][i][x]
          BY <1>0, <2>2, <2>3, AddType
    <3>3. ASSUME NEW i \in Inputs, NEW x \in Ids
          PROVE  Right(c, i, x)'
      <4>1. CASE x = counter
        <5>1. buckets[c][i][x] = 0
              BY <1>1, <3>1, <4>1 DEF Exact, Right
        <5>2. Handles(o, i) => o.initialized
              BY <2>1 DEF Handles
        <5>3. QED BY <2>3, <3>1, <3>2, <4>1, <5>1, <5>2 DEF Right, Handles
      <4>2. CASE x # counter
        <5>1. x \in inputs[c] => obj'[x] = obj[x]
              BY <1>0, <2>3
        <5>2. Right(c, i, x) /\ buckets'[c][i][x] = buckets[c][i][x]
              BY <1>1, <3>2, <4>2 DEF Exact
        <5>3. QED BY <2>2, <3>1, <4>2, <5>1, <5>2 DEF Right, Handles
      <4>3. QED BY <4>1, <4>2
    <3>4. QED BY <2>5, <3>3 DEF Exact
  <2>6. QED BY <2>4, <2>5
<1>4. ASSUME NEW c \in Usable, NEW id \in inputs[c], InitializeOk(c, id)
      PROVE  Exact(e)'
  <2> DEFINE o == AfterInit(obj[id], TRUE)
  <2>1. o.initialized /\ id \in Ids
        BY <1>0, Owned, InitType
  <2>2. /\ ~obj[id].initialized
        /\ obj' = [obj EXCEPT ![id] = o]
        /\ buckets' = [buckets EXCEPT ![c] = AddToBuckets(@, id, o)]
        /\ UNCHANGED <<counter, inputs, donors, astray>>
        BY <1>4 DEF InitializeOk
  <2> HIDE DEF o
  <2>3. obj'[id] = o /\ \A x \in 0..counter - 1 : x # id => obj'[x] = obj[x]
        BY <1>0, <2>2
  <2>4. CASE e # c
    <3>1. id \notin inputs[e]
          BY <1>0, <1>1, <2>4 DEF OneOwner
    <3>2. QED BY <1>0, <1>1, <2>2, <2>3, <2>4, <3>1, ExactFrame
  <2>5. CASE e = c
    <3>1. ASSUME NEW i \in Inputs, NEW x \in Ids
          PROVE  buckets'[c][i][x] = IF x = id /\ Handles(o, i)
                                     THEN buckets[c][i][x] + 1
                                     ELSE buckets[c][i][x]
          BY <1>0, <2>1, <2>2, AddType
    <3>2. ASSUME NEW i \in Inputs, NEW x \in Ids
          PROVE  Right(c, i, x)'
      <4>1. CASE x = id
        <5>1. x \notin astray => buckets[c][i][x] = 0
              BY <1>1, <2>2, <4>1 DEF Exact, Right
        <5>2. buckets'[c][i][x] = IF Handles(o, i) THEN buckets[c][i][x] + 1
                                  ELSE buckets[c][i][x]
              BY <3>1, <4>1
        <5>3. QED BY <2>1, <2>2, <2>3, <4>1, <5>1, <5>2 DEF Right, Handles
      <4>2. CASE x # id
        <5>1. x \in inputs[c] => obj'[x] = obj[x]
              BY <1>0, <2>3, <4>2
        <5>2. Right(c, i, x) /\ buckets'[c][i][x] = buckets[c][i][x]
              BY <1>1, <3>1, <4>2 DEF Exact
        <5>3. QED BY <2>2, <5>1, <5>2 DEF Right, Handles
      <4>3. QED BY <4>1, <4>2
    <3>3. QED BY <2>5, <3>2 DEF Exact
  <2>6. QED BY <2>4, <2>5
<1>5. ASSUME NEW c \in Usable, NEW id \in inputs[c], InitializeFails(c, id)
      PROVE  Exact(e)'
  <2>1. /\ ~obj[id].initialized
        /\ obj' = [obj EXCEPT ![id] = AfterInit(obj[id], FALSE)]
        /\ UNCHANGED <<counter, inputs, buckets, donors, astray>>
        BY <1>5 DEF InitializeFails
  <2>2. ~obj'[id].initialized
        BY <1>0, <2>1, Owned, InitType
  <2>3. \A x \in 0..counter - 1 : x # id => obj'[x] = obj[x]
        BY <1>0, <2>1
  <2>4. ASSUME NEW i \in Inputs, NEW x \in Ids
        PROVE  Right(e, i, x)'
    <3>1. Right(e, i, x)
          BY <1>0, <1>1, <2>1 DEF Exact
    <3>2. x \in inputs[e] => x = id \/ obj'[x] = obj[x]
          BY <1>0, <2>3
    <3>3. QED BY <2>1, <2>2, <3>1, <3>2 DEF Right, Handles
  <2>5. QED BY <2>4 DEF Exact
<1>6. ASSUME NEW c \in Usable, NEW id \in inputs[c], NEW map \in Maps,
             OverrideMapping(c, id, map)
      PROVE  Exact(e)'
  <2> DEFINE o == [obj[id] EXCEPT !.mapping = map]
  <2>1. o.initialized = obj[id].initialized /\ id \in Ids
        BY <1>0, Owned DEF Objects
  <2>2. /\ obj' = [obj EXCEPT ![id] = o]
        /\ buckets' = [buckets EXCEPT
               ![c] = AddToBuckets(RemoveFromBuckets(@, id), id, o)]
        /\ astray' = IF o.initialized THEN astray \ {id} ELSE astray \cup {id}
        /\ UNCHANGED <<counter, inputs, donors>>
        BY <1>6 DEF OverrideMapping
  <2> HIDE DEF o
  <2>3. obj'[id] = o /\ \A x \in 0..counter - 1 : x # id => obj'[x] = obj[x]
        BY <1>0, <2>2
  <2>4. CASE e # c
    <3>1. id \notin inputs[e]
          BY <1>0, <1>1, <2>4 DEF OneOwner
    <3>2. QED BY <1>0, <1>1, <2>2, <2>3, <2>4, <3>1, ExactFrame
  <2>5. CASE e = c
    <3> DEFINE b == RemoveFromBuckets(buckets[c], id)
    <3>1. b \in [Inputs -> Bucket]
          BY <1>0, <2>1, RemoveType
    <3>2. ASSUME NEW i \in Inputs, NEW x \in Ids
          PROVE  b[i][x] = IF x = id THEN 0 ELSE buckets[c][i][x]
          BY <1>0, <2>1, RemoveType
    <3>3. buckets'[c] = AddToBuckets(b, id, o)
          BY <1>0, <2>2
    <3> HIDE DEF b
    <3>4. ASSUME NEW i \in Inputs, NEW x \in Ids
          PROVE  buckets'[c][i][x] = IF x = id /\ Handles(o, i)
                                     THEN b[i][x] + 1 ELSE b[i][x]
          BY <2>1, <3>1, <3>3, AddType
    <3>5. ASSUME NEW i \in Inputs, NEW x \in Ids
          PROVE  Right(c, i, x)'
      <4>1. CASE x = id
        <5>1. buckets'[c][i][x] = IF Handles(o, i) THEN 1 ELSE 0
              BY <3>2, <3>4, <4>1
        <5>2. /\ x \in inputs'[c] /\ obj'[x] = o
              /\ x \notin astray' => o.initialized
              BY <2>1, <2>2, <2>3, <4>1
        <5>3. QED BY <5>1, <5>2 DEF Right, Handles
      <4>2. CASE x # id
        <5>1. x \in inputs[c] => obj'[x] = obj[x]
              BY <1>0, <2>3, <4>2
        <5>2. buckets'[c][i][x] = buckets[c][i][x]
              BY <3>2, <3>4, <4>2
        <5>3. Right(c, i, x) /\ (x \in astray => x \in astray')
              BY <1>1, <2>2, <4>2 DEF Exact
        <5>4. QED BY <2>2, <5>1, <5>2, <5>3 DEF Right, Handles
      <4>3. QED BY <4>1, <4>2
    <3>6. QED BY <2>5, <3>5 DEF Exact
  <2>6. QED BY <2>4, <2>5
<1>7. ASSUME NEW c \in Usable, NEW id \in inputs[c], Remove(c, id)
      PROVE  Exact(e)'
  <2>1. /\ inputs' = [inputs EXCEPT ![c] = @ \ {id}]
        /\ buckets' = [buckets EXCEPT ![c] = RemoveFromBuckets(@, id)]
        /\ UNCHANGED <<counter, obj, donors, astray>> /\ id \in Ids
        BY <1>0, <1>7, Owned DEF Remove
  <2>2. CASE e # c
        BY <1>0, <1>1, <2>1, <2>2, ExactFrame
  <2>3. CASE e = c
    <3>1. \A i \in Inputs, x \in Ids :
             buckets'[c][i][x] = IF x = id THEN 0 ELSE buckets[c][i][x]
          BY <1>0, <2>1, RemoveType
    <3>2. inputs'[c] = inputs[c] \ {id}
          BY <1>0, <2>1
    <3>3. QED BY <1>1, <2>1, <2>3, <3>1, <3>2 DEF Exact, Right, Handles
  <2>4. QED BY <2>2, <2>3
<1>8. ASSUME NEW c \in Usable, NEW d \in Usable, Adopt(c, d)
      PROVE  Exact(e)'
  <2>1. /\ c # d
        /\ inputs' = [inputs EXCEPT ![c] = @ \cup inputs[d], ![d] = {}]
        /\ buckets' = [buckets EXCEPT ![c] = RegenerateBuckets(inputs'[c])]
        /\ donors' = donors \cup {d}
        /\ astray' = (astray \ inputs'[c]) \cup Strays(inputs'[c])
        /\ UNCHANGED <<counter, obj>>
        BY <1>8 DEF Adopt
  <2>2. e # d
        BY <1>0, <2>1
  <2>3. CASE e # c
    <3>1. inputs'[e] = inputs[e] /\ inputs'[c] = inputs[c] \cup inputs[d]
          BY <1>0, <2>1, <2>2, <2>3
    <3>2. \A x \in inputs[e] : x \notin inputs'[c]
          BY <1>0, <1>1, <2>2, <2>3, <3>1 DEF OneOwner
    <3>3. \A x \in inputs[e] : x \in astray => x \in astray'
          BY <2>1, <3>2
    <3>4. QED BY <1>0, <1>1, <2>1, <2>2, <2>3, <3>3, ExactFrame
  <2>4. CASE e = c
    <3>1. inputs'[c] = inputs[c] \cup inputs[d]
          BY <1>0, <2>1
    <3>2. \A i \in Inputs, x \in Ids :
             buckets'[c][i][x] =
                 IF x \in inputs'[c] /\ Handles(obj[x], i) THEN 1 ELSE 0
          BY <1>0, <2>1, RegenerateType
    <3>3. \A i \in Inputs, x \in inputs'[c] \ astray' :
             Handles(obj[x], i) => obj[x].initialized
          BY <2>1 DEF Strays, Handles
    <3>4. ASSUME NEW i \in Inputs, NEW x \in Ids
          PROVE  Right(c, i, x)'
      <4>1. obj'[x] = obj[x]
            BY <2>1
      <4>2. x \in inputs'[c] \ astray' /\ Handles(obj[x], i)
                => obj[x].initialized
            BY <3>3
      <4>3. buckets'[c][i][x] =
                IF x \in inputs'[c] /\ Handles(obj[x], i) THEN 1 ELSE 0
            BY <3>2
      <4>4. QED BY <4>1, <4>2, <4>3 DEF Right, Handles
    <3>5. QED BY <2>4, <3>4 DEF Exact
  <2>5. QED BY <2>3, <2>4
<1>9. ASSUME NEW c \in Controllers, NEW d \in Usable, MoveAssign(c, d)
      PROVE  Exact(e)'
  <2>1. /\ c # d
        /\ inputs' = [inputs EXCEPT ![c] = inputs[d], ![d] = {}]
        /\ buckets' = [buckets EXCEPT ![c] = buckets[d], ![d] = NoEntries]
        /\ donors' = donors \ {c}
        /\ UNCHANGED <<counter, obj, astray>>
        BY <1>9 DEF MoveAssign
  <2>2. CASE e = c
    <3>1. inputs'[c] = inputs[d] /\ buckets'[c] = buckets[d] /\ Exact(d)
          BY <1>0, <1>1, <2>1
    <3>2. QED BY <2>1, <2>2, <3>1 DEF Exact, Right, Handles
  <2>3. CASE e = d
    <3>1. inputs'[d] = {} /\ buckets'[d] = NoEntries
          BY <1>0, <2>1
    <3>2. QED BY <2>3, <3>1 DEF Exact, Right, NoEntries
  <2>4. CASE e # c /\ e # d
        BY <1>0, <1>1, <2>1, <2>4, ExactFrame
  <2>5. QED BY <2>2, <2>3, <2>4
<1>10. CASE UNCHANGED vars
       BY <1>0, <1>1, <1>10, ExactFrame DEF vars
<1>11. QED BY <1>2, <1>3, <1>4, <1>5, <1>6, <1>7, <1>8, <1>9, <1>10 DEF Next

LEMMA FireInit == Init => FireInv
<1> SUFFICES ASSUME Init PROVE FireInv
    OBVIOUS
<1>1. ObjectInv /\ OwnerInv
      BY OwnerInit DEF Init, ObjectInv
<1>2. ASSUME NEW c \in Usable PROVE Exact(c)
      BY DEF Init, Usable, Exact, Right, NoEntries
<1>3. QED BY <1>1, <1>2 DEF FireInv

LEMMA FireNext == TypeOK /\ FireInv /\ [Next]_vars => FireInv'
BY ObjectNext, OwnerNext, ExactNext DEF FireInv

\* In every order of the calls fire calls the initialized objects that have a
\* handler, once each, and nothing else but objects that are astray: of those
\* it calls none that another controller owns or that is destroyed.
THEOREM FireSafe == Spec => []FireExact
<1>1. FireInv => FireExact
      BY DEF FireInv, Exact, Right, FireExact, Fire
<1>2. QED BY <1>1, FireInit, FireNext, TypeSafe, PTL DEF Spec

\* Every object that fire calls, but those astray, has its handler and, if it
\* is of a uinput kind, its device.
THEOREM CallSafe == Spec => []CalledReady
<1>1. TypeOK /\ FireInv => CalledReady
  <2> SUFFICES ASSUME TypeOK, FireInv, NEW c \in Usable, NEW i \in Inputs,
                      NEW id \in (0..counter - 1) \ astray, Fire(c, i)[id] > 0
               PROVE  /\ Handles(obj[id], i)
                      /\ obj[id].kind \in UinputKinds => obj[id].device
      BY DEF CalledReady
  <2>1. id \in Ids
        BY BoundAssumption DEF TypeOK, Ids
  <2>2. Right(c, i, id)
        BY <2>1 DEF FireInv, Exact
  <2>3. obj[id].initialized /\ Handles(obj[id], i)
        BY <2>2 DEF Right, Fire
  <2>4. QED BY <2>3 DEF FireInv, ObjectInv
<1>2. QED BY <1>1, FireInit, FireNext, TypeSafe, PTL DEF Spec
=============================================================================
