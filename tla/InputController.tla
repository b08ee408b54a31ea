--------------------------- MODULE InputController ---------------------------
(***************************************************************************)
(* InputController (server/device_handling/Inputs.h, Inputs.cpp): owner of *)
(* the input objects, with one bucket of objects for each input so that    *)
(* fire calls only those with a handler.  Single-threaded; what is hard is *)
(* the order of calls, deferred initialization that fails half way, and    *)
(* ownership that moves between controllers while buckets hold pointers.   *)
(* The lists and vectors of a bucket are parallel: an entry is an object   *)
(* id, and a bucket counts the entries of each id.                         *)
(***************************************************************************)
EXTENDS Integers, FiniteSets

CONSTANTS
    Controllers,    \* the InputController objects of the program
    MaxObjects,     \* bound: objects ever created
    Inputs,         \* TotalInputMask
    Kinds,          \* subclasses of InputObject
    Maps,           \* the static InputMaps (Mappings.cpp)
    DefaultMap,     \* the map that init() of a kind installs
    Handled,        \* Handled[m]: inputs for which m has a handler
    UinputKinds     \* kinds whose init() creates a uinput device, or throws

Ids == 0..MaxObjects - 1
NoMap == "none"

ASSUME BoundAssumption == MaxObjects \in Nat
ASSUME MapAssumption ==
    /\ NoMap \notin Maps
    /\ DefaultMap \in [Kinds -> Maps]
    /\ Handled \in [Maps -> SUBSET Inputs]

VARIABLES
    counter,    \* InputController::counter, shared by all controllers
    inputs,     \* inputs[c]: ids of the objects that c owns
    obj,        \* what an object's memory holds, alive or not
    buckets,    \* buckets[c][i][id]: entries of id in c's bucket of input i
    donors,     \* history: controllers emptied by adopt, not assigned since
    astray      \* history: objects entered into buckets before their init()
                \* returned, until their entries are made anew

vars == <<counter, inputs, obj, buckets, donors, astray>>

\* mapping, os.udev # nullptr, initialized
Objects == [kind : Kinds, mapping : Maps \cup {NoMap}, device : BOOLEAN,
            initialized : BOOLEAN]

Bucket == [Ids -> Nat]

TypeOK ==
    /\ counter \in 0..MaxObjects
    /\ inputs \in [Controllers -> SUBSET (0..counter - 1)]
    /\ obj \in [0..counter - 1 -> Objects]
    /\ buckets \in [Controllers -> [Inputs -> Bucket]]
    /\ donors \subseteq Controllers
    /\ astray \subseteq 0..counter - 1

NoEntries == [i \in Inputs |-> [id \in Ids |-> 0]]

Init ==
    /\ counter = 0
    /\ inputs = [c \in Controllers |-> {}]
    /\ obj = [id \in {} |-> {}]
    /\ buckets = [c \in Controllers |-> NoEntries]
    /\ donors = {}
    /\ astray = {}

-----------------------------------------------------------------------------
(* Helpers, each on the buckets b of one controller *)

Handles(o, i) == o.mapping # NoMap /\ i \in Handled[o.mapping]

\* add_to_buckets
AddToBuckets(b, id, o) ==
    [i \in Inputs |-> [b[i] EXCEPT ![id] = @ + IF Handles(o, i) THEN 1 ELSE 0]]

\* remove_from_buckets: every entry of id
RemoveFromBuckets(b, id) == [i \in Inputs |-> [b[i] EXCEPT ![id] = 0]]

\* regenerate_buckets, for a controller that owns the objects of S
RegenerateBuckets(S) ==
    [i \in Inputs |-> [id \in Ids |->
        IF id \in S THEN IF Handles(obj[id], i) THEN 1 ELSE 0 ELSE 0]]

\* fire(i): the objects that c's bucket of i calls, and how often
Fire(c, i) == buckets[c][i]

\* What is left of an object after its init(), ok or not: the mapping is set
\* before the device is created.
AfterInit(o, ok) ==
    [o EXCEPT !.mapping = DefaultMap[o.kind],
              !.device = ok /\ o.kind \in UinputKinds,
              !.initialized = ok]

\* uinput may be refused; the network kinds ignore a failure of open().
InitOutcomes(kind) == IF kind \in UinputKinds THEN BOOLEAN ELSE {TRUE}

Fresh(kind) == [kind |-> kind, mapping |-> NoMap, device |-> FALSE,
                initialized |-> FALSE]

Extend(f, id, o) == [x \in DOMAIN f \cup {id} |-> IF x = id THEN o ELSE f[x]]

-----------------------------------------------------------------------------
(* Operations *)

\* create(true) whose init() throws: the object is gone, its id is used up.
CreateFails(c, kind) ==
    /\ counter < MaxObjects
    /\ FALSE \in InitOutcomes(kind)
    /\ counter' = counter + 1
    /\ obj' = Extend(obj, counter, AfterInit(Fresh(kind), FALSE))
    /\ UNCHANGED <<inputs, buckets, donors, astray>>

\* Mutant: each controller numbers its objects itself.
Create_BySize(c, kind, init) ==
    LET o == IF init THEN AfterInit(Fresh(kind), TRUE) ELSE Fresh(kind)
        id == Cardinality(inputs[c])
    IN  /\ counter < MaxObjects
        /\ id \notin inputs[c]
        /\ counter' = IF id < counter THEN counter ELSE counter + 1
        /\ obj' = Extend(obj, id, o)
        /\ inputs' = [inputs EXCEPT ![c] = @ \cup {id}]
        /\ buckets' = [buckets EXCEPT ![c] = AddToBuckets(@, id, o)]
        /\ UNCHANGED <<donors, astray>>

\* Mutant: the number is read, not used up.
Create_NotCounted(c, kind, init) ==
    LET o == IF init THEN AfterInit(Fresh(kind), TRUE) ELSE Fresh(kind)
    IN  /\ counter < MaxObjects
        /\ obj' = Extend(obj, counter, o)
        /\ inputs' = [inputs EXCEPT ![c] = @ \cup {counter}]
        /\ buckets' = [buckets EXCEPT ![c] = AddToBuckets(@, counter, o)]
        /\ UNCHANGED <<counter, donors, astray>>

\* create(init)
Create(c, kind, init) ==
    LET o == IF init THEN AfterInit(Fresh(kind), TRUE) ELSE Fresh(kind)
    IN  /\ counter < MaxObjects
        /\ counter' = counter + 1
        /\ obj' = Extend(obj, counter, o)
        /\ inputs' = [inputs EXCEPT ![c] = @ \cup {counter}]
        /\ buckets' = [buckets EXCEPT ![c] = AddToBuckets(@, counter, o)]
        /\ UNCHANGED <<donors, astray>>

\* initialize(id) of an object that is not initialized, init() returning or
\* throwing; otherwise it does nothing, or throws.
InitializeOk(c, id) ==
    LET o == AfterInit(obj[id], TRUE)
    IN  /\ ~obj[id].initialized
        /\ obj' = [obj EXCEPT ![id] = o]
        /\ buckets' = [buckets EXCEPT ![c] = AddToBuckets(@, id, o)]
        /\ UNCHANGED <<counter, inputs, donors, astray>>

InitializeFails(c, id) ==
    /\ ~obj[id].initialized
    /\ FALSE \in InitOutcomes(obj[id].kind)
    /\ obj' = [obj EXCEPT ![id] = AfterInit(@, FALSE)]
    /\ UNCHANGED <<counter, inputs, buckets, donors, astray>>

\* override_mapping(id, map), of an object that is initialized or not
OverrideMapping(c, id, map) ==
    LET o == [obj[id] EXCEPT !.mapping = map]
    IN  /\ obj' = [obj EXCEPT ![id] = o]
        /\ buckets' = [buckets EXCEPT
               ![c] = AddToBuckets(RemoveFromBuckets(@, id), id, o)]
        /\ astray' = IF o.initialized THEN astray \ {id} ELSE astray \cup {id}
        /\ UNCHANGED <<counter, inputs, donors>>

\* Mutant: the object is erased, its entries stay.
Remove_Entries(c, id) ==
    /\ inputs' = [inputs EXCEPT ![c] = @ \ {id}]
    /\ UNCHANGED <<counter, obj, buckets, donors, astray>>

\* remove(id)
Remove(c, id) ==
    /\ inputs' = [inputs EXCEPT ![c] = @ \ {id}]
    /\ buckets' = [buckets EXCEPT ![c] = RemoveFromBuckets(@, id)]
    /\ UNCHANGED <<counter, obj, donors, astray>>

\* regenerate_buckets looks at the maps alone: of S these get entries although
\* their init() did not return.
Strays(S) == {id \in S : obj[id].mapping # NoMap /\ ~obj[id].initialized}

\* Mutant: the objects are shared, not moved.
Adopt_Shares(c, d) ==
    /\ c # d
    /\ inputs' = [inputs EXCEPT ![c] = @ \cup inputs[d]]
    /\ buckets' = [buckets EXCEPT ![c] = RegenerateBuckets(inputs'[c])]
    /\ donors' = donors \cup {d}
    /\ astray' = (astray \ inputs'[c]) \cup Strays(inputs'[c])
    /\ UNCHANGED <<counter, obj>>

\* c.adopt(move(d)): d keeps its buckets, of objects it no longer owns.
Adopt(c, d) ==
    /\ c # d
    /\ inputs' = [inputs EXCEPT ![c] = @ \cup inputs[d], ![d] = {}]
    /\ buckets' = [buckets EXCEPT ![c] = RegenerateBuckets(inputs'[c])]
    /\ donors' = donors \cup {d}
    /\ astray' = (astray \ inputs'[c]) \cup Strays(inputs'[c])
    /\ UNCHANGED <<counter, obj>>

\* c = move(d): c's own objects are destroyed.
MoveAssign(c, d) ==
    /\ c # d
    /\ inputs' = [inputs EXCEPT ![c] = inputs[d], ![d] = {}]
    /\ buckets' = [buckets EXCEPT ![c] = buckets[d], ![d] = NoEntries]
    /\ donors' = donors \ {c}
    /\ UNCHANGED <<counter, obj, astray>>

\* A donor is not used before it is assigned to: it is a moved-from object.
Usable == Controllers \ donors

Next ==
    \/ \E c \in Usable, kind \in Kinds :
          \/ CreateFails(c, kind)
          \/ \E init \in BOOLEAN : Create(c, kind, init)
    \/ \E c \in Usable : \E id \in inputs[c] :
          \/ InitializeOk(c, id)
          \/ InitializeFails(c, id)
          \/ \E map \in Maps : OverrideMapping(c, id, map)
          \/ Remove(c, id)
    \/ \E c, d \in Usable : Adopt(c, d)
    \/ \E c \in Controllers, d \in Usable : MoveAssign(c, d)

Spec == Init /\ [][Next]_vars

-----------------------------------------------------------------------------
\* fire calls every initialized object that has a handler once, and nothing
\* else, above all no object that is destroyed or belongs to another
\* controller.  The one exception are objects that a caller had entered into
\* the buckets before their init() returned: by override_mapping, or by adopt
\* after an initialize that threw.  They may be called too early, and twice
\* after the initialize, until an override_mapping or adopt enters them anew.
FireExact ==
    \A c \in Usable, i \in Inputs, id \in Ids :
        /\ id \notin inputs[c] => Fire(c, i)[id] = 0
        /\ id \in inputs[c] \ astray =>
              Fire(c, i)[id] =
                  IF obj[id].initialized /\ Handles(obj[id], i) THEN 1 ELSE 0

\* An object has one owner: it is deleted once.
OneOwner == \A c, d \in Controllers : c # d => inputs[c] \cap inputs[d] = {}

\* "If 'tracking' an object externally, use the ObjectID" (Inputs.h:18): the
\* id of an object that is gone never finds an object again.
DeadIdsStayDead ==
    [][ \A id \in 0..counter - 1 :
            (\A c \in Controllers : id \notin inputs[c])
                => \A c \in Controllers : id \notin inputs'[c] ]_vars

\* "bucket invariant: obj->mapping non-null and has a non-null handler for
\* btn" (Inputs.cpp:110).
BucketInvariant ==
    \A c \in Usable, i \in Inputs, id \in 0..counter - 1 :
        Fire(c, i)[id] > 0 => Handles(obj[id], i)

\* An object that fire calls has the handler ("bucket invariant", above) and,
\* if it is of a uinput kind, its device: assert(udev && "device not created")
\* (OSRetrieve.cpp:61).  Again but for the objects entered too early.
CalledReady ==
    \A c \in Usable, i \in Inputs, id \in (0..counter - 1) \ astray :
        Fire(c, i)[id] > 0 =>
            /\ Handles(obj[id], i)
            /\ obj[id].kind \in UinputKinds => obj[id].device
=============================================================================
