---------------------------- MODULE DsuConnection ----------------------------
(***************************************************************************)
(* cemuhook::Connection, the DSU server that emulators subscribe to        *)
(* (server/cemuhook/Connection.cpp).  The application thread calls poll,   *)
(* send, set_slot, open and close; requests reach the socket at any time.  *)
(* poll drains the socket request by request and then prunes, so requests  *)
(* and time may come between its steps, other calls may not.               *)
(***************************************************************************)
EXTENDS Integers, FiniteSets

CONSTANTS
    Clients,        \* addresses of clients (Endpoint)
    MaxSlots,       \* MAX_SLOTS
    Intensities,    \* rumble intensities, 0 is off
    Timeout,        \* timeout_, in time units
    CounterMod,     \* packet_counter_ counts modulo this (2^32)
    MaxInbox        \* bound: requests in the receive buffer

ASSUME TimeoutAssumption == Timeout \in Nat
ASSUME CounterAssumption == CounterMod \in Nat \ {0}
ASSUME IntensityAssumption == 0 \in Intensities
ASSUME SlotAssumption == MaxSlots \in Nat \ {0}

Slots == 0..MaxSlots - 1

\* The MAC address that is derived for slot s, as the number s, and one that
\* is no slot's; set_slot may give a slot any of them.
Macs == 0..MaxSlots

\* "no packet yet": smaller than every packet number
None == -1

VARIABLES
    open,       \* sock_ >= 0
    inbox,      \* requests in the receive buffer; a set, UDP keeps no order
    where,      \* "idle" between calls; "drain" and "prune" inside poll
    subs,       \* subs_: who gets DATA, and how long ago they asked
    slotMac,    \* slots_: the MAC of every slot; the rest is only reported
    counter,    \* packet_counter_
    rumble,     \* rumble_, one motor
    asked,      \* history: asked[c], time since c's last DATA request
                \* reached the socket (long ago, if close lost it)
    last,       \* history: last[c][s], number of c's last packet of slot s
    everSub     \* history: some client has subscribed

vars == <<open, inbox, where, subs, slotMac, counter, rumble, asked, last,
          everSub>>

AgeCap == Timeout + 1
Ages == 0..AgeCap

\* ControllerId: all controllers, those of one slot or those of one MAC
Ids == [mode : {"All"}] \cup [mode : {"Slot"}, slot : Slots]
          \cup [mode : {"Mac"}, mac : Macs]

Subscribers == [ep : Clients, id : Ids, age : Ages]

DataRequests == [kind : {"data"}, from : Clients, id : Ids]
RumbleRequests ==
    [kind : {"rumble"}, from : Clients, slot : Slots, to : Intensities]
\* Version, port and motor queries: answered, nothing is remembered.
Queries == [kind : {"query"}, from : Clients]

Requests == DataRequests \cup RumbleRequests \cup Queries

Numbers == 0..CounterMod - 1

TypeOK ==
    /\ open \in BOOLEAN
    /\ inbox \subseteq Requests
    /\ where \in {"idle", "drain", "prune"}
    /\ subs \subseteq Subscribers
    /\ slotMac \in [Slots -> Macs]
    /\ counter \in [Slots -> Numbers]
    /\ rumble \in [Slots -> Intensities]
    /\ asked \in [Clients -> Ages]
    /\ last \in [Clients -> [Slots -> Numbers \cup {None}]]
    /\ everSub \in BOOLEAN

Init ==
    /\ open = FALSE
    /\ inbox = {}
    /\ where = "idle"
    /\ subs = {}
    /\ slotMac = [s \in Slots |-> s]
    /\ counter = [s \in Slots |-> 0]
    /\ rumble = [s \in Slots |-> 0]
    /\ asked = [c \in Clients |-> AgeCap]
    /\ last = [c \in Clients |-> [s \in Slots |-> None]]
    /\ everSub = FALSE

-----------------------------------------------------------------------------
(* The socket *)

\* open(): bound, or already open; a failure changes nothing.
Open ==
    /\ where = "idle"
    /\ ~open
    /\ open' = TRUE
    /\ UNCHANGED <<inbox, where, subs, slotMac, counter, rumble, asked, last,
                   everSub>>

\* close(): the receive buffer is lost, everything else is kept.
Close ==
    /\ where = "idle"
    /\ open
    /\ open' = FALSE
    /\ inbox' = {}
    /\ asked' = [c \in Clients |->
                    IF \E r \in inbox : r.kind = "data" /\ r.from = c
                    THEN AgeCap ELSE asked[c]]
    /\ UNCHANGED <<where, subs, slotMac, counter, rumble, last, everSub>>

\* A request reaches the receive buffer.
Arrive(r) ==
    /\ open
    /\ Cardinality(inbox \cup {r}) <= MaxInbox
    /\ inbox' = inbox \cup {r}
    /\ asked' = IF r.kind = "data" THEN [asked EXCEPT ![r.from] = 0] ELSE asked
    /\ UNCHANGED <<open, where, subs, slotMac, counter, rumble, last, everSub>>

(* poll() *)

PollBegin ==
    /\ where = "idle"
    /\ open
    /\ where' = "drain"
    /\ UNCHANGED <<open, inbox, subs, slotMac, counter, rumble, asked, last,
                   everSub>>

\* A client that is new, or asks for something else, starts a new series.
NoPackets(c) == last' = [last EXCEPT ![c] = [s \in Slots |-> None]]

\* Mutant: the subscriber is appended whether or not it is there.
Touch_Append(c, id) ==
    /\ subs' = subs \cup {[ep |-> c, id |-> id, age |-> 0]}
    /\ everSub' = TRUE
    /\ IF [ep |-> c, id |-> id] \in {[ep |-> s.ep, id |-> s.id] : s \in subs}
       THEN UNCHANGED last
       ELSE NoPackets(c)

\* Mutant: a known subscriber gets its new id, its age is left.
Touch_NoRefresh(c, id) ==
    /\ subs' = IF \E s \in subs : s.ep = c
               THEN {IF s.ep = c THEN [s EXCEPT !.id = id] ELSE s : s \in subs}
               ELSE subs \cup {[ep |-> c, id |-> id, age |-> 0]}
    /\ everSub' = TRUE
    /\ IF [ep |-> c, id |-> id] \in {[ep |-> s.ep, id |-> s.id] : s \in subs}
       THEN UNCHANGED last
       ELSE NoPackets(c)

\* touch_subscriber: one entry for each client, with its latest wish.
Touch(c, id) ==
    /\ subs' = {s \in subs : s.ep # c} \cup {[ep |-> c, id |-> id, age |-> 0]}
    /\ everSub' = TRUE
    /\ IF \E s \in subs : s.ep = c /\ s.id = id
       THEN UNCHANGED last
       ELSE NoPackets(c)

\* recvfrom returns a DATA request.
TakeData(r) ==
    /\ r.kind = "data"
    /\ Touch(r.from, r.id)
    /\ UNCHANGED rumble

\* ... a rumble command; it need not come from a subscriber.
TakeRumble(r) ==
    /\ r.kind = "rumble"
    /\ rumble' = [rumble EXCEPT ![r.slot] = r.to]
    /\ UNCHANGED <<subs, last, everSub>>

\* ... a query, or something parse_client_packet refuses.
TakeQuery(r) ==
    /\ r.kind = "query"
    /\ UNCHANGED <<subs, last, everSub, rumble>>

PollTake(r) ==
    /\ where = "drain"
    /\ r \in inbox
    /\ inbox' = inbox \ {r}
    /\ TakeData(r) \/ TakeRumble(r) \/ TakeQuery(r)
    /\ UNCHANGED <<open, where, slotMac, counter, asked>>

\* recvfrom returns EAGAIN.
PollDrained ==
    /\ where = "drain"
    /\ inbox = {}
    /\ where' = "prune"
    /\ UNCHANGED <<open, inbox, subs, slotMac, counter, rumble, asked, last,
                   everSub>>

Kept == {s \in subs : s.age <= Timeout}

\* Mutant: nobody is ever pruned.
Prune_Never ==
    /\ where = "prune"
    /\ where' = "idle"
    /\ UNCHANGED <<open, inbox, subs, slotMac, counter, rumble, asked, last,
                   everSub>>

\* prune(): silent clients go, and with the last of them the rumble.
Prune ==
    /\ where = "prune"
    /\ where' = "idle"
    /\ subs' = Kept
    /\ rumble' = IF Kept = {} /\ subs # {} THEN [s \in Slots |-> 0] ELSE rumble
    /\ last' = [c \in Clients |->
                   IF \E s \in subs \ Kept : s.ep = c
                   THEN [s \in Slots |-> None] ELSE last[c]]
    /\ UNCHANGED <<open, inbox, slotMac, counter, asked, everSub>>

(* send() and set_slot() *)

\* subscriber_wants
Wants(s, slot) ==
    \/ s.id.mode = "All"
    \/ s.id.mode = "Slot" /\ s.id.slot = slot
    \/ s.id.mode = "Mac" /\ s.id.mac = slotMac[slot]

Recipients(slot) == {s \in subs : Wants(s, slot)}

\* Mutant: every recipient draws a number.
Send_DrawEach(slot) ==
    /\ where = "idle"
    /\ open /\ subs # {}
    /\ counter' = [counter EXCEPT
                      ![slot] = (@ + Cardinality(Recipients(slot))) % CounterMod]
    /\ last' = [c \in Clients |->
                   IF \E s \in Recipients(slot) : s.ep = c
                   THEN [last[c] EXCEPT ![slot] = counter[slot]]
                   ELSE last[c]]
    /\ UNCHANGED <<open, inbox, where, subs, slotMac, rumble, asked, everSub>>

\* Mutant: the counter does not wrap.
Send_NoWrap(slot) ==
    /\ where = "idle"
    /\ open /\ subs # {}
    /\ counter' = [counter EXCEPT ![slot] = @ + 1]
    /\ last' = [c \in Clients |->
                   IF \E s \in Recipients(slot) : s.ep = c
                   THEN [last[c] EXCEPT ![slot] = counter[slot]]
                   ELSE last[c]]
    /\ UNCHANGED <<open, inbox, where, subs, slotMac, rumble, asked, everSub>>

\* One frame of a slot to everyone who wants it, under the slot's next number.
Send(slot) ==
    /\ where = "idle"
    /\ open /\ subs # {}
    /\ counter' = [counter EXCEPT ![slot] = (@ + 1) % CounterMod]
    /\ last' = [c \in Clients |->
                   IF \E s \in Recipients(slot) : s.ep = c
                   THEN [last[c] EXCEPT ![slot] = counter[slot]]
                   ELSE last[c]]
    /\ UNCHANGED <<open, inbox, where, subs, slotMac, rumble, asked, everSub>>

\* set_slot: of a slot's description only the MAC decides who gets frames.
SetSlot(slot, mac) ==
    /\ where = "idle"
    /\ slotMac' = [slotMac EXCEPT ![slot] = mac]
    /\ UNCHANGED <<open, inbox, where, subs, counter, rumble, asked, last,
                   everSub>>

-----------------------------------------------------------------------------
Older(age) == IF age >= AgeCap THEN AgeCap ELSE age + 1

\* One time unit.  The end of poll (EAGAIN, then prune) takes no time.
Tick ==
    /\ where # "prune"
    /\ subs' = {[s EXCEPT !.age = Older(@)] : s \in subs}
    /\ asked' = [c \in Clients |-> Older(asked[c])]
    /\ UNCHANGED <<open, inbox, where, slotMac, counter, rumble, last, everSub>>

Next ==
    \/ Open
    \/ Close
    \/ \E r \in Requests : Arrive(r)
    \/ PollBegin
    \/ \E r \in inbox : PollTake(r)
    \/ PollDrained
    \/ Prune
    \/ \E slot \in Slots : Send(slot)
    \/ \E slot \in Slots, mac \in Macs : SetSlot(slot, mac)
    \/ Tick

Spec == Init /\ [][Next]_vars

\* The application polls for ever (InputCemuGamepad::poll, on every packet), a
\* poll sees the socket empty in the end (its loop has no other exit), and
\* time goes on.
FairSpec ==
    /\ Spec
    /\ SF_vars(Tick)
    /\ SF_vars(PollBegin)
    /\ WF_vars(\E r \in inbox : PollTake(r))
    /\ SF_vars(PollDrained)
    /\ WF_vars(Prune)

-----------------------------------------------------------------------------
\* A client is subscribed once, whatever it asks for and however often its
\* requests are repeated: send never sends it a frame twice.
SubscribedOnce == \A s, t \in subs : s.ep = t.ep => s = t

\* prune drops only clients that have really been silent: no DATA request
\* of a dropped client arrived in the last Timeout, however long the
\* application took between two polls, except one that arrives in the very
\* unit in which the poll ends, after the socket was seen empty.
LiveClientKept ==
    [][ \A s \in subs :
            (\A t \in subs' : t.ep # s.ep) => asked[s.ep] \notin 1..Timeout ]_vars

\* A subscriber of a slot misses no number: whatever it got last is the
\* number before the slot's next one, across other clients' comings and
\* goings, changes of slots and close and open.
NoGaps ==
    \A s \in subs, slot \in Slots :
        /\ s.id.mode = "All" \/ (s.id.mode = "Slot" /\ s.id.slot = slot)
        /\ last[s.ep][slot] # None
        => (last[s.ep][slot] + 1) % CounterMod = counter[slot]

\* "If every client is gone, drop any held rumble" (Connection.cpp:209).
RumbleDropped ==
    where = "idle" /\ everSub /\ subs = {} => \A s \in Slots : rumble[s] = 0

\* A client that asks no more is dropped in the end, if the server runs.
SilentClientGoes ==
    \A c \in Clients :
        <>[](asked[c] > 0) => []<>(~open \/ \A s \in subs : s.ep # c)
=============================================================================
