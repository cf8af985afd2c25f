---------------------- MODULE CollaborationRoom_proofs ----------------------
(***************************************************************************)
(* Proofs about CollaborationRoom, for any finite set of sockets and any   *)
(* updates, rooms, failures and crashes: sessions edit the room sockets    *)
(* are given, its channel stays, and Redis loses nothing that it had.      *)
(*                                                                         *)
(* Rooms come one after the other: the last that was made is the only one  *)
(* that can be current, loaded or torn down, and a load may outlive the    *)
(* room it loads.  Everything else is said of that one room.               *)
(***************************************************************************)
EXTENDS CollaborationRoom, FiniteSetTheorems, TLAPS

\* There is one room at a time, the last that was made.
RoomsInv ==
    /\ current \in {None, made}
    /\ loading # None =>
        /\ loading.room = made
        /\ loading.phase = "get" => current = None /\ closing = None /\ room[made] = NoRoom
        /\ current = None => room[made].clients = 0
    /\ closing # None => closing.room = made /\ current = None
    /\ loading = None => \A s \in Socket : ~At(s, "loading")
    /\ \A i \in Incarnation : i > made => room[i] = NoRoom

\* Sessions are of rooms that were loaded, and no room counts more clients
\* than it has, although sessions of a room that has gone are counted down from the one that is current.
Loaded == {i \in Incarnation : i <= made /\ ~(i = made /\ Loading("get"))}
CountInv ==
    /\ \A s \in Socket : At(s, "attached") => socket[s].room \in Loaded
    /\ current # None => room[current].clients <= Cardinality(InRoom(current))

\* Unless a socket was refused, sessions, peers and the listener agree.
SessionInv ==
    ~refused =>
        /\ \A s \in Socket : At(s, "attached") => socket[s].room = current
        /\ current # None => room[current].clients = Cardinality(InRoom(current))
        /\ \A s \in Socket : s \in peers <=> At(s, "attached")
        /\ listener = IF peers = {} THEN None ELSE current

\* The room that is current is subscribed, or about to be.
ChannelInv ==
    ~Failed("subscribe") /\ current # None => subscribed \/ Loading("subscribe")

\* A room that may still be saved has all that Redis has, and all that was taken in;
\* once none is, Redis has it all.
Saved == IF saved = None THEN {} ELSE saved
Present == current # None \/ closing # None \/ (loading # None /\ loading.phase # "get")
SaveInv ==
    ~Failed("get") /\ ~Failed("save") /\ ~refused =>
        /\ Present => taken \subseteq room[made].doc /\ Saved \subseteq room[made].doc
        /\ current = None /\ (closing = None \/ closing.saved) => taken \subseteq Saved

IInv == TypeOK /\ RoomsInv /\ CountInv /\ SessionInv /\ ChannelInv /\ SaveInv

USE NameAssumption DEF Incarnation

-----------------------------------------------------------------------------
(***************************************************************************)
(* Sockets                                                                 *)
(***************************************************************************)
LEMMA InRoomFinite ==
    ASSUME NEW i
    PROVE  /\ InRoom(i) \in SUBSET Socket /\ IsFiniteSet(InRoom(i))
           /\ Cardinality(InRoom(i)) \in Nat /\ Cardinality(Socket) \in Nat
           /\ Cardinality(InRoom(i)) <= Cardinality(Socket)
<1>1. InRoom(i) \in SUBSET Socket
  BY DEF InRoom
<1> QED BY <1>1, SocketAssumption, FS_Subset, FS_CardinalityType

LEMMA WaitingFinite ==
    /\ Waiting \in SUBSET Socket /\ IsFiniteSet(Waiting)
    /\ Cardinality(Waiting) \in Nat /\ Cardinality(Socket) \in Nat
    /\ Cardinality(Waiting) <= Cardinality(Socket)
<1>1. Waiting \in SUBSET Socket
  BY DEF Waiting
<1> QED BY <1>1, SocketAssumption, FS_Subset, FS_CardinalityType

LEMMA EmptyTyped ==
    /\ NoRoom \in Room /\ NoRoom.doc = {} /\ NoRoom.clients = 0 /\ NoRoom.timer = FALSE
    /\ NoConnection \in Connection /\ NoConnection.pc = "closed" /\ NoConnection.room = None
<1>1. Cardinality(Socket) \in Nat
  BY SocketAssumption, FS_CardinalityType
<1> QED BY <1>1 DEF NoRoom, Room, NoConnection, Connection, SocketPc

\* Who is attached where, when S joins room i.
LEMMA Joins ==
    ASSUME TypeOK, NEW S \in SUBSET Socket, NEW i \in Incarnation, Attached(S, i),
           \A s \in S : ~At(s, "attached")
    PROVE  /\ socket' \in [Socket -> Connection]
           /\ peers' = peers \cup S /\ peers' \subseteq Socket
           /\ listener' = (IF listener = None /\ S # {} THEN i ELSE listener)
           /\ listener' \in Incarnation \cup {None}
           /\ \A s \in S : At(s, "attached")' /\ socket'[s].room = i
           /\ \A s \in Socket \ S : socket'[s] = socket[s]
           /\ InRoom(i)' = InRoom(i) \cup S /\ InRoom(i) \cap S = {}
<1>1. ASSUME NEW s \in S
      PROVE  /\ socket'[s] \in Connection /\ socket'[s].pc = "attached" /\ socket'[s].room = i
  <2> DEFINE c == [socket[s] EXCEPT !.pc = "attached", !.row = {}, !.room = i]
  <2>1. c \in Connection /\ c.pc = "attached" /\ c.room = i
    <3>1. socket[s] \in Connection /\ {} \in SUBSET Update
      BY DEF TypeOK
    <3> QED BY <3>1 DEF Connection, SocketPc
  <2>2. socket'[s] = c
    BY DEF Attached
  <2> QED BY <2>1, <2>2
<1>2. \A s \in Socket \ S : socket'[s] = socket[s] /\ socket[s] \in Connection
  BY DEF Attached, TypeOK
<1>3. socket' \in [Socket -> Connection]
  <2>1. DOMAIN socket' = Socket /\ socket' = [s \in Socket |-> socket'[s]]
    BY DEF Attached
  <2> QED BY <1>1, <1>2, <2>1
<1>4. InRoom(i)' = InRoom(i) \cup S
  BY <1>1, <1>2 DEF InRoom, At
<1>5. InRoom(i) \cap S = {}
  BY DEF InRoom
<1> QED BY <1>1, <1>2, <1>3, <1>4, <1>5 DEF Attached, TypeOK, At

LEMMA Closes ==
    ASSUME TypeOK, NEW S \in SUBSET Socket, Close1008(S)
    PROVE  /\ socket' \in [Socket -> Connection]
           /\ \A s \in S : socket'[s] = NoConnection
           /\ \A s \in Socket \ S : socket'[s] = socket[s]
BY EmptyTyped DEF TypeOK, Close1008

\* A step that opens or closes nobody's session.
SessionsKept ==
    /\ socket' \in [Socket -> Connection]
    /\ \A s \in Socket : At(s, "attached") \/ At(s, "attached")' => socket'[s].room = socket[s].room
    /\ \A s \in Socket : At(s, "attached")' <=> At(s, "attached")

LEMMA SessionsCounted ==
    ASSUME SessionsKept, NEW i
    PROVE  InRoom(i)' = InRoom(i)
BY DEF SessionsKept, InRoom

LEMMA CountsKept ==
    ASSUME IInv, SessionsKept, UNCHANGED <<made, current, peers, listener, refused>>,
           \A i \in Incarnation : room'[i].clients = room[i].clients,
           Loading("get")' => Loading("get")
    PROVE  CountInv' /\ SessionInv'
<1>1. InRoom(current)' = InRoom(current)
  BY DEF InRoom, SessionsKept
<1>2. Loaded \subseteq Loaded'
  BY DEF Loaded
<1>3. current # None => room'[current].clients = room[current].clients
  BY DEF IInv, TypeOK
<1>4. CountInv'
  BY <1>1, <1>2, <1>3 DEF IInv, CountInv, SessionsKept
<1>5. SessionInv'
  BY <1>1, <1>3 DEF IInv, SessionInv, SessionsKept
<1> QED BY <1>4, <1>5

-----------------------------------------------------------------------------
(***************************************************************************)
(* Opening                                                                 *)
(***************************************************************************)
Spendings == [failed : SUBSET Fault, early : 0..MaxEarly, crashes : 0..MaxCrashes]

\* What failed stays on record.
LEMMA FailsKept ==
    ASSUME TypeOK, NEW what \in Fault, Fails(what)
    PROVE  /\ spent' \in Spendings
           /\ Failed(what)' /\ \A f \in Fault : Failed(f) => Failed(f)'
<1>1. spent' = [spent EXCEPT !.failed = @ \cup {what}] /\ spent \in Spendings
  BY DEF Fails, TypeOK, Spendings
<1> QED BY <1>1 DEF Spendings, Failed

LEMMA SameSpent ==
    ASSUME TypeOK, UNCHANGED spent
    PROVE  spent' \in Spendings /\ \A f \in Fault : Failed(f) => Failed(f)'
BY DEF TypeOK, Spendings, Failed

\* Steps that touch no session and no room.
LEMMA BesideKept ==
    ASSUME IInv, SessionsKept, \A s \in Socket : At(s, "loading")' => At(s, "loading"),
           UNCHANGED <<memory, peers, listener, durable, taken, refused>>,
           spent' \in Spendings, \A f \in Fault : Failed(f) => Failed(f)'
    PROVE  IInv'
<1> USE DEF memory, durable
<1>1. TypeOK'
  BY DEF IInv, TypeOK, SessionsKept, Spendings
<1>2. RoomsInv'
  BY DEF IInv, RoomsInv
<1>3. CountInv'
  <2>1. \A s \in Socket : At(s, "attached")' => socket'[s].room \in Loaded'
    BY DEF IInv, CountInv, SessionsKept, Loaded, Loading
  <2>2. InRoom(current)' = InRoom(current)
    BY DEF InRoom, SessionsKept
  <2> QED BY <2>1, <2>2 DEF IInv, CountInv
<1>4. SessionInv'
  <2>1. InRoom(current)' = InRoom(current)
    BY DEF InRoom, SessionsKept
  <2> QED BY <2>1 DEF IInv, SessionInv, SessionsKept
<1>5. ChannelInv'
  BY DEF IInv, ChannelInv, Loading, Fault
<1>6. SaveInv'
  BY DEF IInv, SaveInv, Present, Saved, Fault
<1> QED BY <1>1, <1>2, <1>3, <1>4, <1>5, <1>6 DEF IInv

LEMMA OpenKept ==
    ASSUME IInv, NEW s \in Socket, Open(s) \/ Authorize(s) \/ CloseEarly(s)
    PROVE  IInv'
<1>t. TypeOK /\ socket[s] \in Connection
  BY DEF IInv, TypeOK
<1>1. CASE Open(s)
  <2> DEFINE c == [NoConnection EXCEPT !.pc = "authorize"]
  <2>1. c \in Connection /\ c.pc = "authorize"
    BY EmptyTyped DEF Connection, SocketPc
  <2>2. socket' = [socket EXCEPT ![s] = c] /\ socket[s].pc = "closed"
    BY <1>1 DEF Open, At
  <2> HIDE DEF c
  <2>3. SessionsKept /\ \A r \in Socket : At(r, "loading")' => At(r, "loading")
    BY <1>t, <2>1, <2>2 DEF SessionsKept, At, TypeOK
  <2> QED BY <1>1, <1>t, <2>3, SameSpent, BesideKept DEF Open, ghost
<1>2. CASE Authorize(s)
  <2> DEFINE c == [socket[s] EXCEPT !.pc = "acquire", !.row = stored]
  <2>1. c \in Connection /\ c.pc = "acquire"
    <3>1. stored \in SUBSET Update
      BY <1>t DEF TypeOK
    <3> QED BY <1>t, <3>1 DEF Connection, SocketPc
  <2>2. socket' = [socket EXCEPT ![s] = c] /\ socket[s].pc = "authorize"
    BY <1>2, <1>t DEF Authorize, At, TypeOK
  <2> HIDE DEF c
  <2>3. SessionsKept /\ \A r \in Socket : At(r, "loading")' => At(r, "loading")
    BY <1>t, <2>1, <2>2 DEF SessionsKept, At, TypeOK
  <2> QED BY <1>2, <1>t, <2>3, SameSpent, BesideKept DEF Authorize, ghost
<1>3. CASE CloseEarly(s)
  <2> DEFINE c == [socket[s] EXCEPT !.gone = TRUE]
  <2>1. c \in Connection /\ c.pc = socket[s].pc /\ c.room = socket[s].room
    BY <1>t DEF Connection
  <2>2. socket' = [socket EXCEPT ![s] = c]
    BY <1>3, <1>t DEF CloseEarly, TypeOK
  <2> HIDE DEF c
  <2>3. SessionsKept /\ \A r \in Socket : At(r, "loading")' => At(r, "loading")
    BY <1>t, <2>1, <2>2 DEF SessionsKept, At, TypeOK
  <2>4. spent' \in Spendings /\ spent'.failed = spent.failed
    <3>1. spent \in Spendings /\ spent.early + 1 \in 0..MaxEarly
      BY <1>3, <1>t, BoundsAssumption DEF CloseEarly, TypeOK, Spendings
    <3>2. spent' = [spent EXCEPT !.early = spent.early + 1]
      BY <1>3 DEF CloseEarly
    <3> QED BY <3>1, <3>2 DEF Spendings
  <2> QED BY <1>3, <2>3, <2>4, BesideKept DEF CloseEarly, Failed
<1> QED BY <1>1, <1>2, <1>3

\* A socket that waits for a load.
LEMMA WaitsKept ==
    ASSUME TypeOK, NEW s \in Socket, At(s, "acquire"),
           socket' = [socket EXCEPT ![s].pc = "loading", ![s].row = {}]
    PROVE  SessionsKept
<1> DEFINE c == [socket[s] EXCEPT !.pc = "loading", !.row = {}]
<1>1. c \in Connection /\ c.pc = "loading"
  <2>1. socket[s] \in Connection
    BY DEF TypeOK
  <2> QED BY <2>1 DEF Connection, SocketPc
<1>2. socket' = [socket EXCEPT ![s] = c]
  BY DEF TypeOK
<1> HIDE DEF c
<1> QED BY <1>1, <1>2 DEF SessionsKept, At, TypeOK

LEMMA AcquireKept ==
    ASSUME IInv, NEW s \in Socket, Acquire(s)
    PROVE  IInv'
<1> USE DEF memory, durable, ghost
<1>t. TypeOK /\ RoomsInv /\ At(s, "acquire") /\ closing = None
  BY DEF IInv, Acquire
<1>c. UNCHANGED <<current, closing, subscribed, saved, stored, writing, taken, refused, spent>>
  BY DEF Acquire
<1>1. CASE /\ current # None
           /\ room' = [room EXCEPT ![current].clients = @ + 1]
           /\ Attached({s}, current)
           /\ UNCHANGED <<made, loading>>
  <2>1. current = made /\ current \in Incarnation
    BY <1>1, <1>t DEF RoomsInv, TypeOK
  <2>2. PICK i \in Incarnation : i = current
    BY <2>1
  <2>3. TypeOK /\ {s} \in SUBSET Socket /\ Attached({s}, i) /\ \A r \in {s} : ~At(r, "attached")
    BY <1>1, <1>t, <2>2 DEF At
  <2>4. /\ socket' \in [Socket -> Connection]
        /\ peers' = peers \cup {s} /\ peers' \subseteq Socket
        /\ listener' = (IF listener = None THEN i ELSE listener)
        /\ listener' \in Incarnation \cup {None}
        /\ At(s, "attached")' /\ socket'[s].room = i
        /\ \A r \in Socket \ {s} : socket'[r] = socket[r]
        /\ InRoom(i)' = InRoom(i) \cup {s} /\ s \notin InRoom(i)
    <3>1. /\ socket' \in [Socket -> Connection]
          /\ peers' = peers \cup {s} /\ peers' \subseteq Socket
          /\ listener' = (IF listener = None /\ {s} # {} THEN i ELSE listener)
          /\ listener' \in Incarnation \cup {None}
          /\ \A r \in {s} : At(r, "attached")' /\ socket'[r].room = i
          /\ \A r \in Socket \ {s} : socket'[r] = socket[r]
          /\ InRoom(i)' = InRoom(i) \cup {s} /\ InRoom(i) \cap {s} = {}
      BY <2>3, Joins, Zenon
    <3> QED BY <3>1
  <2>5. /\ Cardinality(InRoom(i)') = Cardinality(InRoom(i)) + 1
        /\ Cardinality(InRoom(i)) \in Nat /\ Cardinality(Socket) \in Nat
        /\ Cardinality(InRoom(i)') <= Cardinality(Socket)
    <3>1. InRoom(i)' \in SUBSET Socket
      BY DEF InRoom
    <3> QED BY <2>4, <3>1, InRoomFinite, FS_AddElement, FS_Subset, SocketAssumption
  <2> DEFINE r == [room[i] EXCEPT !.clients = @ + 1]
  <2>6. /\ r \in Room /\ r.doc = room[i].doc /\ r.clients = room[i].clients + 1
        /\ room[i].clients <= Cardinality(InRoom(i)) /\ room[i].clients \in Nat
    <3>1. room[i] \in Room
      BY <1>t DEF TypeOK
    <3>2. room[i].clients <= Cardinality(InRoom(i))
      BY <2>2, <1>1 DEF IInv, CountInv
    <3>3. room[i].clients \in Nat /\ room[i].clients + 1 \in 0..Cardinality(Socket)
      BY <3>1, <3>2, <2>5 DEF Room
    <3> QED BY <3>1, <3>2, <3>3 DEF Room
  <2>7. room' = [room EXCEPT ![i] = r]
    BY <1>1, <1>t, <2>2 DEF TypeOK
  <2> HIDE DEF r
  <2>8. room' \in [Incarnation -> Room] /\ room'[i] = r /\ \A j \in Incarnation \ {i} : room'[j] = room[j]
    BY <2>6, <2>7, <1>t DEF TypeOK
  <2>9. TypeOK'
    BY <1>1, <1>c, <1>t, <2>4, <2>8 DEF TypeOK
  <2>10. RoomsInv'
    BY <1>1, <1>c, <1>t, <2>1, <2>2, <2>4, <2>8 DEF RoomsInv, At, TypeOK
  <2>11. CountInv'
    <3>1. \A q \in Socket : At(q, "attached")' => socket'[q].room \in Loaded'
      <4>1. Loaded' = Loaded
        BY <1>1 DEF Loaded, Loading
      <4>2. i \in Loaded
        BY <1>1, <1>t, <2>1, <2>2 DEF Loaded, Loading, RoomsInv
      <4> QED BY <2>4, <4>1, <4>2 DEF IInv, CountInv, At
    <3>2. current' = i /\ room'[i].clients <= Cardinality(InRoom(i)')
      BY <1>c, <2>2, <2>5, <2>6, <2>8
    <3> QED BY <3>1, <3>2 DEF CountInv, InRoom
  <2>12. SessionInv'
    <3>1. SUFFICES ASSUME ~refused PROVE SessionInv'
      BY <1>c DEF SessionInv
    <3>2. /\ \A q \in Socket : At(q, "attached") => socket[q].room = i
          /\ room[i].clients = Cardinality(InRoom(i))
          /\ \A q \in Socket : q \in peers <=> At(q, "attached")
          /\ listener = IF peers = {} THEN None ELSE i
      BY <2>2, <3>1, <1>1 DEF IInv, SessionInv
    <3>3. /\ \A q \in Socket : At(q, "attached")' => socket'[q].room = i
          /\ \A q \in Socket : q \in peers' <=> At(q, "attached")'
          /\ listener' = i /\ peers' # {}
      BY <2>4, <3>2 DEF At
    <3>4. current' = i /\ room'[i].clients = Cardinality(InRoom(i)')
      BY <1>c, <2>2, <2>5, <2>6, <2>8, <3>2
    <3> QED BY <3>3, <3>4 DEF SessionInv, InRoom
  <2>13. ChannelInv'
    BY <1>1, <1>c DEF IInv, ChannelInv, Failed, Loading
  <2>14. SaveInv'
    BY <1>1, <1>c, <2>1, <2>2, <2>6, <2>8 DEF IInv, SaveInv, Present, Saved, Failed
  <2> QED BY <2>9, <2>10, <2>11, <2>12, <2>13, <2>14 DEF IInv
<1>2. CASE /\ current = None /\ loading # None
           /\ socket' = [socket EXCEPT ![s].pc = "loading", ![s].row = {}]
           /\ UNCHANGED <<room, made, loading, peers, listener>>
  <2>1. SessionsKept
    BY <1>2, <1>t, WaitsKept
  <2>2. TypeOK'
    BY <1>2, <1>c, <1>t, <2>1 DEF TypeOK, SessionsKept
  <2>3. RoomsInv'
    BY <1>2, <1>c, <1>t DEF RoomsInv
  <2>4. CountInv' /\ SessionInv'
    BY <1>2, <1>c, <2>1, CountsKept DEF Loading
  <2>5. ChannelInv' /\ SaveInv'
    BY <1>2, <1>c DEF IInv, ChannelInv, SaveInv, Present, Saved, Failed, Loading
  <2> QED BY <2>2, <2>3, <2>4, <2>5 DEF IInv
<1>3. CASE /\ current = None /\ loading = None /\ made < MaxRooms
           /\ made' = made + 1
           /\ loading' = [room |-> made + 1, phase |-> "get", row |-> socket[s].row, found |-> FALSE]
           /\ socket' = [socket EXCEPT ![s].pc = "loading", ![s].row = {}]
           /\ UNCHANGED <<room, peers, listener>>
  <2>1. SessionsKept
    BY <1>3, <1>t, WaitsKept
  <2>2. made \in Nat /\ made + 1 \in Incarnation /\ made + 1 > made /\ made + 1 \in 0..MaxRooms
    BY <1>3, <1>t, RoomsAssumption DEF TypeOK
  <2>3. loading' \in Load /\ loading' # None /\ loading'.room = made + 1 /\ loading'.phase = "get"
    <3>1. socket[s].row \in SUBSET Update
      BY <1>t DEF TypeOK, Connection
    <3>2. loading' \in Load /\ loading'.room = made + 1 /\ loading'.phase = "get"
      BY <1>3, <2>2, <3>1 DEF Load, LoadPhase
    <3> QED BY <3>2, RowAssumption
  <2>4. TypeOK'
    BY <1>3, <1>c, <1>t, <2>1, <2>2, <2>3 DEF TypeOK, SessionsKept
  <2>5. room[made + 1] = NoRoom
    BY <1>t, <2>2 DEF RoomsInv
  <2>6. RoomsInv'
    BY <1>3, <1>c, <1>t, <2>2, <2>3, <2>5, EmptyTyped DEF RoomsInv
  <2>7. CountInv' /\ SessionInv'
    <3>1. InRoom(current)' = InRoom(current)
      BY <1>c, <2>1 DEF InRoom, SessionsKept
    <3>2. Loaded \subseteq Loaded'
      BY <1>3, <2>2 DEF Loaded, Loading
    <3> QED BY <1>3, <1>c, <2>1, <3>1, <3>2 DEF IInv, CountInv, SessionInv, SessionsKept
  <2>8. ChannelInv' /\ SaveInv'
    BY <1>3, <1>c, <1>t, <2>3 DEF IInv, ChannelInv, SaveInv, Present, Saved, Failed
  <2> QED BY <2>4, <2>6, <2>7, <2>8 DEF IInv
<1> QED BY <1>1, <1>2, <1>3 DEF Acquire

-----------------------------------------------------------------------------
(***************************************************************************)
(* Loading                                                                 *)
(***************************************************************************)
LEMMA NobodyAttached ==
    ASSUME IInv, current = None, ~refused
    PROVE  (\A s \in Socket : ~At(s, "attached")) /\ peers = {} /\ listener = None
<1>1. \A s \in Socket : ~At(s, "attached")
  BY DEF IInv, SessionInv, CountInv, Loaded
<1> QED BY <1>1 DEF IInv, SessionInv, TypeOK

\* The room that is loaded is the last made.
LEMMA TheRoom ==
    ASSUME IInv, loading # None
    PROVE  /\ made \in Incarnation /\ loading.room = made /\ loading \in Load
           /\ room[made] \in Room /\ room[made].doc \in SUBSET Update
           /\ room[made].clients \in 0..Cardinality(Socket)
<1>1. loading \in Load /\ loading.room = made /\ loading.room \in Incarnation
  BY DEF IInv, TypeOK, RoomsInv, Load
<1>2. room[made] \in Room
  BY <1>1 DEF IInv, TypeOK
<1> QED BY <1>1, <1>2 DEF Room

LEMMA LoadGetKept ==
    ASSUME IInv, LoadGet
    PROVE  IInv'
<1> USE DEF session, durable
<1>t. TypeOK /\ RoomsInv /\ loading # None /\ loading.phase = "get"
  BY DEF IInv, LoadGet, Loading
<1>u. UNCHANGED <<made, closing, session, durable, taken, refused>> /\ current' = made
  BY <1>t DEF LoadGet, RoomsInv
<1>m. /\ made \in Incarnation /\ loading.room = made /\ loading \in Load /\ made # None
      /\ current = None /\ closing = None /\ room[made] = NoRoom
  BY <1>t, TheRoom DEF RoomsInv
<1>1. PICK i \in Incarnation, D \in SUBSET Update, g \in BOOLEAN :
        /\ i = made
        /\ room' = [room EXCEPT ![i].doc = D]
        /\ loading' = [loading EXCEPT !.phase = "subscribe", !.found = g]
        /\ Failed("get")' \/ Saved \subseteq D
        /\ spent' \in Spendings /\ \A f \in Fault : Failed(f) => Failed(f)'
  <2>1. CASE /\ saved # None
             /\ room' = [room EXCEPT ![loading.room].doc = saved]
             /\ loading' = [loading EXCEPT !.phase = "subscribe", !.found = TRUE]
             /\ UNCHANGED spent
    <3>1. saved \in SUBSET Update
      BY <1>t, <2>1 DEF TypeOK
    <3>2. spent' \in Spendings /\ \A f \in Fault : Failed(f) => Failed(f)'
      BY <1>t, <2>1, SameSpent
    <3> QED BY <1>m, <2>1, <3>1, <3>2 DEF Saved
  <2>2. CASE /\ ((saved = None /\ UNCHANGED spent) \/ Fails("get"))
             /\ room' = [room EXCEPT ![loading.room].doc = loading.row]
             /\ loading' = [loading EXCEPT !.phase = "subscribe"]
    <3>1. loading.row \in SUBSET Update /\ loading.found \in BOOLEAN
      BY <1>m DEF Load
    <3>2. loading' = [loading EXCEPT !.phase = "subscribe", !.found = loading.found]
      BY <1>m, <2>2 DEF Load
    <3>3. spent' \in Spendings /\ \A f \in Fault : Failed(f) => Failed(f)'
      BY <1>t, <2>2, SameSpent, FailsKept DEF Fault
    <3>4. saved # None => Failed("get")'
      BY <1>t, <2>2, FailsKept DEF Fault
    <3> QED BY <1>m, <2>2, <3>1, <3>2, <3>3, <3>4 DEF Saved
  <2> QED BY <2>1, <2>2 DEF LoadGet
<1>2. loading' \in Load /\ loading'.room = made /\ loading'.phase = "subscribe" /\ loading' # None
  <2>1. loading' \in Load /\ loading'.room = made /\ loading'.phase = "subscribe"
    BY <1>1, <1>m DEF Load, LoadPhase
  <2> QED BY <2>1, RowAssumption
<1> DEFINE r == [room[i] EXCEPT !.doc = D]
<1>3. r \in Room /\ r.doc = D /\ r.clients = 0
  BY <1>1, <1>m, EmptyTyped DEF Room
<1>4. room' = [room EXCEPT ![i] = r]
  BY <1>1, <1>t DEF TypeOK
<1> HIDE DEF r
<1>5. room' \in [Incarnation -> Room] /\ room'[i] = r /\ \A j \in Incarnation \ {i} : room'[j] = room[j]
  BY <1>3, <1>4, <1>t DEF TypeOK
<1>6. TypeOK'
  BY <1>t, <1>u, <1>m, <1>1, <1>2, <1>5 DEF TypeOK, Spendings
<1>7. RoomsInv'
  BY <1>t, <1>u, <1>m, <1>1, <1>2, <1>5 DEF RoomsInv, At, TypeOK
<1>8. CountInv'
  <2>1. \A s \in Socket : At(s, "attached")' => socket'[s].room \in Loaded'
    BY <1>u, <1>2, <1>m DEF IInv, CountInv, Loaded, Loading, At
  <2>2. room'[current'].clients = 0
    BY <1>u, <1>1, <1>3, <1>5
  <2>3. Cardinality(InRoom(current)') \in Nat
    <3>1. InRoom(current)' \in SUBSET Socket
      BY DEF InRoom
    <3> QED BY <3>1, SocketAssumption, FS_Subset, FS_CardinalityType
  <2> QED BY <2>1, <2>2, <2>3 DEF CountInv
<1>9. SessionInv'
  <2>1. SUFFICES ASSUME ~refused PROVE SessionInv'
    BY <1>u DEF SessionInv
  <2>2. (\A s \in Socket : ~At(s, "attached")) /\ peers = {} /\ listener = None
    BY <1>m, <2>1, NobodyAttached
  <2>3. \A s \in Socket : ~At(s, "attached")'
    BY <1>u, <2>2 DEF At
  <2>4. InRoom(current)' = {}
    BY <2>3 DEF InRoom
  <2> QED BY <1>u, <1>1, <1>3, <1>5, <2>2, <2>3, <2>4, FS_EmptySet DEF SessionInv
<1>10. ChannelInv'
  BY <1>2 DEF ChannelInv, Loading
<1>11. SaveInv'
  <2>1. SUFFICES ASSUME ~Failed("get")', ~Failed("save")', ~refused PROVE SaveInv'
    BY <1>u DEF SaveInv
  <2>2. ~Failed("get") /\ ~Failed("save")
    BY <1>1, <2>1 DEF Fault
  <2>3. taken \subseteq Saved
    BY <1>m, <2>1, <2>2 DEF IInv, SaveInv
  <2>4. Saved \subseteq D
    BY <1>1, <2>1
  <2>5. room'[made].doc = D /\ Saved' = Saved
    BY <1>u, <1>1, <1>3, <1>5 DEF Saved
  <2> QED BY <1>u, <1>m, <2>3, <2>4, <2>5 DEF SaveInv
<1> QED BY <1>6, <1>7, <1>8, <1>9, <1>10, <1>11 DEF IInv


\* What the load of a room leaves as it was, or puts right, whoever is let in.
LoadEnds ==
    /\ loading' = None
    /\ room' \in [Incarnation -> Room] /\ \A i \in Incarnation : room'[i].doc = room[i].doc
    /\ socket' \in [Socket -> Connection] /\ peers' \subseteq Socket
    /\ listener' \in Incarnation \cup {None}
    /\ refused' \in BOOLEAN /\ (refused => refused')
    /\ RoomsInv' /\ CountInv' /\ SessionInv'

LEMMA RejectKept ==
    ASSUME IInv, loading # None, loading.phase # "get", Reject, UNCHANGED <<made, current, closing>>
    PROVE  LoadEnds
<1>t. TypeOK /\ RoomsInv
  BY DEF IInv
<1>1. Waiting \in SUBSET Socket /\ \A s \in Waiting : At(s, "loading")
  BY DEF Waiting
<1>2. /\ socket' \in [Socket -> Connection]
      /\ \A s \in Waiting : socket'[s] = NoConnection
      /\ \A s \in Socket \ Waiting : socket'[s] = socket[s]
  BY <1>t, <1>1, Closes DEF Reject
<1>3. /\ \A s \in Socket : At(s, "attached")' <=> At(s, "attached")
      /\ \A s \in Socket : At(s, "attached") => socket'[s].room = socket[s].room
      /\ \A s \in Socket : ~At(s, "loading")'
  BY <1>1, <1>2, EmptyTyped DEF At, Waiting
<1>4. SessionsKept
  BY <1>2, <1>3 DEF SessionsKept
<1>5. CountInv' /\ SessionInv'
  BY <1>4, CountsKept DEF Reject, Loading
<1>6. RoomsInv'
  BY <1>t, <1>3 DEF Reject, RoomsInv
<1> QED BY <1>t, <1>2, <1>5, <1>6 DEF LoadEnds, Reject, TypeOK

LEMMA AdmitKept ==
    ASSUME IInv, loading # None, loading.phase # "get", Admit, UNCHANGED <<made, current, closing>>
    PROVE  LoadEnds
<1>t. TypeOK /\ RoomsInv
  BY DEF IInv
<1>m. /\ made \in Incarnation /\ loading.room = made /\ made # None /\ room[made] \in Room
      /\ room[made].clients \in 0..Cardinality(Socket)
      /\ current \in {None, made} /\ (current = None => room[made].clients = 0)
      /\ (closing # None => closing.room = made /\ current = None)
  BY <1>t, TheRoom DEF RoomsInv
<1>1. PICK i \in Incarnation : i = made
  BY <1>m
<1>2. Waiting \in SUBSET Socket /\ \A s \in Waiting : At(s, "loading") /\ ~At(s, "attached")
  BY DEF Waiting, At
<1>3. /\ IsFiniteSet(InRoom(i)) /\ IsFiniteSet(Waiting)
      /\ Cardinality(InRoom(i)) \in Nat /\ Cardinality(Waiting) \in Nat /\ Cardinality(Socket) \in Nat
      /\ Cardinality(InRoom(i) \cup Waiting) = Cardinality(InRoom(i)) + Cardinality(Waiting)
      /\ Cardinality(InRoom(i) \cup Waiting) <= Cardinality(Socket)
  <2>1. InRoom(i) \cap Waiting = {} /\ InRoom(i) \cup Waiting \in SUBSET Socket
    BY <1>2 DEF InRoom
  <2>2. Cardinality({}) = 0
    BY FS_EmptySet
  <2>3. /\ IsFiniteSet(InRoom(i)) /\ IsFiniteSet(Waiting)
        /\ Cardinality(InRoom(i)) \in Nat /\ Cardinality(Waiting) \in Nat /\ Cardinality(Socket) \in Nat
    BY InRoomFinite, WaitingFinite
  <2>4. Cardinality(InRoom(i) \cup Waiting)
          = Cardinality(InRoom(i)) + Cardinality(Waiting) - Cardinality(InRoom(i) \cap Waiting)
    BY <2>3, FS_Union
  <2>5. Cardinality(InRoom(i) \cup Waiting) <= Cardinality(Socket)
    BY <2>1, SocketAssumption, FS_Subset
  <2>6. Cardinality(InRoom(i) \cap Waiting) = 0
    BY <2>1, <2>2
  <2>7. Cardinality(InRoom(i) \cup Waiting) = Cardinality(InRoom(i)) + Cardinality(Waiting)
    BY <2>3, <2>4, <2>6
  <2> QED BY <2>3, <2>5, <2>7
<1>4. room[i].clients \in Nat /\ room[i].clients <= Cardinality(InRoom(i))
  <2>1. current = made => room[i].clients <= Cardinality(InRoom(i))
    BY <1>1, <1>m DEF IInv, CountInv
  <2> QED BY <2>1, <1>1, <1>m, <1>3
<1> DEFINE r == [room[i] EXCEPT !.clients = @ + Cardinality(Waiting)]
<1>5. r \in Room /\ r.doc = room[i].doc /\ r.clients = room[i].clients + Cardinality(Waiting)
  <2>1. room[i].clients + Cardinality(Waiting) \in 0..Cardinality(Socket)
    BY <1>3, <1>4
  <2> QED BY <2>1, <1>1, <1>m DEF Room
<1>6. room' = [room EXCEPT ![i] = r] /\ loading' = None
  BY <1>t, <1>1, <1>m DEF Admit, TypeOK
<1> HIDE DEF r
<1>7. room' \in [Incarnation -> Room] /\ room'[i] = r /\ \A j \in Incarnation \ {i} : room'[j] = room[j]
  BY <1>5, <1>6, <1>t DEF TypeOK
<1>r. ASSUME \A s \in Socket : ~At(s, "loading")'
      PROVE  RoomsInv'
  BY <1>r, <1>t, <1>m, <1>1, <1>6, <1>7 DEF RoomsInv, TypeOK
<1>l. i \in Loaded /\ Loaded' = Loaded
  BY <1>1, <1>m, <1>6 DEF Loaded, Loading
<1>8. CASE (current = i \/ listener # None) /\ Attached(Waiting, i) /\ UNCHANGED refused
  <2>1. /\ socket' \in [Socket -> Connection]
        /\ peers' = peers \cup Waiting /\ peers' \subseteq Socket
        /\ listener' = (IF listener = None /\ Waiting # {} THEN i ELSE listener)
        /\ listener' \in Incarnation \cup {None}
        /\ \A s \in Waiting : At(s, "attached")' /\ socket'[s].room = i
        /\ \A s \in Socket \ Waiting : socket'[s] = socket[s]
        /\ InRoom(i)' = InRoom(i) \cup Waiting
    BY <1>8, <1>t, <1>2, Joins, Zenon
  <2>2. \A s \in Socket : ~At(s, "loading")'
    BY <2>1 DEF At, Waiting
  <2>3. CountInv'
    <3>1. \A s \in Socket : At(s, "attached")' => socket'[s].room \in Loaded'
      BY <2>1, <1>l DEF IInv, CountInv, At
    <3>2. room'[i].clients <= Cardinality(InRoom(i)')
      BY <1>3, <1>4, <1>5, <1>7, <2>1
    <3>3. current' = current /\ current \in {None, i}
      BY <1>1, <1>m
    <3> QED BY <3>1, <3>2, <3>3 DEF CountInv, InRoom
  <2>4. SessionInv'
    <3>1. SUFFICES ASSUME ~refused PROVE SessionInv'
      BY <1>8 DEF SessionInv
    <3>2. current = i
      BY <3>1, <1>8, <1>1, <1>m, NobodyAttached
    <3>3. /\ \A s \in Socket : At(s, "attached") => socket[s].room = i
          /\ room[i].clients = Cardinality(InRoom(i))
          /\ \A s \in Socket : s \in peers <=> At(s, "attached")
          /\ listener = IF peers = {} THEN None ELSE i
      BY <3>1, <3>2, <1>1, <1>m DEF IInv, SessionInv
    <3>4. /\ \A s \in Socket : At(s, "attached")' => socket'[s].room = i
          /\ \A s \in Socket : s \in peers' <=> At(s, "attached")'
      BY <2>1, <3>3 DEF At
    <3>5. listener' = IF peers' = {} THEN None ELSE i
      BY <2>1, <3>3, <1>1, <1>m
    <3>6. room'[i].clients = Cardinality(InRoom(i)')
      BY <1>3, <1>5, <1>7, <2>1, <3>3
    <3>7. current' = i
      BY <3>2
    <3> QED BY <3>4, <3>5, <3>6, <3>7 DEF SessionInv, InRoom
  <2> QED BY <1>5, <1>6, <1>7, <1>8, <1>r, <1>t, <2>1, <2>2, <2>3, <2>4 DEF LoadEnds, TypeOK
<1>9. CASE /\ current # i /\ listener = None
           /\ Close1008(Waiting)
           /\ peers' = peers \cup Waiting
           /\ refused' = (refused \/ Waiting # {})
           /\ UNCHANGED listener
  <2>1. /\ socket' \in [Socket -> Connection]
        /\ \A s \in Waiting : socket'[s] = NoConnection
        /\ \A s \in Socket \ Waiting : socket'[s] = socket[s]
    BY <1>9, <1>t, <1>2, Closes
  <2>2. (\A s \in Socket : ~At(s, "loading")') /\ \A s \in Socket : At(s, "attached")' => At(s, "attached") /\ socket'[s] = socket[s]
    BY <2>1, EmptyTyped DEF At, Waiting
  <2>3. current' = None
    BY <1>1, <1>m, <1>9
  <2>4. CountInv'
    BY <1>l, <2>2, <2>3 DEF IInv, CountInv
  <2>5. SessionInv'
    <3>1. SUFFICES ASSUME ~refused, Waiting = {} PROVE SessionInv'
      BY <1>9 DEF SessionInv
    <3>2. (\A s \in Socket : ~At(s, "attached")) /\ peers = {}
      BY <2>3, <3>1, NobodyAttached
    <3> QED BY <1>9, <2>2, <2>3, <3>1, <3>2 DEF SessionInv
  <2> QED BY <1>2, <1>5, <1>6, <1>7, <1>9, <1>r, <1>t, <2>1, <2>2, <2>4, <2>5 DEF LoadEnds, TypeOK
<1> QED BY <1>1, <1>8, <1>9, <1>m DEF Admit


LEMMA LoadSubscribeKept ==
    ASSUME IInv, LoadSubscribe
    PROVE  IInv'
<1>t. TypeOK /\ RoomsInv /\ loading # None /\ loading.phase = "subscribe"
  BY DEF IInv, LoadSubscribe, Loading
<1>u. UNCHANGED <<made, current, closing, saved, stored, writing, taken>>
  BY DEF LoadSubscribe
<1>m. made \in Incarnation /\ loading.room = made /\ loading \in Load
  BY <1>t, TheRoom
<1>1. ASSUME LoadEnds, subscribed' \in BOOLEAN, spent' \in Spendings,
             \A f \in Fault : Failed(f) => Failed(f)', subscribed' \/ Failed("subscribe")'
      PROVE  IInv'
  <2>1. TypeOK'
    BY <1>1, <1>t, <1>u DEF TypeOK, LoadEnds, Spendings
  <2>2. ChannelInv'
    BY <1>1 DEF ChannelInv
  <2>3. SaveInv'
    BY <1>1, <1>t, <1>u, <1>m DEF IInv, SaveInv, LoadEnds, Present, Saved, Fault
  <2> QED BY <1>1, <2>1, <2>2, <2>3 DEF IInv, LoadEnds
<1>2. CASE loading.found /\ Admit /\ subscribed' = TRUE /\ UNCHANGED spent
  <2>1. LoadEnds
    BY <1>2, <1>t, <1>u, AdmitKept
  <2> QED BY <1>1, <1>2, <1>t, <2>1, SameSpent
<1>3. CASE Reject /\ Fails("subscribe") /\ UNCHANGED subscribed
  <2>1. LoadEnds
    BY <1>3, <1>t, <1>u, RejectKept
  <2> QED BY <1>1, <1>3, <1>t, <2>1, FailsKept DEF TypeOK, Fault
<1>4. CASE /\ loading' = [loading EXCEPT !.phase = "save"]
           /\ subscribed' = TRUE /\ UNCHANGED <<room, session, refused, spent>>
  <2>1. loading' \in Load /\ loading'.room = made /\ loading'.phase = "save" /\ loading' # None
    <3>1. loading' \in Load /\ loading'.room = made /\ loading'.phase = "save"
      BY <1>4, <1>m DEF Load, LoadPhase
    <3> QED BY <3>1, RowAssumption
  <2>2. TypeOK'
    BY <1>4, <1>t, <1>u, <2>1 DEF TypeOK, session
  <2>3. RoomsInv'
    BY <1>4, <1>t, <1>u, <2>1 DEF RoomsInv, session, At
  <2>4. SessionsKept
    BY <1>4, <1>t DEF SessionsKept, session, TypeOK, At
  <2>5. CountInv' /\ SessionInv'
    BY <1>4, <1>u, <2>1, <2>4, CountsKept DEF session, Loading
  <2>6. ChannelInv'
    BY <1>4 DEF ChannelInv
  <2>7. SaveInv'
    BY <1>4, <1>t, <1>u, <2>1 DEF IInv, SaveInv, Present, Saved, Failed
  <2> QED BY <2>2, <2>3, <2>5, <2>6, <2>7 DEF IInv
<1> QED BY <1>2, <1>3, <1>4 DEF LoadSubscribe

LEMMA LoadSaveKept ==
    ASSUME IInv, LoadSave
    PROVE  IInv'
<1>t. TypeOK /\ RoomsInv /\ loading # None /\ loading.phase = "save"
  BY DEF IInv, LoadSave, Loading
<1>u. UNCHANGED <<made, current, closing, subscribed, stored, writing, taken>>
  BY DEF LoadSave
<1>m. made \in Incarnation /\ loading.room = made /\ room[made].doc \in SUBSET Update
  BY <1>t, TheRoom
<1>c. ChannelInv' \/ ~(\A f \in Fault : Failed(f) => Failed(f)')
  BY <1>t, <1>u DEF IInv, ChannelInv, Loading, Fault
<1>1. CASE saved' = room[loading.room].doc /\ Admit /\ UNCHANGED spent
  <2>1. LoadEnds
    BY <1>1, <1>t, <1>u, AdmitKept
  <2>2. saved' \in SUBSET Update /\ saved' # None /\ Saved' = room[made].doc
    BY <1>1, <1>m, RowAssumption DEF Saved
  <2>3. TypeOK'
    BY <1>1, <1>t, <1>u, <2>1, <2>2 DEF TypeOK, LoadEnds
  <2>4. ChannelInv'
    BY <1>c, <1>1, <1>t, SameSpent
  <2>5. SaveInv'
    <3>1. SUFFICES ASSUME ~Failed("get"), ~Failed("save"), ~refused PROVE SaveInv'
      BY <1>1, <2>1 DEF SaveInv, LoadEnds, Failed
    <3>2. taken \subseteq room[made].doc
      BY <1>t, <3>1 DEF IInv, SaveInv, Present
    <3> QED BY <3>2, <1>u, <1>m, <2>1, <2>2 DEF SaveInv, LoadEnds
  <2> QED BY <2>1, <2>3, <2>4, <2>5 DEF IInv, LoadEnds
<1>2. CASE Reject /\ Fails("save") /\ UNCHANGED saved
  <2>1. LoadEnds
    BY <1>2, <1>t, <1>u, RejectKept
  <2>2. Failed("save")' /\ spent' \in Spendings /\ \A f \in Fault : Failed(f) => Failed(f)'
    BY <1>2, <1>t, FailsKept DEF Fault
  <2>3. TypeOK'
    BY <1>2, <1>t, <1>u, <2>1, <2>2 DEF TypeOK, LoadEnds, Spendings
  <2>4. SaveInv'
    BY <2>2 DEF SaveInv
  <2> QED BY <1>c, <2>1, <2>2, <2>3, <2>4 DEF IInv, LoadEnds
<1> QED BY <1>1, <1>2 DEF LoadSave

-----------------------------------------------------------------------------
(***************************************************************************)
(* Editing, saving and persisting                                          *)
(***************************************************************************)
LEMMA SameSessions ==
    ASSUME TypeOK, UNCHANGED socket
    PROVE  SessionsKept
BY DEF TypeOK, SessionsKept, At

LEMMA PersistFireKept ==
    ASSUME IInv, NEW i \in Incarnation, PersistFire(i)
    PROVE  IInv'
<1> USE DEF session, ghost
<1>t. TypeOK /\ RoomsInv
  BY DEF IInv
<1>u. UNCHANGED <<made, current, loading, closing, session, subscribed, saved, stored, ghost>>
  BY DEF PersistFire
<1> DEFINE r == [room[i] EXCEPT !.timer = FALSE]
<1>1. /\ r \in Room /\ r.doc = room[i].doc /\ r.clients = room[i].clients
      /\ room[i].doc \in SUBSET Update /\ room[i] # NoRoom
  <2>1. room[i] \in Room /\ room[i].timer = TRUE
    BY <1>t DEF PersistFire, TypeOK, Room
  <2> QED BY <2>1, EmptyTyped DEF Room
<1>2. room' = [room EXCEPT ![i] = r]
  BY <1>t DEF PersistFire, TypeOK
<1>3. writing' = writing \cup {room[i].doc}
  BY DEF PersistFire
<1> HIDE DEF r
<1>4. room' \in [Incarnation -> Room] /\ room'[i] = r /\ \A j \in Incarnation \ {i} : room'[j] = room[j]
  BY <1>1, <1>2, <1>t DEF TypeOK
<1>5. TypeOK'
  BY <1>t, <1>u, <1>1, <1>3, <1>4 DEF TypeOK
<1>6. RoomsInv'
  BY <1>t, <1>u, <1>1, <1>4 DEF RoomsInv, At, TypeOK, Load
<1>7. CountInv' /\ SessionInv'
  BY <1>t, <1>u, <1>1, <1>4, SameSessions, CountsKept DEF Loading
<1>8. ChannelInv'
  BY <1>u DEF IInv, ChannelInv, Failed, Loading
<1>9. SaveInv'
  <2>1. Present => made \in Incarnation
    BY <1>t DEF Present, RoomsInv, TypeOK, Load, Teardown
  <2> QED BY <1>u, <1>1, <1>4, <2>1 DEF IInv, SaveInv, Present, Saved, Failed
<1> QED BY <1>5, <1>6, <1>7, <1>8, <1>9 DEF IInv

LEMMA PersistDoneKept ==
    ASSUME IInv, NEW snapshot \in writing, PersistDone(snapshot)
    PROVE  IInv'
<1> USE DEF memory, session
<1>t. TypeOK
  BY DEF IInv
<1>1. spent' \in Spendings /\ \A f \in Fault : Failed(f) => Failed(f)'
  BY <1>t, SameSpent, FailsKept DEF PersistDone, Fault
<1>u. UNCHANGED <<memory, session, subscribed, saved, taken, refused>>
  BY DEF PersistDone
<1>2. TypeOK'
  BY <1>t, <1>u, <1>1 DEF PersistDone, TypeOK, Spendings
<1>3. RoomsInv'
  BY <1>u DEF IInv, RoomsInv, At
<1>4. CountInv' /\ SessionInv'
  BY <1>t, <1>u, SameSessions, CountsKept DEF Loading
<1>5. ChannelInv' /\ SaveInv'
  BY <1>u, <1>1 DEF IInv, ChannelInv, SaveInv, Present, Saved, Loading, Fault
<1> QED BY <1>2, <1>3, <1>4, <1>5 DEF IInv

LEMMA SaveTickKept ==
    ASSUME IInv, SaveTick
    PROVE  IInv'
<1> USE DEF memory, session, ghost
<1>t. TypeOK /\ RoomsInv
  BY DEF IInv
<1>u. UNCHANGED <<memory, session, subscribed, stored, writing, ghost>>
  BY DEF SaveTick
<1>1. current = made /\ current # None /\ made \in Incarnation
  BY <1>t DEF SaveTick, RoomsInv, TypeOK
<1>2. saved' = room[made].doc /\ saved' \in SUBSET Update /\ saved' # None /\ Saved' = room[made].doc
  <2>1. saved' = room[made].doc /\ room[made] \in Room
    BY <1>t, <1>1 DEF SaveTick, TypeOK
  <2>2. saved' \in SUBSET Update
    BY <2>1 DEF Room
  <2> QED BY <2>1, <2>2, RowAssumption DEF Saved
<1>3. TypeOK'
  BY <1>t, <1>u, <1>2 DEF TypeOK
<1>4. RoomsInv'
  BY <1>u DEF IInv, RoomsInv, At
<1>5. CountInv' /\ SessionInv'
  BY <1>t, <1>u, SameSessions, CountsKept DEF Loading
<1>6. ChannelInv'
  BY <1>u DEF IInv, ChannelInv, Failed, Loading
<1>7. SaveInv'
  BY <1>u, <1>1, <1>2 DEF IInv, SaveInv, Present, Failed
<1> QED BY <1>3, <1>4, <1>5, <1>6, <1>7 DEF IInv

LEMMA EditKept ==
    ASSUME IInv, NEW s \in Socket, NEW u \in Update, Edit(s, u)
    PROVE  IInv'
<1> USE DEF session, durable
<1>t. TypeOK /\ RoomsInv /\ At(s, "attached") /\ taken' = taken \cup {u}
  BY DEF IInv, Edit
<1>u. UNCHANGED <<made, current, loading, closing, session, durable, refused, spent>>
  BY DEF Edit
<1>1. PICK i \in Loaded : i = socket[s].room
  BY <1>t DEF IInv, CountInv
<1>i. i \in Incarnation /\ i <= made /\ ~(i = made /\ Loading("get"))
  BY DEF Loaded
<1> DEFINE r == [room[i] EXCEPT !.doc = @ \cup {u}, !.timer = TRUE]
<1>2. r \in Room /\ r.doc = room[i].doc \cup {u} /\ r.clients = room[i].clients
  <2>1. room[i] \in Room
    BY <1>t, <1>i DEF TypeOK
  <2> QED BY <2>1 DEF Room
<1>3. room' = [room EXCEPT ![i] = r]
  BY <1>t, <1>1 DEF Edit, TypeOK
<1> HIDE DEF r
<1>4. room' \in [Incarnation -> Room] /\ room'[i] = r /\ \A j \in Incarnation \ {i} : room'[j] = room[j]
  BY <1>i, <1>2, <1>3, <1>t DEF TypeOK
<1>5. TypeOK'
  BY <1>t, <1>u, <1>4 DEF TypeOK
<1>6. RoomsInv'
  <2>1. \A j \in Incarnation : j > made => room'[j] = NoRoom
    BY <1>t, <1>i, <1>4 DEF RoomsInv, TypeOK
  <2>2. loading # None => made \in Incarnation /\ (loading.phase = "get" => i # made)
    BY <1>i, TheRoom DEF Loading
  <2>3. loading # None => /\ loading.phase = "get" => room'[made] = NoRoom
                          /\ current = None => room'[made].clients = 0
    BY <1>t, <1>i, <1>2, <1>4, <2>2 DEF RoomsInv
  <2> QED BY <1>t, <1>u, <2>1, <2>3 DEF RoomsInv, At
<1>7. CountInv' /\ SessionInv'
  BY <1>t, <1>u, <1>2, <1>4, SameSessions, CountsKept DEF Loading
<1>8. ChannelInv'
  BY <1>u DEF IInv, ChannelInv, Failed, Loading
<1>9. SaveInv'
  <2>1. SUFFICES ASSUME ~Failed("get"), ~Failed("save"), ~refused PROVE SaveInv'
    BY <1>u DEF SaveInv, Failed
  <2>2. i = current /\ current # None /\ current = made
    BY <1>1, <1>i, <1>t, <2>1 DEF IInv, SessionInv, RoomsInv
  <2>3. taken \subseteq room[made].doc /\ Saved \subseteq room[made].doc
    BY <2>1, <2>2 DEF IInv, SaveInv, Present
  <2> QED BY <1>t, <1>u, <1>2, <1>4, <2>2, <2>3 DEF SaveInv, Saved
<1> QED BY <1>5, <1>6, <1>7, <1>8, <1>9 DEF IInv


-----------------------------------------------------------------------------
(***************************************************************************)
(* Closing                                                                 *)
(***************************************************************************)
LEMMA CloseKept ==
    ASSUME IInv, NEW s \in Socket, Close(s)
    PROVE  IInv'
<1> USE DEF durable, ghost
<1>t. TypeOK /\ RoomsInv /\ At(s, "attached")
  BY DEF IInv, Close
<1>u. UNCHANGED <<made, loading, durable, ghost>> /\ peers' = peers \ {s}
  BY DEF Close
<1>l. listener' = (IF peers' = {} THEN None ELSE listener) /\ listener' \in Incarnation \cup {None}
  BY <1>t DEF Close, TypeOK
<1>1. /\ socket' \in [Socket -> Connection] /\ socket'[s] = NoConnection
      /\ \A q \in Socket \ {s} : socket'[q] = socket[q]
  BY <1>t, EmptyTyped DEF Close, TypeOK
<1>2. /\ \A q \in Socket : At(q, "attached")' => q # s /\ At(q, "attached") /\ socket'[q] = socket[q]
      /\ \A q \in Socket \ {s} : At(q, "attached") => At(q, "attached")'
      /\ ~At(s, "attached")'
      /\ \A q \in Socket : At(q, "loading")' => At(q, "loading")
  BY <1>1, EmptyTyped DEF At
<1>3. \A i \in Incarnation : InRoom(i)' = InRoom(i) \ {s}
  BY <1>1, <1>2 DEF InRoom
<1>4. Loaded' = Loaded
  BY <1>u DEF Loaded, Loading
<1>5. \A q \in Socket : At(q, "attached")' => socket'[q].room \in Loaded'
  BY <1>2, <1>4 DEF IInv, CountInv
<1>6. ASSUME ~refused
      PROVE  /\ current # None
             /\ \A q \in Socket : At(q, "attached") => socket[q].room = current
             /\ room[current].clients = Cardinality(InRoom(current)) /\ s \in InRoom(current)
             /\ \A q \in Socket : q \in peers <=> At(q, "attached")
             /\ listener = current
  <2>1. \A q \in Socket : At(q, "attached") => socket[q].room = current
    BY <1>6 DEF IInv, SessionInv
  <2>2. current # None
    BY <1>t, <2>1 DEF IInv, CountInv, Loaded
  <2> QED BY <1>6, <1>t, <2>1, <2>2 DEF IInv, SessionInv, InRoom
<1>7. CASE current = None /\ UNCHANGED <<room, current, closing>>
  <2>1. TypeOK' /\ RoomsInv'
    BY <1>7, <1>t, <1>u, <1>l, <1>1, <1>2 DEF TypeOK, RoomsInv
  <2>2. CountInv' /\ SessionInv'
    BY <1>5, <1>6, <1>7, <1>u DEF CountInv, SessionInv
  <2>3. ChannelInv' /\ SaveInv'
    BY <1>7, <1>u DEF IInv, ChannelInv, SaveInv, Present, Saved, Failed, Loading
  <2> QED BY <2>1, <2>2, <2>3 DEF IInv
<1>8. ASSUME current # None
      PROVE  /\ current = made /\ current \in Incarnation /\ closing = None /\ ~Loading("get")
             /\ room[current] \in Room /\ room[current].clients \in 0..Cardinality(Socket)
             /\ Cardinality(Socket) \in Nat /\ IsFiniteSet(InRoom(current))
             /\ Cardinality(InRoom(current)) \in Nat
  <2>1. current = made /\ current \in Incarnation /\ closing = None /\ ~Loading("get")
    BY <1>8, <1>t DEF RoomsInv, TypeOK, Loading
  <2>2. room[current] \in Room
    BY <2>1, <1>t DEF TypeOK
  <2> QED BY <2>1, <2>2, InRoomFinite DEF Room
<1>9. CASE /\ current # None /\ room[current].clients > 1
           /\ room' = [room EXCEPT ![current].clients = @ - 1]
           /\ UNCHANGED <<current, closing>>
  <2>1. PICK i \in Incarnation : i = current
    BY <1>8, <1>9
  <2> DEFINE r == [room[i] EXCEPT !.clients = @ - 1]
  <2>2. r \in Room /\ r.doc = room[i].doc /\ r.clients = room[i].clients - 1
    <3>1. room[i].clients - 1 \in 0..Cardinality(Socket)
      BY <1>8, <1>9, <2>1
    <3> QED BY <1>8, <1>9, <2>1, <3>1 DEF Room
  <2>3. room' = [room EXCEPT ![i] = r]
    BY <1>9, <1>t, <2>1 DEF TypeOK
  <2> HIDE DEF r
  <2>4. room' \in [Incarnation -> Room] /\ room'[i] = r /\ \A j \in Incarnation \ {i} : room'[j] = room[j]
    BY <1>t, <2>2, <2>3 DEF TypeOK
  <2>5. TypeOK'
    BY <1>9, <1>t, <1>u, <1>l, <1>1, <2>4 DEF TypeOK
  <2>6. RoomsInv'
    BY <1>8, <1>9, <1>t, <1>u, <1>2, <2>1, <2>4 DEF RoomsInv, Loading
  <2>7. InRoom(i)' = InRoom(i) \ {s}
    BY <1>3
  <2>8. /\ Cardinality(InRoom(i) \ {s}) \in Nat
        /\ Cardinality(InRoom(i) \ {s}) >= Cardinality(InRoom(i)) - 1
        /\ s \in InRoom(i) => Cardinality(InRoom(i) \ {s}) = Cardinality(InRoom(i)) - 1
    <3>1. IsFiniteSet(InRoom(i)) /\ Cardinality(InRoom(i)) \in Nat
      BY InRoomFinite
    <3>2. /\ IsFiniteSet(InRoom(i) \ {s})
          /\ Cardinality(InRoom(i) \ {s})
               = IF s \in InRoom(i) THEN Cardinality(InRoom(i)) - 1 ELSE Cardinality(InRoom(i))
      BY <3>1, FS_RemoveElement
    <3>3. Cardinality(InRoom(i) \ {s}) \in Nat
      BY <3>2, FS_CardinalityType
    <3> QED BY <3>1, <3>2, <3>3
  <2>9. CountInv'
    <3>1. room[i].clients <= Cardinality(InRoom(i)) /\ room[i].clients \in Nat
      BY <1>8, <1>9, <2>1 DEF IInv, CountInv
    <3>2. current' = i /\ room'[i].clients <= Cardinality(InRoom(i)')
      BY <1>8, <1>9, <2>1, <2>2, <2>4, <2>7, <2>8, <3>1
    <3> QED BY <1>5, <3>2 DEF CountInv, InRoom
  <2>10. SessionInv'
    <3>1. SUFFICES ASSUME ~refused PROVE SessionInv'
      BY <1>u DEF SessionInv
    <3>2. room'[i].clients = Cardinality(InRoom(i)') /\ Cardinality(InRoom(i)') # 0
      BY <1>6, <1>8, <1>9, <2>1, <2>2, <2>4, <2>7, <2>8, <3>1
    <3>3. InRoom(i)' # {}
      BY <3>2, FS_EmptySet
    <3>4. PICK q \in Socket : At(q, "attached")'
      BY <3>3 DEF InRoom
    <3>5. peers' # {}
      BY <1>2, <1>6, <1>u, <3>1, <3>4
    <3>6. \A p \in Socket : p \in peers' <=> At(p, "attached")'
      BY <1>2, <1>6, <1>u, <3>1
    <3>7. \A p \in Socket : At(p, "attached")' => socket'[p].room = i
      BY <1>2, <1>6, <2>1, <3>1
    <3>8. listener' = i /\ current' = i
      BY <1>6, <1>9, <1>l, <2>1, <3>1, <3>5
    <3> QED BY <3>2, <3>5, <3>6, <3>7, <3>8 DEF SessionInv, InRoom
  <2>11. ChannelInv'
    BY <1>9, <1>u DEF IInv, ChannelInv, Failed, Loading
  <2>12. SaveInv'
    BY <1>8, <1>9, <1>u, <2>1, <2>2, <2>4 DEF IInv, SaveInv, Present, Saved, Failed
  <2> QED BY <2>5, <2>6, <2>9, <2>10, <2>11, <2>12 DEF IInv
<1>10. CASE /\ current # None /\ room[current].clients <= 1
            /\ room' = [room EXCEPT ![current].clients = 0, ![current].timer = FALSE]
            /\ current' = None
            /\ closing' = [room |-> current, saved |-> FALSE, persisted |-> FALSE]
  <2>1. PICK i \in Incarnation : i = current
    BY <1>8, <1>10
  <2> DEFINE r == [room[i] EXCEPT !.clients = 0, !.timer = FALSE]
  <2>2. r \in Room /\ r.doc = room[i].doc /\ r.clients = 0
    <3>1. room[i] \in Room /\ 0 \in 0..Cardinality(Socket)
      BY <1>8, <1>10, <2>1
    <3> QED BY <3>1 DEF Room
  <2>3. room' = [room EXCEPT ![i] = r]
    BY <1>10, <1>t, <2>1 DEF TypeOK
  <2> HIDE DEF r
  <2>4. room' \in [Incarnation -> Room] /\ room'[i] = r /\ \A j \in Incarnation \ {i} : room'[j] = room[j]
    BY <1>t, <2>2, <2>3 DEF TypeOK
  <2>5. closing' \in Teardown /\ closing' # None /\ closing'.room = i /\ closing'.saved = FALSE
    <3>1. closing' \in Teardown /\ closing'.room = i /\ closing'.saved = FALSE
      BY <1>10, <2>1 DEF Teardown
    <3> QED BY <3>1, RowAssumption
  <2>6. TypeOK'
    BY <1>10, <1>t, <1>u, <1>l, <1>1, <2>4, <2>5 DEF TypeOK
  <2>7. RoomsInv'
    BY <1>8, <1>10, <1>t, <1>u, <1>2, <2>1, <2>2, <2>4, <2>5 DEF RoomsInv, Loading
  <2>8. CountInv'
    BY <1>5, <1>10 DEF CountInv
  <2>9. SessionInv'
    <3>1. SUFFICES ASSUME ~refused PROVE SessionInv'
      BY <1>u DEF SessionInv
    <3>2. s \in InRoom(i) /\ IsFiniteSet(InRoom(i)) /\ Cardinality(InRoom(i)) <= 1
      BY <1>6, <1>8, <1>10, <2>1, <3>1
    <3>3. /\ IsFiniteSet(InRoom(i) \ {s}) /\ Cardinality(InRoom(i) \ {s}) \in Nat
          /\ Cardinality(InRoom(i) \ {s}) = Cardinality(InRoom(i)) - 1
      BY <1>8, <1>10, <2>1, <3>2, FS_RemoveElement, FS_CardinalityType
    <3>4. Cardinality(InRoom(i) \ {s}) = 0
      BY <1>8, <1>10, <2>1, <3>2, <3>3
    <3>5. InRoom(i) \ {s} = {}
      BY <3>3, <3>4, FS_EmptySet
    <3>6. \A q \in Socket : ~At(q, "attached")'
      BY <1>2, <1>6, <2>1, <3>1, <3>5 DEF InRoom
    <3>7. peers' = {}
      BY <1>2, <1>6, <1>t, <1>u, <3>1, <3>6 DEF TypeOK
    <3> QED BY <1>10, <1>l, <3>6, <3>7 DEF SessionInv
  <2>10. ChannelInv'
    BY <1>10 DEF ChannelInv
  <2>11. SaveInv'
    BY <1>8, <1>10, <1>u, <2>1, <2>2, <2>4, <2>5 DEF IInv, SaveInv, Present, Saved, Failed
  <2> QED BY <2>6, <2>7, <2>8, <2>9, <2>10, <2>11 DEF IInv
<1> QED BY <1>7, <1>9, <1>10 DEF Close, Release


\* The room that is torn down is the last made.
LEMMA TheOldRoom ==
    ASSUME IInv, closing # None
    PROVE  /\ made \in Incarnation /\ closing.room = made /\ closing \in Teardown /\ current = None
           /\ room[made].doc \in SUBSET Update
<1>1. closing \in Teardown /\ closing.room = made /\ closing.room \in Incarnation /\ current = None
  BY DEF IInv, TypeOK, RoomsInv, Teardown
<1>2. room[made] \in Room
  BY <1>1 DEF IInv, TypeOK
<1> QED BY <1>1, <1>2 DEF Room

LEMMA TearSaveKept ==
    ASSUME IInv, TearSave
    PROVE  IInv'
<1> USE DEF session
<1>t. TypeOK /\ RoomsInv /\ closing # None
  BY DEF IInv, TearSave
<1>u. UNCHANGED <<room, made, current, loading, session, subscribed, stored, writing, taken, refused>>
  BY DEF TearSave
<1>1. made \in Incarnation /\ closing.room = made /\ current = None /\ room[made].doc \in SUBSET Update
  BY <1>t, TheOldRoom
<1>2. closing' \in Teardown /\ closing'.room = made /\ closing' # None
  <2>1. closing' \in Teardown /\ closing'.room = made
    BY <1>t, TheOldRoom DEF TearSave, Teardown
  <2> QED BY <2>1, RowAssumption
<1>3. /\ \/ saved' = room[made].doc
         \/ Failed("save")' /\ UNCHANGED saved
      /\ spent' \in Spendings /\ \A f \in Fault : Failed(f) => Failed(f)'
  BY <1>t, <1>1, SameSpent, FailsKept DEF TearSave, Fault
<1>4. TypeOK'
  BY <1>t, <1>u, <1>1, <1>2, <1>3 DEF TypeOK, Spendings
<1>5. RoomsInv'
  BY <1>t, <1>u, <1>1, <1>2 DEF RoomsInv, At
<1>6. CountInv' /\ SessionInv'
  BY <1>t, <1>u, SameSessions, CountsKept DEF Loading
<1>7. ChannelInv'
  BY <1>u, <1>1 DEF ChannelInv
<1>8. SaveInv'
  <2>1. SUFFICES ASSUME ~Failed("get"), ~Failed("save"), ~Failed("save")', ~refused PROVE SaveInv'
    BY <1>u, <1>3 DEF SaveInv, Fault
  <2>2. taken \subseteq room[made].doc
    BY <1>t, <2>1 DEF IInv, SaveInv, Present
  <2>3. Saved' = room[made].doc
    <3>1. saved' = room[made].doc /\ saved' # None
      BY <1>1, <1>3, <2>1, RowAssumption
    <3> QED BY <3>1 DEF Saved
  <2> QED BY <1>u, <2>2, <2>3 DEF SaveInv
<1> QED BY <1>4, <1>5, <1>6, <1>7, <1>8 DEF IInv

LEMMA TearPersistKept ==
    ASSUME IInv, TearPersist
    PROVE  IInv'
<1> USE DEF session
<1>t. TypeOK /\ RoomsInv /\ closing # None
  BY DEF IInv, TearPersist
<1>u. UNCHANGED <<room, made, current, loading, session, subscribed, saved, writing, taken, refused>>
  BY DEF TearPersist
<1>1. made \in Incarnation /\ closing.room = made /\ current = None /\ room[made].doc \in SUBSET Update
  BY <1>t, TheOldRoom
<1>2. closing' \in Teardown /\ closing'.room = made /\ closing'.saved = closing.saved /\ closing' # None
  <2>1. closing' \in Teardown /\ closing'.room = made /\ closing'.saved = closing.saved
    BY <1>t, TheOldRoom DEF TearPersist, Teardown
  <2> QED BY <2>1, RowAssumption
<1>3. /\ stored' \in SUBSET Update
      /\ spent' \in Spendings /\ \A f \in Fault : Failed(f) => Failed(f)'
  BY <1>t, <1>1, SameSpent, FailsKept DEF TearPersist, Fault, TypeOK
<1>4. TypeOK'
  BY <1>t, <1>u, <1>2, <1>3 DEF TypeOK, Spendings
<1>5. RoomsInv'
  BY <1>t, <1>u, <1>1, <1>2 DEF RoomsInv, At
<1>6. CountInv' /\ SessionInv'
  BY <1>t, <1>u, SameSessions, CountsKept DEF Loading
<1>7. ChannelInv'
  BY <1>u, <1>1 DEF ChannelInv
<1>8. SaveInv'
  BY <1>t, <1>u, <1>2, <1>3 DEF IInv, SaveInv, Present, Saved, Fault
<1> QED BY <1>4, <1>5, <1>6, <1>7, <1>8 DEF IInv

LEMMA TearEndKept ==
    ASSUME IInv, TearEnd
    PROVE  IInv'
<1>t. TypeOK /\ RoomsInv /\ closing # None /\ closing.saved
  BY DEF IInv, TearEnd
<1>u. /\ UNCHANGED <<room, made, current, loading, peers, listener, saved, stored, writing, taken, refused>>
      /\ closing' = None
  BY DEF TearEnd
<1>1. current = None
  BY <1>t, TheOldRoom
<1>2. /\ SessionsKept /\ \A s \in Socket : At(s, "loading")' => At(s, "loading")
      /\ subscribed' \in BOOLEAN
      /\ spent' \in Spendings /\ \A f \in Fault : Failed(f) => Failed(f)'
  <2>1. CASE subscribed' = FALSE /\ UNCHANGED <<socket, spent>>
    BY <1>t, <2>1, SameSessions, SameSpent DEF At
  <2>2. CASE /\ Fails("unsubscribe")
             /\ Close1008({s \in Socket : At(s, "acquire")})
             /\ UNCHANGED subscribed
    <3>1. /\ socket' \in [Socket -> Connection]
          /\ \A s \in {q \in Socket : At(q, "acquire")} : socket'[s] = NoConnection
          /\ \A s \in Socket \ {q \in Socket : At(q, "acquire")} : socket'[s] = socket[s]
      BY <1>t, <2>2, Closes
    <3>2. SessionsKept /\ \A s \in Socket : At(s, "loading")' => At(s, "loading")
      BY <3>1, EmptyTyped DEF SessionsKept, At
    <3> QED BY <1>t, <2>2, <3>2, FailsKept DEF Fault, TypeOK
  <2> QED BY <2>1, <2>2 DEF TearEnd
<1>3. TypeOK'
  BY <1>t, <1>u, <1>2 DEF TypeOK, SessionsKept, Spendings
<1>4. RoomsInv'
  BY <1>t, <1>u, <1>2 DEF RoomsInv
<1>5. CountInv' /\ SessionInv'
  BY <1>u, <1>2, CountsKept DEF Loading
<1>6. ChannelInv'
  BY <1>u, <1>1 DEF ChannelInv
<1>7. SaveInv'
  BY <1>t, <1>u, <1>1, <1>2 DEF IInv, SaveInv, Present, Saved, Fault
<1> QED BY <1>3, <1>4, <1>5, <1>6, <1>7 DEF IInv

-----------------------------------------------------------------------------
(***************************************************************************)
(* The process                                                             *)
(***************************************************************************)
\* Nothing in memory, and Redis has all that was taken.
Empty ==
    /\ room = [i \in Incarnation |-> NoRoom]
    /\ current = None /\ loading = None /\ closing = None
    /\ socket = [s \in Socket |-> NoConnection]
    /\ peers = {} /\ listener = None
    /\ taken \subseteq Saved

LEMMA EmptyKept == Empty /\ TypeOK => IInv
<1> SUFFICES ASSUME Empty, TypeOK PROVE IInv
  OBVIOUS
<1>1. \A s \in Socket : socket[s].pc = "closed"
  BY EmptyTyped DEF Empty
<1>2. RoomsInv
  BY <1>1 DEF Empty, RoomsInv, At
<1>3. CountInv /\ SessionInv
  BY <1>1 DEF Empty, CountInv, SessionInv, At
<1>4. ChannelInv /\ SaveInv
  BY DEF Empty, ChannelInv, SaveInv, Present
<1> QED BY <1>2, <1>3, <1>4 DEF IInv

LEMMA EmptyRooms ==
    /\ [i \in Incarnation |-> NoRoom] \in [Incarnation -> Room]
    /\ [s \in Socket |-> NoConnection] \in [Socket -> Connection]
BY EmptyTyped

LEMMA InitKept ==
    ASSUME Init
    PROVE  IInv
<1>1. TypeOK
  <2>1. 0 \in 0..MaxRooms /\ 0 \in 0..MaxEarly /\ 0 \in 0..MaxCrashes
    BY RoomsAssumption, BoundsAssumption
  <2>2. spent \in [failed : SUBSET Fault, early : 0..MaxEarly, crashes : 0..MaxCrashes]
    BY <2>1 DEF Init
  <2>3. room \in [Incarnation -> Room] /\ socket \in [Socket -> Connection]
    BY EmptyRooms DEF Init
  <2> QED BY <2>1, <2>2, <2>3 DEF Init, TypeOK
<1>2. Empty
  BY DEF Init, Empty, Saved
<1> QED BY <1>1, <1>2, EmptyKept

LEMMA CrashKept ==
    ASSUME IInv, Crash
    PROVE  IInv'
<1>1. TypeOK
  BY DEF IInv
<1>2. spent' \in Spendings
  <2>1. spent \in Spendings /\ spent.crashes + 1 \in 0..MaxCrashes
    BY <1>1, BoundsAssumption DEF Crash, TypeOK, Spendings
  <2>2. spent' = [spent EXCEPT !.crashes = spent.crashes + 1]
    BY DEF Crash
  <2> QED BY <2>1, <2>2 DEF Spendings
<1>3. TypeOK'
  BY <1>1, <1>2, EmptyRooms DEF Crash, TypeOK, Spendings
<1>4. Empty'
  BY DEF Crash, Empty, Saved
<1> QED BY <1>3, <1>4, EmptyKept, PTL

LEMMA StutterKept ==
    ASSUME IInv, UNCHANGED vars
    PROVE  IInv'
<1> USE DEF vars, memory, session, durable, ghost
<1>t. TypeOK
  BY DEF IInv
<1>1. SessionsKept
  BY <1>t, SameSessions
<1>2. spent' \in Spendings /\ \A f \in Fault : Failed(f) => Failed(f)'
  BY <1>t, SameSpent
<1> QED BY <1>1, <1>2, BesideKept DEF At

LEMMA NextKept ==
    ASSUME IInv, [Next]_vars
    PROVE  IInv'
<1>1. ASSUME NEW s \in Socket, OpenStep(s) PROVE IInv'
  BY <1>1, OpenKept, AcquireKept DEF OpenStep
<1>2. ASSUME NEW s \in Socket, ClientStep(s) PROVE IInv'
  BY <1>2, OpenKept, CloseKept, EditKept DEF ClientStep
<1>3. CASE LoadStep
  BY <1>3, LoadGetKept, LoadSubscribeKept, LoadSaveKept DEF LoadStep
<1>4. CASE RoomStep
  BY <1>4, SaveTickKept, PersistFireKept DEF RoomStep
<1>5. CASE PersistStep
  BY <1>5, PersistDoneKept DEF PersistStep
<1>6. CASE TearStep
  BY <1>6, TearSaveKept, TearPersistKept, TearEndKept DEF TearStep
<1>7. CASE Crash
  BY <1>7, CrashKept
<1>8. CASE UNCHANGED vars
  BY <1>8, StutterKept
<1> QED BY <1>1, <1>2, <1>3, <1>4, <1>5, <1>6, <1>7, <1>8 DEF Next

\* The inductive invariant holds of every behaviour.
THEOREM Inductive == Spec => []IInv
<1>1. Init => IInv
  BY InitKept
<1>2. IInv /\ [Next]_vars => IInv'
  BY NextKept
<1> QED BY <1>1, <1>2, PTL DEF Spec


\* Every variable has its type, whatever closes early, fails or crashes.
THEOREM TypeCorrect == Spec => []TypeOK
BY Inductive, PTL DEF IInv

\* Sessions edit the room sockets are given and its count is theirs, for any number
\* of sockets that open, close and reload it (acquireYjsRoom, releaseYjsRoom).
THEOREM LiveCorrect == Spec => []AttachedIsLive
<1>1. IInv => AttachedIsLive
  BY DEF IInv, SessionInv, AttachedIsLive
<1> QED BY <1>1, Inductive, PTL

\* A room with sessions stays subscribed through every teardown before it
\* (unsubscribe waits in acquireYjsRoom's closingRooms).
THEOREM SubscribedCorrect == Spec => []LiveIsSubscribed
<1>1. IInv => LiveIsSubscribed
  BY DEF IInv, ChannelInv, LiveIsSubscribed
<1> QED BY <1>1, Inductive, PTL

\* Updates of a session are broadcast by the listener of its own room, and it is a
\* peer that hears the others (subscribeYjsRoom).
THEOREM HeardCorrect == Spec => []Heard
<1>1. ASSUME IInv, ~refused, NEW s \in Socket, At(s, "attached")
      PROVE  s \in peers /\ listener = socket[s].room
  BY <1>1 DEF IInv, SessionInv
<1>2. IInv => Heard
  BY <1>1 DEF Heard
<1> QED BY <1>2, Inductive, PTL

\* With no room in memory Redis has every update that was taken in, after any number
\* of rooms and crashes, if no read or save of the state failed (loadRoom, teardownRoom).
THEOREM WholeCorrect == Spec => []SavedIsWhole
<1>1. IInv => SavedIsWhole
  BY DEF IInv, SaveInv, SavedIsWhole, Saved
<1> QED BY <1>1, Inductive, PTL

\* Only three steps write what Redis keeps, each from the last room made.
LEMMA SavesTheRoom ==
    ASSUME IInv, Next
    PROVE  \/ saved' = saved
           \/ Present /\ saved' = room[made].doc
<1>1. ASSUME NEW s \in Socket, OpenStep(s) \/ ClientStep(s)
      PROVE  saved' = saved
  BY <1>1 DEF OpenStep, ClientStep, Open, Authorize, Acquire, Close, CloseEarly, Edit, durable
<1>2. CASE LoadStep
  <2>1. CASE LoadGet \/ LoadSubscribe
    BY <2>1 DEF LoadGet, LoadSubscribe, durable
  <2>2. CASE LoadSave
    <3>1. loading # None /\ loading.phase = "save" /\ loading.room = made
      BY <2>2, TheRoom DEF LoadSave, Loading
    <3> QED BY <2>2, <3>1 DEF LoadSave, Present
  <2> QED BY <1>2, <2>1, <2>2 DEF LoadStep
<1>3. CASE RoomStep
  <2>1. CASE SaveTick
    BY <2>1 DEF SaveTick, Present, IInv, RoomsInv
  <2>2. CASE \E i \in Incarnation : PersistFire(i)
    BY <2>2 DEF PersistFire
  <2> QED BY <1>3, <2>1, <2>2 DEF RoomStep
<1>4. CASE PersistStep
  BY <1>4 DEF PersistStep, PersistDone
<1>5. CASE TearStep
  <2>1. CASE TearSave
    BY <2>1, TheOldRoom DEF TearSave, Present
  <2>2. CASE TearPersist \/ TearEnd
    BY <2>2 DEF TearPersist, TearEnd
  <2> QED BY <1>5, <2>1, <2>2 DEF TearStep
<1>6. CASE Crash
  BY <1>6 DEF Crash
<1> QED BY <1>1, <1>2, <1>3, <1>4, <1>5, <1>6 DEF Next

\* No save loses an update Redis had, over teardowns, reloads and crashes, if no read
\* or save of the state failed before.
THEOREM GrowsCorrect == Spec => SavedGrows
<1>1. ASSUME IInv, [Next]_vars
      PROVE  [~Failed("get") /\ ~Failed("save") /\ ~refused /\ saved # None => saved \subseteq saved']_vars
  <2>1. SUFFICES ASSUME Next, ~Failed("get"), ~Failed("save"), ~refused, saved # None
                 PROVE  saved \subseteq saved'
    BY <1>1
  <2>2. CASE saved' = saved
    BY <2>2
  <2>3. CASE Present /\ saved' = room[made].doc
    BY <1>1, <2>1, <2>3 DEF IInv, SaveInv, Saved
  <2> QED BY <1>1, <2>1, <2>2, <2>3, SavesTheRoom
<1> QED BY <1>1, Inductive, PTL DEF Spec, SavedGrows

=============================================================================
