------------------------- MODULE CollaborationRoom --------------------------
(***************************************************************************)
(* The room of one document in one process (backend/src/lib/               *)
(* yjs-provider.ts, backend/src/api/routes/collaboration.ts): sockets that *)
(* open and close while a room is loaded from Redis or torn down, their    *)
(* updates, the periodic save to Redis and the debounced write to the      *)
(* database.                                                               *)
(*                                                                         *)
(* A Yjs document is the set of updates it has merged.  One action is a    *)
(* stretch of JavaScript between two awaits, with the effect of the call   *)
(* it was waiting for.                                                     *)
(***************************************************************************)
EXTENDS Integers, FiniteSets

CONSTANTS
    None,
    Socket,         \* websocket connections, open one after the other or at once
    Update,         \* updates the clients make
    MaxRooms,       \* bound on the incarnations of the room
    MaxFailures,    \* bound on the kinds of calls that fail
    MaxEarly,       \* bound on sockets that close before they are admitted
    MaxCrashes      \* bound on crashes of the process

ASSUME RoomsAssumption == MaxRooms \in Nat \ {0}
ASSUME BoundsAssumption == {MaxFailures, MaxEarly, MaxCrashes} \subseteq Nat
ASSUME NameAssumption == None \notin 1..MaxRooms
ASSUME SocketAssumption == IsFiniteSet(Socket)

Incarnation == 1..MaxRooms
Fault == {"get", "save", "subscribe", "unsubscribe", "persist"}

\* A room in memory: what it has merged, its clients, and a pending persistTimer.
Room == [doc : SUBSET Update, clients : 0..Cardinality(Socket), timer : BOOLEAN]
NoRoom == [doc |-> {}, clients |-> 0, timer |-> FALSE]

\* loadRoom in progress, with the row its caller had read.
LoadPhase == {"get", "subscribe", "save"}
Load == [room : Incarnation, phase : LoadPhase, row : SUBSET Update, found : BOOLEAN]

\* A teardown in progress: what of it has settled.
Teardown == [room : Incarnation, saved : BOOLEAN, persisted : BOOLEAN]

ASSUME RowAssumption ==
    /\ \A row \in Load : row # None
    /\ \A row \in Teardown : row # None
    /\ \A row \in SUBSET Update : row # None

SocketPc == {"closed", "authorize", "acquire", "loading", "attached"}
Connection == [pc : SocketPc, gone : BOOLEAN, row : SUBSET Update,
               room : Incarnation \cup {None}]
NoConnection == [pc |-> "closed", gone |-> FALSE, row |-> {}, room |-> None]

VARIABLES
    room,       \* every incarnation there has been
    made,       \* how many there have been
    current,    \* rooms: the one sockets are given
    loading,    \* loadingRooms
    closing,    \* closingRooms
    socket,     \* open handlers and sessions
    peers,      \* roomSockets
    listener,   \* the room whose updates roomBroadcastUnsubscribes stands for
    subscribed, \* the process is subscribed to the channel of the room
    saved,      \* yjs:doc: the state Redis keeps
    stored,     \* the content of the document
    writing,    \* persists whose transaction is under way
    taken,      \* updates that rooms took in, less what a crash lost with the room
    refused,    \* a socket was refused by a room that had gone
    spent       \* the calls that failed, early closes and crashes

memory == <<room, made, current, loading, closing>>
session == <<socket, peers, listener>>
durable == <<subscribed, saved, stored, writing>>
ghost == <<taken, refused, spent>>
vars == <<memory, session, durable, ghost>>

Init ==
    /\ room = [i \in Incarnation |-> NoRoom]
    /\ made = 0
    /\ current = None /\ loading = None /\ closing = None
    /\ socket = [s \in Socket |-> NoConnection]
    /\ peers = {} /\ listener = None
    /\ subscribed = FALSE /\ saved = None /\ stored = {} /\ writing = {}
    /\ taken = {} /\ refused = FALSE
    /\ spent = [failed |-> {}, early |-> 0, crashes |-> 0]

At(s, pc) == socket[s].pc = pc
Fails(what) ==
    /\ Cardinality(spent.failed \cup {what}) <= MaxFailures
    /\ spent' = [spent EXCEPT !.failed = @ \cup {what}]

-----------------------------------------------------------------------------
(***************************************************************************)
(* Opening                                                                 *)
(***************************************************************************)
Open(s) ==
    /\ At(s, "closed")
    /\ socket' = [socket EXCEPT ![s] = [NoConnection EXCEPT !.pc = "authorize"]]
    /\ UNCHANGED <<memory, peers, listener, durable, ghost>>

\* authorizeDocument reads the row a room would be seeded with.
Authorize(s) ==
    /\ At(s, "authorize")
    /\ socket' = [socket EXCEPT ![s].pc = "acquire", ![s].row = stored]
    /\ UNCHANGED <<memory, peers, listener, durable, ghost>>

\* The rest of open, once acquireYjsRoom has returned the room.
Attached(S, i) ==
    /\ socket' = [s \in Socket |-> IF s \in S
                                   THEN [socket[s] EXCEPT !.pc = "attached", !.row = {}, !.room = i]
                                   ELSE socket[s]]
    /\ peers' = peers \cup S
    /\ listener' = IF listener = None /\ S # {} THEN i ELSE listener

\* Mutant: a new room is loaded while the old one is torn down.
AcquireAtOnce(s) ==
    /\ At(s, "acquire")
    /\ \/ /\ current # None
          /\ room' = [room EXCEPT ![current].clients = @ + 1]
          /\ Attached({s}, current)
          /\ UNCHANGED <<made, loading>>
       \/ /\ current = None /\ loading = None /\ made < MaxRooms
          /\ made' = made + 1
          /\ loading' = [room |-> made + 1, phase |-> "get", row |-> socket[s].row, found |-> FALSE]
          /\ socket' = [socket EXCEPT ![s].pc = "loading", ![s].row = {}]
          /\ UNCHANGED <<room, peers, listener>>
    /\ UNCHANGED <<current, closing, durable, ghost>>

\* acquireYjsRoom: not before the teardown under way is through; then the room
\* there is, the load under way, or a load of a new one.
Acquire(s) ==
    /\ At(s, "acquire") /\ closing = None
    /\ \/ /\ current # None
          /\ room' = [room EXCEPT ![current].clients = @ + 1]
          /\ Attached({s}, current)
          /\ UNCHANGED <<made, loading>>
       \/ /\ current = None /\ loading # None
          /\ socket' = [socket EXCEPT ![s].pc = "loading", ![s].row = {}]
          /\ UNCHANGED <<room, made, loading, peers, listener>>
       \/ /\ current = None /\ loading = None /\ made < MaxRooms
          /\ made' = made + 1
          /\ loading' = [room |-> made + 1, phase |-> "get", row |-> socket[s].row, found |-> FALSE]
          /\ socket' = [socket EXCEPT ![s].pc = "loading", ![s].row = {}]
          /\ UNCHANGED <<room, peers, listener>>
    /\ UNCHANGED <<current, closing, durable, ghost>>

Loading(phase) == loading # None /\ loading.phase = phase
Waiting == {s \in Socket : At(s, "loading")}

\* Mutant: the catch only logs, and the client is not told.
CatchOnlyLogs(S) == socket' = socket

\* The catch of open.
Close1008(S) ==
    socket' = [s \in Socket |-> IF s \in S THEN NoConnection ELSE socket[s]]

\* Mutant: a room is always seeded with the row.
LoadGetRow ==
    /\ Loading("get")
    /\ room' = [room EXCEPT ![loading.room].doc = loading.row]
    /\ loading' = [loading EXCEPT !.phase = "subscribe"]
    /\ current' = loading.room
    /\ UNCHANGED <<made, closing, session, durable, ghost>>

\* The state Redis keeps, else the row; a read that fails counts as no state.
LoadGet ==
    /\ Loading("get")
    /\ \/ /\ saved # None
          /\ room' = [room EXCEPT ![loading.room].doc = saved]
          /\ loading' = [loading EXCEPT !.phase = "subscribe", !.found = TRUE]
          /\ UNCHANGED spent
       \/ /\ \/ saved = None /\ UNCHANGED spent
             \/ Fails("get")
          /\ room' = [room EXCEPT ![loading.room].doc = loading.row]
          /\ loading' = [loading EXCEPT !.phase = "subscribe"]
    /\ current' = loading.room
    /\ UNCHANGED <<made, closing, session, durable, taken, refused>>

\* Mutant: a room that has gone is not refused.
AdmitAll ==
    /\ loading' = None
    /\ room' = [room EXCEPT ![loading.room].clients = @ + Cardinality(Waiting)]
    /\ Attached(Waiting, loading.room)
    /\ UNCHANGED refused

\* Those who waited for the load are clients of the room.  If it has gone meanwhile,
\* subscribeYjsRoom throws, unless the document has a listener already.
Admit ==
    LET i == loading.room
    IN /\ loading' = None
       /\ room' = [room EXCEPT ![i].clients = @ + Cardinality(Waiting)]
       /\ \/ /\ current = i \/ listener # None
             /\ Attached(Waiting, i)
             /\ UNCHANGED refused
          \/ /\ current # i /\ listener = None
             /\ Close1008(Waiting)
             /\ peers' = peers \cup Waiting
             /\ refused' = (refused \/ Waiting # {})
             /\ UNCHANGED listener

\* The load is rejected, and with it everybody who waited; the room stays.
Reject ==
    /\ loading' = None
    /\ Close1008(Waiting)
    /\ UNCHANGED <<room, peers, listener, refused>>

LoadSubscribe ==
    /\ Loading("subscribe")
    /\ \/ /\ loading.found /\ Admit
          /\ subscribed' = TRUE /\ UNCHANGED spent
       \/ /\ ~loading.found
          /\ loading' = [loading EXCEPT !.phase = "save"]
          /\ subscribed' = TRUE /\ UNCHANGED <<room, session, refused, spent>>
       \/ /\ Reject /\ Fails("subscribe")
          /\ UNCHANGED subscribed
    /\ UNCHANGED <<made, current, closing, saved, stored, writing, taken>>

LoadSave ==
    /\ Loading("save")
    /\ \/ saved' = room[loading.room].doc /\ Admit /\ UNCHANGED spent
       \/ Reject /\ Fails("save") /\ UNCHANGED saved
    /\ UNCHANGED <<made, current, closing, subscribed, stored, writing, taken>>

-----------------------------------------------------------------------------
(***************************************************************************)
(* Editing, saving and persisting                                          *)
(***************************************************************************)
\* The update listener of a document in memory schedules a persist.
Edit(s, u) ==
    LET i == socket[s].room
    IN /\ At(s, "attached") /\ ~socket[s].gone
       /\ u \notin room[i].doc
       /\ room' = [room EXCEPT ![i].doc = @ \cup {u}, ![i].timer = TRUE]
       /\ taken' = taken \cup {u}
       /\ UNCHANGED <<made, current, loading, closing, session, durable, refused, spent>>

PersistFire(i) ==
    /\ room[i].timer
    /\ room' = [room EXCEPT ![i].timer = FALSE]
    /\ writing' = writing \cup {room[i].doc}
    /\ UNCHANGED <<made, current, loading, closing, session, subscribed, saved, stored, ghost>>

\* Persists under way commit in any order.
PersistDone(snapshot) ==
    /\ writing' = writing \ {snapshot}
    /\ \/ stored' = snapshot /\ UNCHANGED spent
       \/ Fails("persist") /\ UNCHANGED stored
    /\ UNCHANGED <<memory, session, subscribed, saved, taken, refused>>

\* saveInterval.
SaveTick ==
    /\ current # None
    /\ saved' = room[current].doc
    /\ UNCHANGED <<memory, session, subscribed, stored, writing, ghost>>

-----------------------------------------------------------------------------
(***************************************************************************)
(* Closing                                                                 *)
(***************************************************************************)
\* Mutant: the test for the last client comes before the decrement.
ReleaseUncounted ==
    IF current = None \/ room[current].clients > 1
    THEN UNCHANGED <<room, current, closing>>
    ELSE /\ room' = [room EXCEPT ![current].clients = 0, ![current].timer = FALSE]
         /\ current' = None
         /\ closing' = [room |-> current, saved |-> FALSE, persisted |-> FALSE]

\* releaseYjsRoom goes by the key of the room: it counts down whatever room is
\* current, and the last client takes it out of rooms.
Release ==
    \/ /\ current = None
       /\ UNCHANGED <<room, current, closing>>
    \/ /\ current # None /\ room[current].clients > 1
       /\ room' = [room EXCEPT ![current].clients = @ - 1]
       /\ UNCHANGED <<current, closing>>
    \/ /\ current # None /\ room[current].clients <= 1
       /\ room' = [room EXCEPT ![current].clients = 0, ![current].timer = FALSE]
       /\ current' = None
       /\ closing' = [room |-> current, saved |-> FALSE, persisted |-> FALSE]

\* Mutant: the listener outlives the last session.
CloseKeepingListener(s) ==
    /\ At(s, "attached") /\ ~socket[s].gone
    /\ socket' = [socket EXCEPT ![s] = NoConnection]
    /\ peers' = peers \ {s}
    /\ Release
    /\ UNCHANGED <<made, loading, listener, durable, ghost>>

\* The session goes, with the last one the listener, and the room is released.
Close(s) ==
    /\ At(s, "attached") /\ ~socket[s].gone
    /\ socket' = [socket EXCEPT ![s] = NoConnection]
    /\ peers' = peers \ {s}
    /\ listener' = IF peers' = {} THEN None ELSE listener
    /\ Release
    /\ UNCHANGED <<made, loading, durable, ghost>>

\* A socket that closes before it is admitted has no session yet: close does
\* nothing, and open goes on.
CloseEarly(s) ==
    /\ socket[s].pc \in {"authorize", "acquire", "loading"} /\ ~socket[s].gone
    /\ spent.early < MaxEarly
    /\ spent' = [spent EXCEPT !.early = @ + 1]
    /\ socket' = [socket EXCEPT ![s].gone = TRUE]
    /\ UNCHANGED <<memory, peers, listener, durable, taken, refused>>

\* Mutant: teardown leaves the saving to the interval.
TearSaveNothing ==
    /\ closing # None /\ ~closing.saved
    /\ closing' = [closing EXCEPT !.saved = TRUE]
    /\ UNCHANGED <<room, made, current, loading, session, durable, ghost>>

TearSave ==
    /\ closing # None /\ ~closing.saved
    /\ closing' = [closing EXCEPT !.saved = TRUE]
    /\ \/ saved' = room[closing.room].doc /\ UNCHANGED spent
       \/ Fails("save") /\ UNCHANGED saved
    /\ UNCHANGED <<room, made, current, loading, session, subscribed, stored, writing,
                   taken, refused>>

TearPersist ==
    /\ closing # None /\ ~closing.persisted
    /\ closing' = [closing EXCEPT !.persisted = TRUE]
    /\ \/ stored' = room[closing.room].doc /\ UNCHANGED spent
       \/ Fails("persist") /\ UNCHANGED stored
    /\ UNCHANGED <<room, made, current, loading, session, subscribed, saved, writing,
                   taken, refused>>

\* The unsubscribe, answered after a subscribe that was sent before it.  When it
\* fails, so do those who wait for the teardown.
TearEnd ==
    /\ closing # None /\ closing.saved /\ closing.persisted
    /\ ~Loading("subscribe")
    /\ closing' = None
    /\ \/ subscribed' = FALSE
          /\ UNCHANGED <<socket, spent>>
       \/ Fails("unsubscribe")
          /\ Close1008({s \in Socket : At(s, "acquire")})
          /\ UNCHANGED subscribed
    /\ UNCHANGED <<room, made, current, loading, peers, listener, saved, stored, writing,
                   taken, refused>>

\* What is in memory is lost; Redis and the database keep what they have.
Crash ==
    /\ spent.crashes < MaxCrashes
    /\ spent' = [spent EXCEPT !.crashes = @ + 1]
    /\ room' = [i \in Incarnation |-> NoRoom]
    /\ current' = None /\ loading' = None /\ closing' = None
    /\ socket' = [s \in Socket |-> NoConnection]
    /\ peers' = {} /\ listener' = None
    /\ subscribed' = FALSE /\ writing' = {}
    /\ taken' = taken \cap (IF saved = None THEN {} ELSE saved)
    /\ refused' = FALSE
    /\ UNCHANGED <<made, saved, stored>>

OpenStep(s) == Open(s) \/ Authorize(s) \/ Acquire(s)
LoadStep == LoadGet \/ LoadSubscribe \/ LoadSave
RoomStep == SaveTick \/ (\E i \in Incarnation : PersistFire(i))
PersistStep == \E snapshot \in writing : PersistDone(snapshot)
TearStep == TearSave \/ TearPersist \/ TearEnd
ClientStep(s) == Close(s) \/ CloseEarly(s) \/ \E u \in Update : Edit(s, u)

Next ==
    \/ \E s \in Socket : OpenStep(s) \/ ClientStep(s)
    \/ LoadStep
    \/ RoomStep
    \/ PersistStep
    \/ TearStep
    \/ Crash

Spec == Init /\ [][Next]_vars

\* Redis and the database answer what is asked of them, or fail.
FairSpec ==
    /\ Spec
    /\ \A s \in Socket : WF_vars(Authorize(s)) /\ WF_vars(Acquire(s))
    /\ WF_vars(LoadStep) /\ WF_vars(TearStep)

-----------------------------------------------------------------------------
(***************************************************************************)
(* Properties                                                              *)
(***************************************************************************)
\* Every variable has its type.
TypeOK ==
    /\ room \in [Incarnation -> Room]
    /\ made \in 0..MaxRooms
    /\ current \in Incarnation \cup {None}
    /\ loading \in Load \cup {None}
    /\ closing \in Teardown \cup {None}
    /\ socket \in [Socket -> Connection]
    /\ peers \subseteq Socket
    /\ listener \in Incarnation \cup {None}
    /\ subscribed \in BOOLEAN
    /\ saved \in (SUBSET Update) \cup {None}
    /\ stored \in SUBSET Update
    /\ writing \subseteq SUBSET Update
    /\ taken \subseteq Update
    /\ refused \in BOOLEAN
    /\ spent \in [failed : SUBSET Fault, early : 0..MaxEarly, crashes : 0..MaxCrashes]

InRoom(i) == {s \in Socket : At(s, "attached") /\ socket[s].room = i}
Failed(what) == what \in spent.failed

\* A session edits the room sockets are given, and no room that was torn down: the
\* count of clients is right through opens, closes and failed loads.
AttachedIsLive ==
    ~refused =>
        /\ \A s \in Socket : At(s, "attached") => socket[s].room = current
        /\ current # None => room[current].clients = Cardinality(InRoom(current))

\* A room with sessions receives what other processes publish: no teardown of an
\* earlier room unsubscribes the channel under it.
LiveIsSubscribed ==
    ~Failed("subscribe") /\ ~refused /\ current # None /\ room[current].clients > 0
        => subscribed \/ Loading("subscribe")

\* When no room is in memory, Redis has every update a room took in: teardown saves
\* before the next load reads.
SavedIsWhole ==
    ~Failed("get") /\ ~Failed("save") /\ ~refused /\ current = None /\ loading = None /\ closing = None
        => taken \subseteq (IF saved = None THEN {} ELSE saved)

\* The state in Redis never loses an update, over reloads and crashes: no room saves
\* over it that was not loaded from it.
SavedGrows ==
    [][~Failed("get") /\ ~Failed("save") /\ ~refused /\ saved # None
            => saved \subseteq saved']_vars

\* The updates of a session reach the others: the listener that broadcasts is that
\* of the room they edit.
Heard ==
    ~refused => \A s \in Socket : At(s, "attached") => s \in peers /\ listener = socket[s].room

\* A socket that opens is admitted or closed, also when it waits for a teardown or
\* for a load that fails.
OpenSettles ==
    \A s \in Socket :
        socket[s].pc \in {"authorize", "acquire", "loading"}
            ~> (socket[s].pc \in {"attached", "closed"} \/ (made = MaxRooms /\ current = None /\ loading = None /\ closing = None))
=============================================================================
