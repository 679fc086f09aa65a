---------------------------- MODULE MediaRouting ----------------------------
(***************************************************************************)
(* Where a user's audio goes.  The OnTrack loop                            *)
(* (rtp_track_syncronizer_and_orchestraction.go) copies every packet of    *)
(* its user into the buffers of the others, as the user's own browser has  *)
(* asked for with audio_route and audio_route_room; OnMessage              *)
(* (orchestrator_router_logic.go) takes these requests and tells the users *)
(* concerned; the renegotiation pass sets up the buffers.  The code for    *)
(* video is the same with other names, except that its loop copies the     *)
(* room map before it ranges over it.                                      *)
(*                                                                         *)
(* All users are logged in, alive and connected with open data channels;   *)
(* SessionLifecycle has the logins, the teardown and the locks.  What the  *)
(* signaling state makes the loop skip is left open.  Bounds: MaxPackets   *)
(* packets of a speaker, MaxMessages requests in all, buffers of           *)
(* AudioCapacity packets, queues of OutCapacity events with those that the *)
(* goroutines have taken, two data channels of a user (requests come by    *)
(* the first one).                                                         *)
(***************************************************************************)
EXTENDS Integers, SequencesExt

CONSTANTS
    Users,
    Rooms,
    LoginRooms,      \* the rooms that logins bring, each with an access list
    Speakers,        \* the users whose browsers send packets
    Routers,         \* the users whose browsers send requests
    Reopeners,       \* the users whose browsers open a second data channel
    None,
    AudioCapacity,   \* of AudioBuffer, 256
    OutCapacity,     \* of OutgoingDataChannel, 250
    MaxPackets,
    MaxMessages

ASSUME RoutingAssumption ==
    /\ LoginRooms \subseteq Rooms \X SUBSET Users
    /\ None \notin Users \cup Rooms /\ \A list \in SUBSET Users : None # list
    /\ Speakers \subseteq Users /\ Routers \subseteq Users /\ Reopeners \subseteq Users
    /\ {AudioCapacity, OutCapacity, MaxPackets, MaxMessages} \subseteq Nat

VARIABLES
    access,      \* company_sfu.Rooms[r].AccessList; None: r is not stored
    AudioReceiver, \* the users whose track has started
    member,      \* member[y][x]: how far y's MemberTracks entry for x is set up
    PipeAudio,   \* PipeAudio[x][y]: the flag in x's entry for y
    AudioRooms,  \* AudioRooms[x]: the rooms that are TRUE in x's AudioRoomsMap
    buffer,      \* buffer[y][x]: AudioBuffer of y's entry for x
    loop,        \* the OnTrack loop of each user
    hand,        \* the OnMessage handler of each user
    out,         \* OutgoingDataChannel of each user, and what was taken from it
    senders,     \* number of goroutines that range over OutgoingDataChannel
    messages,    \* number of requests so far (bound)
    RtpSyncNeeded,
    sync,        \* the renegotiation pass: whether one runs, the pairs it has
                 \* left, and the one it adds a track for
    crashed,     \* the Go runtime has stopped the process
    heard,       \* heard[y][x]: what y's browser was last told of PipeAudio[x][y]
    missed,      \* history: the pairs <<x, y>> of which an event was dropped
                 \* or overtaken
    told,        \* history: the room events <<x, id>> that were queued for y
    wished       \* history: wished[x]: who x has wanted its present packet to reach

media    == <<AudioReceiver, member, buffer, loop>>
requests == <<PipeAudio, AudioRooms, hand, messages, crashed>>
events   == <<out, senders, heard, missed, told>>
renego   == <<RtpSyncNeeded, sync>>
vars     == <<access, media, requests, events, renego, wished>>

Others(x) == Users \ {x}

Pairs == {p \in Users \X Users : p[1] # p[2]}

Waiting == [at |-> "range", n |-> 0, left |-> {}, to |-> None, should_pipe |-> FALSE,
            rooms |-> {}]

Free == [at |-> "idle", id |-> 0, want |-> [r \in {} |-> FALSE], to |-> None, on |-> FALSE,
         todo |-> {}, members |-> {}, sent |-> {}]

\* Whom x's requests in force direct its audio to.
Wished(x) == {y \in Others(x) : PipeAudio[x][y] \/ AudioRooms[x] # {}}

Init ==
    /\ access = [r \in Rooms |-> None]
    /\ AudioReceiver = {}
    /\ member = [y \in Users |-> [x \in Users |-> "none"]]
    /\ PipeAudio = [x \in Users |-> [y \in Users |-> FALSE]]
    /\ AudioRooms = [x \in Users |-> {}]
    /\ buffer = [y \in Users |-> [x \in Users |-> <<>>]]
    /\ loop = [x \in Users |-> Waiting]
    /\ hand = [x \in Users |-> Free]
    /\ out = [y \in Users |-> <<>>]
    /\ senders = [y \in Users |-> 1]
    /\ messages = 0
    /\ RtpSyncNeeded \in BOOLEAN   \* a user that has left may have set it
    /\ sync = [on |-> FALSE, left |-> {}, to |-> None, from |-> None]
    /\ crashed = FALSE
    /\ heard = [y \in Users |-> [x \in Users |-> FALSE]]
    /\ missed = {}
    /\ told = [y \in Users |-> {}]
    /\ wished = [x \in Users |-> {}]

\* A login stores a room of its user, over what was stored before.
StoreRoom(r, list) ==
    /\ access' = [access EXCEPT ![r] = list]
    /\ UNCHANGED <<media, requests, events, renego, wished>>

-----------------------------------------------------------------------------
(* The renegotiation pass.                                                  *)

\* Something was missing when the ticker looked.
SyncBegin ==
    /\ RtpSyncNeeded /\ ~sync.on
    /\ sync' = [sync EXCEPT !.on = TRUE, !.left = Pairs]
    /\ UNCHANGED <<access, media, requests, events, RtpSyncNeeded, wished>>

\* y carries the track of x, or x has none.
SyncSkip(y, x) ==
    /\ <<y, x>> \in sync.left /\ sync.to = None
    /\ (x \notin AudioReceiver \/ member[y][x] \in {"track", "buffer"})
    /\ sync' = [sync EXCEPT !.left = @ \ {<<y, x>>}]
    /\ UNCHANGED <<access, media, requests, events, RtpSyncNeeded, wished>>

\* y is to carry it: AddAudioTrack stores an entry without a track, ...
SyncEntry(y, x) ==
    /\ <<y, x>> \in sync.left /\ sync.to = None
    /\ x \in AudioReceiver /\ member[y][x] \in {"none", "entry"}
    /\ member' = [member EXCEPT ![y][x] = "entry"]
    /\ sync' = [sync EXCEPT !.left = @ \ {<<y, x>>}, !.to = y, !.from = x]
    /\ UNCHANGED <<access, AudioReceiver, buffer, loop, requests, events, RtpSyncNeeded, wished>>

\* ... then the track, ...
SyncTrack ==
    /\ sync.to # None /\ member[sync.to][sync.from] = "entry"
    /\ member' = [member EXCEPT ![sync.to][sync.from] = "track"]
    /\ UNCHANGED <<access, AudioReceiver, buffer, loop, requests, events, renego, wished>>

\* ... and the pass makes the buffer and starts Forward.
SyncBuffer ==
    /\ sync.to # None /\ member[sync.to][sync.from] = "track"
    /\ member' = [member EXCEPT ![sync.to][sync.from] = "buffer"]
    /\ sync' = [sync EXCEPT !.to = None, !.from = None]
    /\ UNCHANGED <<access, AudioReceiver, buffer, loop, requests, events, RtpSyncNeeded, wished>>

\* The flag is cleared, also if a loop has set it again meanwhile.
SyncEnd ==
    /\ sync.on /\ sync.left = {} /\ sync.to = None
    /\ sync' = [sync EXCEPT !.on = FALSE]
    /\ RtpSyncNeeded' = FALSE
    /\ UNCHANGED <<access, media, requests, events, wished>>

Sync ==
    \/ SyncBegin \/ SyncTrack \/ SyncBuffer \/ SyncEnd
    \/ \E y, x \in Users : SyncSkip(y, x) \/ SyncEntry(y, x)

-----------------------------------------------------------------------------
(* The OnTrack loop.                                                        *)

TrackStarts(x) ==
    /\ x \notin AudioReceiver
    /\ AudioReceiver' = AudioReceiver \cup {x}
    /\ UNCHANGED <<access, member, buffer, loop, requests, events, renego, wished>>

\* All users have been ranged over, and the next packet is read.
ReadRTP(x) ==
    /\ x \in AudioReceiver \cap Speakers
    /\ loop[x].at = "range" /\ loop[x].left = {} /\ loop[x].n < MaxPackets
    /\ loop' = [loop EXCEPT ![x].n = @ + 1, ![x].left = Others(x)]
    /\ wished' = [wished EXCEPT ![x] = Wished(x)]
    /\ UNCHANGED <<access, AudioReceiver, member, buffer, requests, events, renego>>

\* The loop comes to y, of all the users in any order.
ComesTo(x, y) == loop[x].at = "range" /\ y \in loop[x].left

\* y or x is in the middle of a negotiation.
Unstable(x, y) ==
    /\ ComesTo(x, y)
    /\ loop' = [loop EXCEPT ![x].left = @ \ {y}]
    /\ UNCHANGED <<access, AudioReceiver, member, buffer, requests, events, renego, wished>>

\* y has no track of x yet, ...
NoMemberTrack(x, y) ==
    /\ ComesTo(x, y) /\ member[y][x] \in {"none", "entry"}
    /\ loop' = [loop EXCEPT ![x].left = @ \ {y}]
    /\ RtpSyncNeeded' = TRUE
    /\ UNCHANGED <<access, AudioReceiver, member, buffer, requests, events, sync, wished>>

\* ... or x has no entry for y, where its flag would be.
NoPeerTrack(x, y) ==
    /\ ComesTo(x, y) /\ member[y][x] \in {"track", "buffer"} /\ member[x][y] = "none"
    /\ loop' = [loop EXCEPT ![x].left = @ \ {y}]
    /\ UNCHANGED <<access, AudioReceiver, member, buffer, requests, events, renego, wished>>

RouteCheck(x, y) ==
    /\ ComesTo(x, y) /\ member[y][x] \in {"track", "buffer"} /\ member[x][y] # "none"
    /\ loop' = [loop EXCEPT ![x].at = "send", ![x].left = @ \ {y}, ![x].to = y,
                            ![x].should_pipe = PipeAudio[x][y]]
    /\ UNCHANGED <<access, AudioReceiver, member, buffer, requests, events, renego, wished>>

\* (Mutant: the buffer has room for one more.)
SendableLarger(x, y) == member[y][x] = "buffer" /\ Len(buffer[y][x]) <= AudioCapacity

\* The non-blocking send to AudioBuffer goes through; a nil channel never does.
Sendable(x, y) == member[y][x] = "buffer" /\ Len(buffer[y][x]) < AudioCapacity

Copy(x, y, via) ==
    buffer' = [buffer EXCEPT ![y][x] = Append(@, [n |-> loop[x].n, via |-> via])]

\* (Mutant: the rooms are looked at after a successful send as well.)
PipeFallingThrough(x) ==
    LET y == loop[x].to
    IN  /\ loop[x].at = "send" /\ loop[x].should_pipe /\ Sendable(x, y)
        /\ Copy(x, y, None)
        /\ loop' = [loop EXCEPT ![x].at = "rooms", ![x].rooms = Rooms]
        /\ UNCHANGED <<access, AudioReceiver, member, requests, events, renego, wished>>

\* x wants y to have it: the packet is copied and the loop goes on to the next
\* user.
Pipe(x) ==
    LET y == loop[x].to
    IN  /\ loop[x].at = "send" /\ loop[x].should_pipe /\ Sendable(x, y)
        /\ Copy(x, y, None)
        /\ loop' = [loop EXCEPT ![x].at = "range", ![x].to = None]
        /\ UNCHANGED <<access, AudioReceiver, member, requests, events, renego, wished>>

\* Otherwise, and if the buffer is full, the rooms are looked at.
RoomsBegin(x) ==
    /\ loop[x].at = "send"
    /\ ~(loop[x].should_pipe /\ Sendable(x, loop[x].to))
    /\ loop' = [loop EXCEPT ![x].at = "rooms", ![x].rooms = Rooms]
    /\ UNCHANGED <<access, AudioReceiver, member, buffer, requests, events, renego, wished>>

\* (Mutant: the state of the room is not looked at.)
RoomCheckAnyState(x, r) ==
    LET y == loop[x].to
        send == access[r] # None /\ x \in access[r] /\ Sendable(x, y)
    IN  /\ loop[x].at = "rooms" /\ r \in loop[x].rooms
        /\ loop' = [loop EXCEPT ![x].rooms = @ \ {r}]
        /\ IF send THEN Copy(x, y, r) ELSE UNCHANGED buffer
        /\ UNCHANGED <<access, AudioReceiver, member, requests, events, renego, wished>>

\* One room: a copy goes to y if x has the room switched on and x itself is on
\* the room's access list.
RoomCheck(x, r) ==
    LET y == loop[x].to
        send == r \in AudioRooms[x] /\ x \in access[r] /\ Sendable(x, y)
    IN  /\ loop[x].at = "rooms" /\ r \in loop[x].rooms
        /\ loop' = [loop EXCEPT ![x].rooms = @ \ {r}]
        /\ IF send THEN Copy(x, y, r) ELSE UNCHANGED buffer
        /\ UNCHANGED <<access, AudioReceiver, member, requests, events, renego, wished>>

RoomsEnd(x) ==
    /\ loop[x].at = "rooms" /\ loop[x].rooms = {}
    /\ loop' = [loop EXCEPT ![x].at = "range", ![x].to = None]
    /\ UNCHANGED <<access, AudioReceiver, member, buffer, requests, events, renego, wished>>

\* Forward writes a packet to y's track.
Forward(y, x) ==
    /\ buffer[y][x] # <<>>
    /\ buffer' = [buffer EXCEPT ![y][x] = Tail(@)]
    /\ UNCHANGED <<access, AudioReceiver, member, loop, requests, events, renego, wished>>

Track(x) ==
    \/ TrackStarts(x) \/ ReadRTP(x) \/ Pipe(x) \/ RoomsBegin(x) \/ RoomsEnd(x)
    \/ \E y \in Users : Unstable(x, y) \/ NoMemberTrack(x, y) \/ NoPeerTrack(x, y)
                        \/ RouteCheck(x, y) \/ Forward(y, x)
    \/ \E r \in Rooms : RoomCheck(x, r)

-----------------------------------------------------------------------------
(* OnMessage.  The messages of one data channel are handled one by one, so   *)
(* an audio_route for several users is several of them here.                *)

Request(x) ==
    /\ x \in Routers /\ hand[x].at = "idle" /\ messages < MaxMessages
    /\ messages' = messages + 1

\* A non-blocking send to OutgoingDataChannel; a full queue drops the event.
Tell(x, y, event) ==
    /\ UNCHANGED <<senders, heard>>
    /\ \/ /\ Len(out[y]) < OutCapacity
          /\ out' = [out EXCEPT ![y] = Append(@, event)]
          /\ told' = IF event.event = "audio_room_event"
                     THEN [told EXCEPT ![y] = @ \cup {<<x, event.id>>}] ELSE told
          /\ UNCHANGED missed
       \/ /\ Len(out[y]) = OutCapacity
          /\ missed' = missed \cup {<<x, y>>}
          /\ UNCHANGED <<out, told>>

\* (Mutant: the user is told also if there is no entry to set the flag in.)
AudioRouteAlways(x, y, pipe_audio) ==
    /\ Request(x)
    /\ PipeAudio' = [PipeAudio EXCEPT ![x][y] = IF member[x][y] # "none" THEN pipe_audio ELSE @]
    /\ hand' = [hand EXCEPT ![x] = [Free EXCEPT !.at = "route", !.to = y, !.on = pipe_audio]]
    /\ wished' = [wished EXCEPT ![x] = IF PipeAudio'[x][y] THEN @ \cup {y} ELSE @]
    /\ UNCHANGED <<access, media, AudioRooms, crashed, events, renego>>

\* audio_route: sets the flag in x's entry for y, if there is one, ...
AudioRoute(x, y, pipe_audio) ==
    /\ Request(x)
    /\ member[x][y] # "none"
    /\ PipeAudio' = [PipeAudio EXCEPT ![x][y] = pipe_audio]
    /\ hand' = [hand EXCEPT ![x] = [Free EXCEPT !.at = "route", !.to = y, !.on = pipe_audio]]
    /\ wished' = [wished EXCEPT ![x] = IF pipe_audio THEN @ \cup {y} ELSE @]
    /\ UNCHANGED <<access, media, AudioRooms, crashed, events, renego>>

\* ... and tells y.
AudioRouteTell(x) ==
    /\ hand[x].at = "route"
    /\ Tell(x, hand[x].to, [event |-> "media_route_audio", from |-> x, id |-> 0,
                            on |-> hand[x].on])
    /\ hand' = [hand EXCEPT ![x] = Free]
    /\ UNCHANGED <<access, media, PipeAudio, AudioRooms, messages, crashed, renego, wished>>

\* audio_route_room, for one or several rooms.
AudioRouteRoom(x, want) ==
    /\ Request(x)
    /\ hand' = [hand EXCEPT ![x] = [Free EXCEPT !.at = "accept", !.id = messages',
                                                !.want = want]]
    /\ UNCHANGED <<access, media, PipeAudio, AudioRooms, crashed, events, renego, wished>>

\* A room that is stored and has x on its list is switched; the others are
\* passed over.  The write goes to the map that x's loop may be ranging over
\* without the lock, which can stop the process: "fatal error: concurrent map
\* iteration and map write".
RoomSwitch(x, r) ==
    LET on == hand[x].want[r]
        accepted == access[r] # None /\ x \in access[r]
    IN  /\ hand[x].at = "accept" /\ r \in DOMAIN hand[x].want
        /\ hand' = [hand EXCEPT ![x].want = [q \in DOMAIN @ \ {r} |-> @[q]],
                                ![x].todo = IF accepted THEN @ \cup {r} ELSE @]
        /\ AudioRooms' = [AudioRooms EXCEPT ![x] = CASE ~accepted -> @
                                                     [] accepted /\ on -> @ \cup {r}
                                                     [] accepted /\ ~on -> @ \ {r}]
        /\ wished' = [wished EXCEPT ![x] = IF AudioRooms'[x] # {} THEN Others(x) ELSE @]
        /\ crashed' \in {FALSE, accepted /\ loop[x].at = "rooms"}
        /\ UNCHANGED <<access, media, PipeAudio, messages, events, renego>>

\* The event goes to the members of the rooms that were accepted, if any.
RoomEvent(x) ==
    /\ hand[x].at = "accept" /\ DOMAIN hand[x].want = {}
    /\ hand' = [hand EXCEPT ![x] = IF @.todo = {} THEN Free ELSE [@ EXCEPT !.at = "rooms"]]
    /\ UNCHANGED <<access, media, PipeAudio, AudioRooms, messages, crashed, events, renego,
                   wished>>

\* (Mutant: sent is not looked at.)
RoomEventOpenAgain(x, r) ==
    /\ hand[x].at = "rooms" /\ hand[x].members = {} /\ r \in hand[x].todo
    /\ hand' = [hand EXCEPT ![x].todo = @ \ {r}, ![x].members = access[r]]
    /\ UNCHANGED <<access, media, PipeAudio, AudioRooms, messages, crashed, events, renego,
                   wished>>

\* The members of one room as it is stored now, but for those that were sent to.
RoomEventOpen(x, r) ==
    /\ hand[x].at = "rooms" /\ hand[x].members = {} /\ r \in hand[x].todo
    /\ hand' = [hand EXCEPT ![x].todo = @ \ {r}, ![x].members = access[r] \ hand[x].sent]
    /\ UNCHANGED <<access, media, PipeAudio, AudioRooms, messages, crashed, events, renego,
                   wished>>

\* A user is marked as sent to even if its queue is full.
RoomEventTell(x, y) ==
    /\ y \in hand[x].members
    /\ Tell(x, y, [event |-> "audio_room_event", from |-> x, id |-> hand[x].id, on |-> TRUE])
    /\ hand' = [hand EXCEPT ![x].members = @ \ {y}, ![x].sent = @ \cup {y}]
    /\ UNCHANGED <<access, media, PipeAudio, AudioRooms, messages, crashed, renego, wished>>

RoomEventEnd(x) ==
    /\ hand[x].at = "rooms" /\ hand[x].todo = {} /\ hand[x].members = {}
    /\ hand' = [hand EXCEPT ![x] = Free]
    /\ UNCHANGED <<access, media, PipeAudio, AudioRooms, messages, crashed, events, renego,
                   wished>>

OnMessage(x) ==
    \/ \E y \in Others(x), b \in BOOLEAN : AudioRoute(x, y, b)
    \/ \E R \in SUBSET Rooms \ {{}} : \E want \in [R -> BOOLEAN] : AudioRouteRoom(x, want)
    \/ AudioRouteTell(x) \/ RoomEvent(x) \/ RoomEventEnd(x)
    \/ \E r \in Rooms : RoomSwitch(x, r) \/ RoomEventOpen(x, r)
    \/ \E y \in Users : RoomEventTell(x, y)

-----------------------------------------------------------------------------
(* The data channels and their goroutines.                                  *)

\* y's browser opens another data channel, and OnOpen starts another
\* goroutine.
OnOpen(y) ==
    /\ y \in Reopeners /\ senders[y] = 1
    /\ senders' = [senders EXCEPT ![y] = @ + 1]
    /\ UNCHANGED <<access, media, requests, out, heard, missed, told, renego, wished>>

Routes(event, x) == event.event = "media_route_audio" /\ event.from = x

\* Each of the goroutines takes an event and sends it in its own time; y's
\* browser takes it in.
Deliver(y, i) ==
    LET e == out[y][i]
        first == {j \in 1 .. i - 1 : Routes(out[y][j], e.from)}
    IN  /\ i <= senders[y]
        /\ out' = [out EXCEPT ![y] = RemoveAt(@, i)]
        /\ heard' = IF Routes(e, e.from) THEN [heard EXCEPT ![y][e.from] = e.on] ELSE heard
        /\ missed' = IF Routes(e, e.from) /\ first # {} THEN missed \cup {<<e.from, y>>}
                     ELSE missed
        /\ UNCHANGED <<access, media, requests, senders, told, renego, wished>>

Outgoing(y) == OnOpen(y) \/ \E i \in DOMAIN out[y] : Deliver(y, i)

Next ==
    /\ ~crashed
    /\ \/ Sync
       \/ \E room \in LoginRooms : StoreRoom(room[1], room[2])
       \/ \E x \in Users : Track(x) \/ OnMessage(x) \/ Outgoing(x)

Spec == Init /\ [][Next]_vars

-----------------------------------------------------------------------------
(* Properties.                                                              *)

\* The values the variables range over.
TypeOK ==
    /\ access \in [Rooms -> {None} \cup SUBSET Users]
    /\ AudioReceiver \subseteq Users
    /\ member \in [Users -> [Users -> {"none", "entry", "track", "buffer"}]]
    /\ PipeAudio \in [Users -> [Users -> BOOLEAN]]
    /\ AudioRooms \in [Users -> SUBSET Rooms]
    /\ \A y, x \in Users :
          /\ Len(buffer[y][x]) <= AudioCapacity
          /\ \A i \in DOMAIN buffer[y][x] :
                buffer[y][x][i] \in [n : 1 .. MaxPackets, via : Rooms \cup {None}]
    /\ loop \in [Users -> [at : {"range", "send", "rooms"}, n : 0 .. MaxPackets,
                           left : SUBSET Users, to : Users \cup {None}, should_pipe : BOOLEAN,
                           rooms : SUBSET Rooms]]
    /\ senders \in [Users -> 1 .. 2]
    /\ \A y \in Users : Len(out[y]) <= OutCapacity
    /\ messages \in 0 .. MaxMessages
    /\ RtpSyncNeeded \in BOOLEAN /\ crashed \in BOOLEAN
    /\ sync \in [on : BOOLEAN, left : SUBSET Pairs, to : Users \cup {None},
                 from : Users \cup {None}]
    /\ heard \in [Users -> [Users -> BOOLEAN]]
    /\ missed \subseteq Users \X Users
    /\ told \in [Users -> SUBSET (Users \X (1 .. MaxMessages))]
    /\ wished \in [Users -> SUBSET Users]

\* y gets a copy of x's present packet.
Copied(x, y) == Len(buffer'[y][x]) > Len(buffer[y][x])

\* A user's audio goes to nobody the user has not directed it to, by a route or
\* by a room, at some moment since the packet was read: what is switched off
\* before a packet is read no longer counts for it.
NoMediaUnasked ==
    [][\A x, y \in Users : Copied(x, y) => y \in wished[x]]_vars

\* A packet reaches a user by the route or by rooms, never by both, and by no
\* room twice.
NoSecondCopy ==
    \A x, y \in Users : \A i, j \in DOMAIN buffer[y][x] :
        LET p == buffer[y][x][i]
            q == buffer[y][x][j]
        IN  i # j /\ p.n = q.n => p.via # q.via /\ None \notin {p.via, q.via}

\* orchestrator_router_logic.go:218, "Send one message per user (even if
\* they're in multiple rooms)".
OneMessagePerUser ==
    [][\A y \in Users : LET e == out'[y][Len(out'[y])]
                      IN  Len(out'[y]) > Len(out[y]) /\ e.event = "audio_room_event" =>
                              <<e.from, e.id>> \notin told[y]]_vars

\* No event from x to y is on its way.
Settled(x, y) ==
    /\ ~(hand[x].at = "route" /\ hand[x].to = y)
    /\ \A e \in Range(out[y]) : ~Routes(e, x)

\* A user's browser knows whether another user's audio is routed to it, once the
\* events between the two are through, unless one of them was dropped at the
\* queue or overtaken by a later one, which takes a second data channel.
BrowserKnowsRoute ==
    \A x, y \in Users :
        Settled(x, y) /\ <<x, y>> \notin missed => heard[y][x] = PipeAudio[x][y]

\* rtp_track_syncronizer_and_orchestraction.go:229, "chech if user is broadcasing
\* to room and if this particular user is in that room send the media".
RoomMediaStaysInRoom ==
    [][\A x, y \in Users :
          Copied(x, y) => LET p == buffer'[y][x][Len(buffer'[y][x])]
                          IN  p.via # None => y \in access[p.via]]_vars

=============================================================================
