------------------------- MODULE MediaRoutingProofs -------------------------
(***************************************************************************)
(* The safety of MediaRouting for any users, rooms, requests and bounds.   *)
(*                                                                         *)
(* None of the properties is inductive.  Each has a strengthening over the *)
(* variables that it is about: where the loop and the handler of a user    *)
(* are (Places), what a user has wished for since its packet was read      *)
(* (WishesKept), which copies of its packets a buffer may hold (Copies),   *)
(* which room events were queued (ToldOnce, Handled), and what a browser   *)
(* will know of a route when it has taken in its queue (LastWord).         *)
(***************************************************************************)
EXTENDS MediaRouting, SequenceTheorems, TLAPS

Event == [event : {"media_route_audio", "audio_room_event"}, from : Users,
          id : 0 .. MaxMessages, on : BOOLEAN]

Packet == [n : 1 .. MaxPackets, via : Rooms \cup {None}]

Wants == UNION {[R -> BOOLEAN] : R \in SUBSET Rooms}

Hand == [at : {"idle", "route", "accept", "rooms"}, id : 0 .. MaxMessages, want : Wants,
         to : Users \cup {None}, on : BOOLEAN, todo : SUBSET Rooms, members : SUBSET Users,
         sent : SUBSET Users]

Loop == [at : {"range", "send", "rooms"}, n : 0 .. MaxPackets, left : SUBSET Users,
         to : Users \cup {None}, should_pipe : BOOLEAN, rooms : SUBSET Rooms]

\* The types, with those that TypeOK leaves open.
MediaTypes ==
    /\ AudioReceiver \subseteq Users
    /\ member \in [Users -> [Users -> {"none", "entry", "track", "buffer"}]]
    /\ loop \in [Users -> Loop]
    /\ buffer \in [Users -> [Users -> Seq(Packet)]]
    /\ \A y, x \in Users : Len(buffer[y][x]) <= AudioCapacity

RequestTypes ==
    /\ PipeAudio \in [Users -> [Users -> BOOLEAN]]
    /\ AudioRooms \in [Users -> SUBSET Rooms]
    /\ hand \in [Users -> Hand]
    /\ messages \in 0 .. MaxMessages
    /\ crashed \in BOOLEAN

EventTypes ==
    /\ out \in [Users -> Seq(Event)]
    /\ \A y \in Users : Len(out[y]) <= OutCapacity
    /\ senders \in [Users -> 1 .. 2]
    /\ heard \in [Users -> [Users -> BOOLEAN]]
    /\ missed \subseteq Users \X Users
    /\ told \in [Users -> SUBSET (Users \X (1 .. MaxMessages))]

OtherTypes ==
    /\ access \in [Rooms -> {None} \cup SUBSET Users]
    /\ RtpSyncNeeded \in BOOLEAN
    /\ sync \in [on : BOOLEAN, left : SUBSET Pairs, to : Users \cup {None},
                 from : Users \cup {None}]
    /\ wished \in [Users -> SUBSET Users]

\* A room that was accepted is stored.
AcceptedAreStored == \A x \in Users : \A r \in hand[x].todo : access[r] # None

\* Whom the loop of x is at, with a packet.
LoopAt(x) ==
    /\ loop[x].left \subseteq Others(x)
    /\ IF loop[x].at = "range" THEN loop[x].to = None
       ELSE loop[x].to \in Others(x) \ loop[x].left
    /\ loop[x].at # "range" \/ loop[x].left # {} => loop[x].n > 0

\* What the handler of x is at.
HandAt(x) ==
    /\ hand[x].at = "route" => hand[x].to \in Others(x)
    /\ hand[x].at \in {"accept", "rooms"} => hand[x].id > 0
    /\ hand[x].members # {} => hand[x].at = "rooms"

Places == \A x \in Users : LoopAt(x) /\ HandAt(x)

\* What x's requests direct its audio to now, they have directed it to since its
\* packet was read.
WishesKept ==
    \A x \in Users :
        /\ Wished(x) \subseteq wished[x]
        /\ loop[x].at = "send" /\ loop[x].should_pipe => loop[x].to \in wished[x]

\* The copies of x's packets in y's buffer: of the present one none before the
\* loop has been at y, and then by rooms that it has been through.
CopiesOf(x, y) ==
    \A p \in Range(buffer[y][x]) :
        /\ p.n <= loop[x].n
        /\ p.n = loop[x].n =>
              /\ y \notin loop[x].left
              /\ loop[x].to = y => loop[x].at = "rooms" /\ p.via \in Rooms \ loop[x].rooms

Copies == \A x, y \in Users : CopiesOf(x, y)

\* The room events of x that were queued for y: of the present request only if y
\* is marked as sent to.
SentTo(x, y, id) ==
    /\ id <= messages
    /\ hand[x].at \in {"accept", "rooms"} /\ id = hand[x].id => y \in hand[x].sent

ToldOnce ==
    \A x, y \in Users : \A id \in 1 .. MaxMessages : <<x, id>> \in told[y] => SentTo(x, y, id)

\* x's request that is being handled is the only one with its number, and none of
\* the room's members has been sent to.
Handled ==
    \A x \in Users :
        /\ hand[x].id <= messages
        /\ hand[x].members \cap hand[x].sent = {}

\* The i-th event of a queue is the last one about x's route.
LastRoute(q, x, i) ==
    /\ i \in DOMAIN q /\ Routes(q[i], x)
    /\ \A j \in DOMAIN q : j > i => ~Routes(q[j], x)

\* What a browser knows of x's route when it has taken in the queue q, having
\* heard h before.
Leaves(q, x, h, on) ==
    /\ \A i \in DOMAIN q : LastRoute(q, x, i) => q[i].on = on
    /\ (\A i \in DOMAIN q : ~Routes(q[i], x)) => h = on

Telling(x, y) == hand[x].at = "route" /\ hand[x].to = y

\* The route of x to y is what the handler is about to tell, or what the queue
\* leaves y's browser to know.
WordOf(x, y) ==
    <<x, y>> \notin missed =>
        IF Telling(x, y) THEN hand[x].on = PipeAudio[x][y]
        ELSE Leaves(out[y], x, heard[y][x], PipeAudio[x][y])

LastWord == \A x, y \in Users : WordOf(x, y)

Inv ==
    /\ MediaTypes /\ RequestTypes /\ EventTypes /\ OtherTypes
    /\ AcceptedAreStored /\ Places /\ WishesKept /\ ToldOnce /\ Handled /\ LastWord
    /\ Copies /\ NoSecondCopy

-----------------------------------------------------------------------------
(* What the steps leave alone.                                              *)

LEMMA QuietFrame ==
    ASSUME Sync \/ \E room \in LoginRooms : StoreRoom(room[1], room[2])
    PROVE  UNCHANGED <<AudioReceiver, buffer, loop, requests, events, wished>>
  BY DEF Sync, SyncBegin, SyncSkip, SyncEntry, SyncTrack, SyncBuffer, SyncEnd, StoreRoom, media

LEMMA TrackFrame ==
    ASSUME NEW x \in Users, Track(x)
    PROVE  UNCHANGED <<access, member, requests, events, sync>>
  BY DEF Track, TrackStarts, ReadRTP, Pipe, RoomsBegin, RoomsEnd, Unstable, NoMemberTrack,
         NoPeerTrack, RouteCheck, Forward, RoomCheck, renego

LEMMA MessageFrame ==
    ASSUME NEW x \in Users, OnMessage(x)
    PROVE  UNCHANGED <<access, media, renego>>
  BY DEF OnMessage, AudioRoute, AudioRouteTell, AudioRouteRoom, RoomSwitch, RoomEvent,
         RoomEventOpen, RoomEventTell, RoomEventEnd

LEMMA OutgoingFrame ==
    ASSUME NEW y \in Users, Outgoing(y)
    PROVE  UNCHANGED <<access, media, requests, renego, wished, told>>
  BY DEF Outgoing, OnOpen, Deliver

\* All users are different from None, and so are all access lists.
LEMMA NoneIsNone == None \notin Users /\ None \notin Rooms /\ \A list \in SUBSET Users : None # list
  BY RoutingAssumption

-----------------------------------------------------------------------------
(* Types.                                                                   *)

\* A step writes one loop.
LEMMA LoopWritten ==
    ASSUME loop \in [Users -> Loop], NEW x \in Users, NEW v \in Loop,
           loop' = [loop EXCEPT ![x] = v]
    PROVE  loop' \in [Users -> Loop]
  OBVIOUS

LEMMA Bounds == AudioCapacity \in Nat /\ OutCapacity \in Nat /\ MaxPackets \in Nat /\ MaxMessages \in Nat
  BY RoutingAssumption

\* The values that are written.
LEMMA LoopValues ==
    ASSUME MediaTypes, NEW x \in Users,
           NEW l \in SUBSET Users, NEW R \in SUBSET Rooms, NEW y \in Users, NEW b \in BOOLEAN
    PROVE  /\ loop[x] \in Loop
           /\ [loop[x] EXCEPT !.left = l] \in Loop
           /\ loop[x].n < MaxPackets => [loop[x] EXCEPT !.n = loop[x].n + 1, !.left = l] \in Loop
           /\ [loop[x] EXCEPT !.at = "send", !.left = l, !.to = y, !.should_pipe = b] \in Loop
           /\ [loop[x] EXCEPT !.at = "rooms", !.rooms = R] \in Loop
           /\ [loop[x] EXCEPT !.rooms = R] \in Loop
           /\ [loop[x] EXCEPT !.at = "range", !.to = None] \in Loop
<1>1. loop[x] \in Loop
  BY DEF MediaTypes
<1>2. [loop[x] EXCEPT !.left = l] \in Loop
  BY <1>1 DEF Loop
<1>3. ASSUME loop[x].n < MaxPackets
      PROVE  [loop[x] EXCEPT !.n = loop[x].n + 1, !.left = l] \in Loop
  <2>1. loop[x].n + 1 \in 0 .. MaxPackets
    BY <1>1, <1>3, Bounds DEF Loop
  <2>2. QED
    BY <1>1, <2>1 DEF Loop
<1>4. [loop[x] EXCEPT !.at = "send", !.left = l, !.to = y, !.should_pipe = b] \in Loop
  BY <1>1 DEF Loop
<1>5. [loop[x] EXCEPT !.at = "rooms", !.rooms = R] \in Loop
  BY <1>1 DEF Loop
<1>6. [loop[x] EXCEPT !.rooms = R] \in Loop
  BY <1>1 DEF Loop
<1>7. [loop[x] EXCEPT !.at = "range", !.to = None] \in Loop
  BY <1>1 DEF Loop
<1>8. QED
  BY <1>1, <1>2, <1>3, <1>4, <1>5, <1>6, <1>7

LEMMA LoopTypes ==
    ASSUME MediaTypes, RequestTypes, NEW x \in Users, Track(x)
    PROVE  loop' \in [Users -> Loop]
<1>0. loop \in [Users -> Loop] /\ loop[x].left \subseteq Users /\ loop[x].rooms \subseteq Rooms
  BY DEF MediaTypes, Loop
<1>1. CASE TrackStarts(x) \/ \E y \in Users : Forward(y, x)
  BY <1>0, <1>1 DEF TrackStarts, Forward
<1>2. CASE ReadRTP(x)
  <2>1. loop' = [loop EXCEPT ![x] = [loop[x] EXCEPT !.n = loop[x].n + 1, !.left = Others(x)]]
    BY <1>0, <1>2 DEF ReadRTP
  <2>2. [loop[x] EXCEPT !.n = loop[x].n + 1, !.left = Others(x)] \in Loop
    BY <1>2, LoopValues DEF ReadRTP, Others
  <2>3. QED
    BY <1>0, <2>1, <2>2, LoopWritten
<1>3. CASE RoomsBegin(x)
  <2>1. loop' = [loop EXCEPT ![x] = [loop[x] EXCEPT !.at = "rooms", !.rooms = Rooms]]
    BY <1>0, <1>3 DEF RoomsBegin
  <2>2. QED
    BY <1>0, <2>1, LoopWritten, LoopValues
<1>4. CASE Pipe(x) \/ RoomsEnd(x)
  <2>1. loop' = [loop EXCEPT ![x] = [loop[x] EXCEPT !.at = "range", !.to = None]]
    BY <1>0, <1>4 DEF Pipe, RoomsEnd
  <2>2. QED
    BY <1>0, <2>1, LoopWritten, LoopValues
<1>5. ASSUME NEW y \in Users, Unstable(x, y) \/ NoMemberTrack(x, y) \/ NoPeerTrack(x, y)
      PROVE  loop' \in [Users -> Loop]
  <2>1. loop' = [loop EXCEPT ![x] = [loop[x] EXCEPT !.left = loop[x].left \ {y}]]
    BY <1>0, <1>5 DEF Unstable, NoMemberTrack, NoPeerTrack
  <2>2. QED
    BY <1>0, <2>1, LoopWritten, LoopValues
<1>6. ASSUME NEW y \in Users, RouteCheck(x, y)
      PROVE  loop' \in [Users -> Loop]
  <2>1. loop' = [loop EXCEPT ![x] = [loop[x] EXCEPT !.at = "send", !.left = loop[x].left \ {y},
                                                   !.to = y, !.should_pipe = PipeAudio[x][y]]]
    BY <1>0, <1>6 DEF RouteCheck
  <2>2. PipeAudio[x][y] \in BOOLEAN
    BY DEF RequestTypes
  <2>3. QED
    BY <1>0, <2>1, <2>2, LoopWritten, LoopValues
<1>7. ASSUME NEW r \in Rooms, RoomCheck(x, r)
      PROVE  loop' \in [Users -> Loop]
  <2>1. loop' = [loop EXCEPT ![x] = [loop[x] EXCEPT !.rooms = loop[x].rooms \ {r}]]
    BY <1>0, <1>7 DEF RoomCheck
  <2>2. QED
    BY <1>0, <2>1, LoopWritten, LoopValues
<1>8. QED
  BY <1>1, <1>2, <1>3, <1>4, <1>5, <1>6, <1>7 DEF Track

\* A step writes one buffer.
LEMMA BufferWritten ==
    ASSUME buffer \in [Users -> [Users -> Seq(Packet)]], NEW y \in Users, NEW x \in Users,
           NEW q \in Seq(Packet), buffer' = [buffer EXCEPT ![y][x] = q]
    PROVE  /\ buffer' \in [Users -> [Users -> Seq(Packet)]]
           /\ \A i, j \in Users : buffer'[i][j] = IF i = y /\ j = x THEN q ELSE buffer[i][j]
<1>1. buffer' \in [Users -> [Users -> Seq(Packet)]]
  OBVIOUS
<1>2. \A i, j \in Users : buffer'[i][j] = IF i = y /\ j = x THEN q ELSE buffer[i][j]
  OBVIOUS
<1>3. QED
  BY <1>1, <1>2

\* What becomes of a buffer: a copy is appended, or its first packet is taken.
LEMMA CopyEffect ==
    ASSUME MediaTypes, Places, NEW x \in Users, NEW y \in Users, NEW via \in Rooms \cup {None},
           Copy(x, y, via), Sendable(x, y), loop[x].n > 0
    PROVE  /\ buffer' \in [Users -> [Users -> Seq(Packet)]]
           /\ \A i, j \in Users : buffer'[i][j] =
                  IF i = y /\ j = x THEN Append(buffer[y][x], [n |-> loop[x].n, via |-> via])
                  ELSE buffer[i][j]
           /\ \A i, j \in Users : Len(buffer'[i][j]) <= AudioCapacity
<1> DEFINE p == [n |-> loop[x].n, via |-> via]
<1>1. p \in Packet
  <2>1. loop[x].n \in 1 .. MaxPackets
    BY Bounds DEF MediaTypes, Loop
  <2>2. QED
    BY <2>1 DEF Packet
<1>2. buffer \in [Users -> [Users -> Seq(Packet)]] /\ buffer[y][x] \in Seq(Packet)
  BY DEF MediaTypes
<1> DEFINE q == Append(buffer[y][x], p)
<1>3. q \in Seq(Packet) /\ Len(q) = Len(buffer[y][x]) + 1
  BY <1>1, <1>2, AppendProperties
<1>4. buffer' = [buffer EXCEPT ![y][x] = q]
  BY <1>2 DEF Copy
<1> HIDE DEF q
<1>5. /\ buffer' \in [Users -> [Users -> Seq(Packet)]]
      /\ \A i, j \in Users : buffer'[i][j] = IF i = y /\ j = x THEN q ELSE buffer[i][j]
  BY <1>2, <1>3, <1>4, BufferWritten, SMTT(30)
<1>6. Len(buffer[y][x]) < AudioCapacity /\ Len(buffer[y][x]) \in Nat
  BY <1>2, LenProperties DEF Sendable
<1>7. \A i, j \in Users : Len(buffer'[i][j]) <= AudioCapacity
  <2>1. Len(q) <= AudioCapacity
    BY <1>3, <1>6, Bounds
  <2>2. QED
    BY <1>5, <2>1 DEF MediaTypes
<1>8. QED
  BY <1>5, <1>7 DEF q

LEMMA ForwardEffect ==
    ASSUME MediaTypes, NEW x \in Users, NEW y \in Users, Forward(y, x)
    PROVE  /\ buffer' \in [Users -> [Users -> Seq(Packet)]]
           /\ \A i, j \in Users : buffer'[i][j] =
                  IF i = y /\ j = x THEN Tail(buffer[y][x]) ELSE buffer[i][j]
           /\ \A i, j \in Users : Len(buffer'[i][j]) <= AudioCapacity
<1>1. buffer \in [Users -> [Users -> Seq(Packet)]] /\ buffer[y][x] \in Seq(Packet)
  BY DEF MediaTypes
<1> DEFINE q == Tail(buffer[y][x])
<1>2. q \in Seq(Packet) /\ Len(q) = Len(buffer[y][x]) - 1
  BY <1>1, HeadTailProperties DEF Forward
<1>3. buffer' = [buffer EXCEPT ![y][x] = q]
  BY <1>1 DEF Forward
<1> HIDE DEF q
<1>4. /\ buffer' \in [Users -> [Users -> Seq(Packet)]]
      /\ \A i, j \in Users : buffer'[i][j] = IF i = y /\ j = x THEN q ELSE buffer[i][j]
  BY <1>1, <1>2, <1>3, BufferWritten, SMTT(30)
<1>5. Len(q) <= AudioCapacity
  BY <1>1, <1>2, LenProperties, Bounds DEF MediaTypes
<1>6. QED
  BY <1>4, <1>5 DEF q, MediaTypes

\* Where the loop is when it copies a packet.
LEMMA AtCopy ==
    ASSUME MediaTypes, Places, NEW x \in Users, loop[x].at # "range"
    PROVE  loop[x].to \in Users /\ loop[x].to # x /\ loop[x].n > 0
  BY DEF Places, LoopAt, Others

LEMMA MediaTypesStep ==
    ASSUME MediaTypes, Places, RequestTypes, NEW x \in Users, Track(x)
    PROVE  MediaTypes'
<1>1. loop' \in [Users -> Loop]
  BY LoopTypes
<1>2. AudioReceiver' \subseteq Users
  BY DEF MediaTypes, Track, TrackStarts, ReadRTP, Pipe, RoomsBegin, RoomsEnd, Unstable,
         NoMemberTrack, NoPeerTrack, RouteCheck, Forward, RoomCheck
<1>3. member' = member
  BY TrackFrame
<1>4. /\ buffer' \in [Users -> [Users -> Seq(Packet)]]
      /\ \A i, j \in Users : Len(buffer'[i][j]) <= AudioCapacity
  <2>1. CASE Pipe(x)
    BY <2>1, CopyEffect, AtCopy DEF Pipe
  <2>2. ASSUME NEW r \in Rooms, RoomCheck(x, r)
        PROVE  <1>4!1 /\ <1>4!2
    BY <2>2, CopyEffect, AtCopy DEF RoomCheck, MediaTypes
  <2>3. ASSUME NEW y \in Users, Forward(y, x)
        PROVE  <1>4!1 /\ <1>4!2
    BY <2>3, ForwardEffect
  <2>4. CASE UNCHANGED buffer
    BY <2>4 DEF MediaTypes
  <2>5. QED
    BY <2>1, <2>2, <2>3, <2>4
    DEF Track, TrackStarts, ReadRTP, RoomsBegin, RoomsEnd, Unstable, NoMemberTrack,
        NoPeerTrack, RouteCheck
<1>5. QED
  BY <1>1, <1>2, <1>3, <1>4 DEF MediaTypes

\* A step writes one handler.
LEMMA HandWritten ==
    ASSUME hand \in [Users -> Hand], NEW x \in Users, NEW v \in Hand,
           hand' = [hand EXCEPT ![x] = v]
    PROVE  hand' \in [Users -> Hand]
  OBVIOUS

LEMMA EmptyWant ==
    [r \in {} |-> FALSE] \in Wants
<1>1. [r \in {} |-> FALSE] \in [{} -> BOOLEAN] /\ {} \in SUBSET Rooms
  OBVIOUS
<1>2. QED
  BY <1>1 DEF Wants

LEMMA WantRestricted ==
    ASSUME NEW want \in Wants, NEW r
    PROVE  /\ [q \in DOMAIN want \ {r} |-> want[q]] \in Wants
           /\ DOMAIN want \subseteq Rooms
           /\ \A q \in DOMAIN want : want[q] \in BOOLEAN
<1>1. PICK R \in SUBSET Rooms : want \in [R -> BOOLEAN]
  BY DEF Wants
<1>2. [q \in DOMAIN want \ {r} |-> want[q]] \in [R \ {r} -> BOOLEAN]
  BY <1>1
<1>3. R \ {r} \in SUBSET Rooms
  BY <1>1
<1>4. QED
  BY <1>1, <1>2, <1>3 DEF Wants

LEMMA FreeHand ==
    /\ Free \in Hand
    /\ \A y \in Users, b \in BOOLEAN : [Free EXCEPT !.at = "route", !.to = y, !.on = b] \in Hand
    /\ \A n \in 0 .. MaxMessages, want \in Wants :
          [Free EXCEPT !.at = "accept", !.id = n, !.want = want] \in Hand
<1>1. Free \in Hand
  <2>1. 0 \in 0 .. MaxMessages
    BY Bounds
  <2>2. QED
    BY <2>1, EmptyWant DEF Free, Hand
<1>2. ASSUME NEW y \in Users, NEW b \in BOOLEAN
      PROVE  [Free EXCEPT !.at = "route", !.to = y, !.on = b] \in Hand
  BY <1>1 DEF Hand
<1>3. ASSUME NEW n \in 0 .. MaxMessages, NEW want \in Wants
      PROVE  [Free EXCEPT !.at = "accept", !.id = n, !.want = want] \in Hand
  BY <1>1 DEF Hand
<1>4. QED
  BY <1>1, <1>2, <1>3

\* The list of a room that was accepted.
LEMMA AcceptedList ==
    ASSUME OtherTypes, AcceptedAreStored, NEW x \in Users, NEW r \in Rooms, r \in hand[x].todo
    PROVE  access[r] \in SUBSET Users
  BY DEF OtherTypes, AcceptedAreStored

LEMMA HandTypes ==
    ASSUME RequestTypes, OtherTypes, AcceptedAreStored, NEW x \in Users, OnMessage(x)
    PROVE  hand' \in [Users -> Hand]
<1>0. hand \in [Users -> Hand] /\ hand[x] \in Hand
  BY DEF RequestTypes
<1>1. ASSUME NEW y \in Others(x), NEW b \in BOOLEAN, AudioRoute(x, y, b)
      PROVE  hand' \in [Users -> Hand]
  <2>1. hand' = [hand EXCEPT ![x] = [Free EXCEPT !.at = "route", !.to = y, !.on = b]]
    BY <1>1 DEF AudioRoute
  <2>2. [Free EXCEPT !.at = "route", !.to = y, !.on = b] \in Hand
    BY FreeHand DEF Others
  <2>3. QED
    BY <1>0, <2>1, <2>2, HandWritten
<1>2. ASSUME NEW R \in SUBSET Rooms, NEW want \in [R -> BOOLEAN], AudioRouteRoom(x, want)
      PROVE  hand' \in [Users -> Hand]
  <2>1. hand' = [hand EXCEPT ![x] = [Free EXCEPT !.at = "accept", !.id = messages', !.want = want]]
    BY <1>2 DEF AudioRouteRoom
  <2>2. messages' \in 0 .. MaxMessages
    BY <1>2, Bounds DEF AudioRouteRoom, Request, RequestTypes
  <2>3. want \in Wants
    BY DEF Wants
  <2>4. [Free EXCEPT !.at = "accept", !.id = messages', !.want = want] \in Hand
    BY <2>2, <2>3, FreeHand
  <2>5. QED
    BY <1>0, <2>1, <2>4, HandWritten
<1>3. CASE AudioRouteTell(x) \/ RoomEventEnd(x)
  <2>1. hand' = [hand EXCEPT ![x] = Free]
    BY <1>3 DEF AudioRouteTell, RoomEventEnd
  <2>2. Free \in Hand
    BY FreeHand
  <2>3. QED
    BY <1>0, <2>1, <2>2, HandWritten
<1>4. CASE RoomEvent(x)
  <2>1. Free \in Hand
    BY FreeHand
  <2>2. [hand[x] EXCEPT !.at = "rooms"] \in Hand
    BY <1>0 DEF Hand
  <2>3. \E v \in Hand : hand' = [hand EXCEPT ![x] = v]
    BY <1>0, <1>4, <2>1, <2>2 DEF RoomEvent
  <2>4. QED
    BY <1>0, <2>3, HandWritten
<1>5. ASSUME NEW r \in Rooms, RoomSwitch(x, r)
      PROVE  hand' \in [Users -> Hand]
  <2> DEFINE w == [q \in DOMAIN hand[x].want \ {r} |-> hand[x].want[q]]
             a == access[r] # None /\ x \in access[r]
             t == IF a THEN hand[x].todo \cup {r} ELSE hand[x].todo
  <2>1. hand' = [hand EXCEPT ![x] = [hand[x] EXCEPT !.want = w, !.todo = t]]
    BY <1>0, <1>5 DEF RoomSwitch
  <2>2. hand[x].want \in Wants /\ t \in SUBSET Rooms
    BY <1>0 DEF Hand
  <2>3. w \in Wants
    BY <2>2, WantRestricted
  <2> HIDE DEF w, t
  <2>4. [hand[x] EXCEPT !.want = w, !.todo = t] \in Hand
    BY <1>0, <2>2, <2>3 DEF Hand
  <2>5. QED
    BY <1>0, <2>1, <2>4, HandWritten
<1>6. ASSUME NEW r \in Rooms, RoomEventOpen(x, r)
      PROVE  hand' \in [Users -> Hand]
  <2> DEFINE t == hand[x].todo \ {r}
             m == access[r] \ hand[x].sent
  <2>1. hand' = [hand EXCEPT ![x] = [hand[x] EXCEPT !.todo = t, !.members = m]]
    BY <1>0, <1>6 DEF RoomEventOpen
  <2>2. t \in SUBSET Rooms /\ m \in SUBSET Users
    BY <1>0, <1>6, AcceptedList DEF RoomEventOpen, Hand
  <2> HIDE DEF t, m
  <2>3. [hand[x] EXCEPT !.todo = t, !.members = m] \in Hand
    BY <1>0, <2>2 DEF Hand
  <2>4. QED
    BY <1>0, <2>1, <2>3, HandWritten
<1>7. ASSUME NEW y \in Users, RoomEventTell(x, y)
      PROVE  hand' \in [Users -> Hand]
  <2> DEFINE m == hand[x].members \ {y}
             s == hand[x].sent \cup {y}
  <2>1. hand' = [hand EXCEPT ![x] = [hand[x] EXCEPT !.members = m, !.sent = s]]
    BY <1>0, <1>7 DEF RoomEventTell
  <2>2. m \in SUBSET Users /\ s \in SUBSET Users
    BY <1>0 DEF Hand
  <2> HIDE DEF m, s
  <2>3. [hand[x] EXCEPT !.members = m, !.sent = s] \in Hand
    BY <1>0, <2>2 DEF Hand
  <2>4. QED
    BY <1>0, <2>1, <2>3, HandWritten
<1>8. QED
  BY <1>1, <1>2, <1>3, <1>4, <1>5, <1>6, <1>7 DEF OnMessage

LEMMA RequestTypesStep ==
    ASSUME RequestTypes, OtherTypes, AcceptedAreStored, NEW x \in Users, OnMessage(x)
    PROVE  RequestTypes'
<1>1. hand' \in [Users -> Hand]
  BY HandTypes
<1>2. PipeAudio' \in [Users -> [Users -> BOOLEAN]]
  <2>1. ASSUME NEW y \in Others(x), NEW b \in BOOLEAN, AudioRoute(x, y, b)
        PROVE  PipeAudio' \in [Users -> [Users -> BOOLEAN]]
    BY <2>1 DEF AudioRoute, RequestTypes
  <2>2. CASE UNCHANGED PipeAudio
    BY <2>2 DEF RequestTypes
  <2>3. QED
    BY <2>1, <2>2 DEF OnMessage, AudioRouteTell, AudioRouteRoom, RoomSwitch, RoomEvent,
                      RoomEventOpen, RoomEventTell, RoomEventEnd
<1>3. messages' \in 0 .. MaxMessages
  <2>1. CASE Request(x)
    BY <2>1, Bounds DEF Request, RequestTypes
  <2>2. CASE UNCHANGED messages
    BY <2>2 DEF RequestTypes
  <2>3. QED
    BY <2>1, <2>2 DEF OnMessage, AudioRoute, AudioRouteRoom, AudioRouteTell, RoomSwitch,
                      RoomEvent, RoomEventOpen, RoomEventTell, RoomEventEnd
<1>4. AudioRooms' \in [Users -> SUBSET Rooms] /\ crashed' \in BOOLEAN
  <2>1. ASSUME NEW r \in Rooms, RoomSwitch(x, r)
        PROVE  <1>4!1 /\ <1>4!2
    <3>1. \E R \in SUBSET Rooms : AudioRooms' = [AudioRooms EXCEPT ![x] = R]
      BY <2>1 DEF RoomSwitch, RequestTypes
    <3>2. crashed' \in BOOLEAN
      BY <2>1 DEF RoomSwitch
    <3>3. QED
      BY <3>1, <3>2 DEF RequestTypes
  <2>2. CASE UNCHANGED <<AudioRooms, crashed>>
    BY <2>2 DEF RequestTypes
  <2>3. QED
    BY <2>1, <2>2 DEF OnMessage, AudioRoute, AudioRouteTell, AudioRouteRoom, RoomEvent,
                      RoomEventOpen, RoomEventTell, RoomEventEnd
<1>5. QED
  BY <1>1, <1>2, <1>3, <1>4 DEF RequestTypes

\* RemoveAt closes the gap.
LEMMA RemoveAtProperties ==
    ASSUME NEW S, NEW seq \in Seq(S), NEW i \in 1 .. Len(seq)
    PROVE  /\ RemoveAt(seq, i) \in Seq(S)
           /\ Len(RemoveAt(seq, i)) = Len(seq) - 1
           /\ \A j \in 1 .. Len(seq) - 1 :
                 RemoveAt(seq, i)[j] = IF j < i THEN seq[j] ELSE seq[j + 1]
<1> DEFINE before == SubSeq(seq, 1, i - 1)
           after == SubSeq(seq, i + 1, Len(seq))
<1>1. Len(seq) \in Nat /\ \A j \in 1 .. Len(seq) : seq[j] \in S
  BY LenProperties, ElementOfSeq
<1>2. /\ before \in Seq(S) /\ Len(before) = i - 1
      /\ \A j \in 1 .. i - 1 : before[j] = seq[j]
  <2>1. \A j \in 1 .. i - 1 : seq[j] \in S
    BY <1>1
  <2>2. /\ before \in Seq(S)
        /\ Len(before) = IF 1 <= i - 1 THEN (i - 1) - 1 + 1 ELSE 0
        /\ \A j \in 1 .. (i - 1) - 1 + 1 : before[j] = seq[1 + j - 1]
    BY <1>1, <2>1, SubSeqProperties
  <2>3. QED
    BY <1>1, <2>2
<1>3. /\ after \in Seq(S) /\ Len(after) = Len(seq) - i
      /\ \A j \in 1 .. Len(seq) - i : after[j] = seq[i + j]
  <2>1. \A j \in i + 1 .. Len(seq) : seq[j] \in S
    BY <1>1
  <2>2. /\ after \in Seq(S)
        /\ Len(after) = IF i + 1 <= Len(seq) THEN Len(seq) - (i + 1) + 1 ELSE 0
        /\ \A j \in 1 .. Len(seq) - (i + 1) + 1 : after[j] = seq[(i + 1) + j - 1]
    BY <1>1, <2>1, SubSeqProperties
  <2>3. QED
    BY <1>1, <2>2
<1>4. RemoveAt(seq, i) = before \o after
  BY DEF RemoveAt
<1> HIDE DEF before, after
<1>5. /\ before \o after \in Seq(S)
      /\ Len(before \o after) = Len(before) + Len(after)
      /\ \A j \in 1 .. Len(before) + Len(after) :
            (before \o after)[j] = IF j <= Len(before) THEN before[j] ELSE after[j - Len(before)]
  BY <1>2, <1>3, ConcatProperties
<1>6. ASSUME NEW j \in 1 .. Len(seq) - 1
      PROVE  (before \o after)[j] = IF j < i THEN seq[j] ELSE seq[j + 1]
  <2>1. CASE j < i
    BY <1>1, <1>2, <1>3, <1>5, <2>1
  <2>2. CASE ~(j < i)
    <3>1. (before \o after)[j] = after[j - (i - 1)] /\ j - (i - 1) \in 1 .. Len(seq) - i
      BY <1>1, <1>2, <1>3, <1>5, <2>2
    <3>2. after[j - (i - 1)] = seq[i + (j - (i - 1))]
      BY <1>3, <3>1
    <3>3. i + (j - (i - 1)) = j + 1
      BY <1>1
    <3>4. QED
      BY <2>2, <3>1, <3>2, <3>3
  <2>3. QED
    BY <2>1, <2>2
<1>7. QED
  BY <1>1, <1>2, <1>3, <1>4, <1>5, <1>6

\* An event of x is queued for y, or it is dropped and recorded as missed.
TellOutcome(x, y, event) ==
    /\ heard' = heard
    /\ \A i \in Users \ {y} : out'[i] = out[i] /\ told'[i] = told[i]
    /\ \/ /\ out'[y] = Append(out[y], event) /\ missed' = missed
          /\ told'[y] = IF event.event = "audio_room_event"
                        THEN told[y] \cup {<<x, event.id>>} ELSE told[y]
       \/ out' = out /\ told' = told /\ missed' = missed \cup {<<x, y>>}

LEMMA TellEffect ==
    ASSUME EventTypes, NEW x \in Users, NEW y \in Users, NEW event \in Event, Tell(x, y, event),
           event.event = "audio_room_event" => event.id > 0
    PROVE  EventTypes' /\ TellOutcome(x, y, event)
<1> DEFINE q == Append(out[y], event)
<1>1. /\ out \in [Users -> Seq(Event)] /\ out[y] \in Seq(Event)
      /\ told \in [Users -> SUBSET (Users \X (1 .. MaxMessages))]
  BY DEF EventTypes
<1>2. q \in Seq(Event) /\ Len(q) = Len(out[y]) + 1 /\ Len(out[y]) \in Nat
  BY <1>1, AppendProperties, LenProperties
<1> HIDE DEF q
<1>3. CASE /\ Len(out[y]) < OutCapacity
           /\ out' = [out EXCEPT ![y] = q]
           /\ told' = IF event.event = "audio_room_event"
                      THEN [told EXCEPT ![y] = @ \cup {<<x, event.id>>}] ELSE told
           /\ UNCHANGED missed
  <2>1. out' \in [Users -> Seq(Event)] /\ \A i \in Users : Len(out'[i]) <= OutCapacity
    <3>1. Len(q) <= OutCapacity
      BY <1>2, <1>3, Bounds
    <3>2. QED
      BY <1>1, <1>2, <1>3, <3>1 DEF EventTypes
  <2>2. told' \in [Users -> SUBSET (Users \X (1 .. MaxMessages))]
    <3>1. event.event = "audio_room_event" => event.id \in 1 .. MaxMessages
      BY Bounds DEF Event
    <3>2. CASE event.event = "audio_room_event"
      <4>1. told[y] \cup {<<x, event.id>>} \in SUBSET (Users \X (1 .. MaxMessages))
        BY <1>1, <3>1, <3>2
      <4>2. QED
        BY <1>1, <1>3, <3>2, <4>1
    <3>3. CASE event.event # "audio_room_event"
      BY <1>1, <1>3, <3>3
    <3>4. QED
      BY <3>2, <3>3
  <2>3. EventTypes'
    BY <1>3, <2>1, <2>2 DEF EventTypes, Tell
  <2>4. QED
    BY <1>1, <1>3, <2>3 DEF Tell, TellOutcome, q
<1>4. CASE missed' = missed \cup {<<x, y>>} /\ UNCHANGED <<out, told>>
  <2>1. EventTypes'
    BY <1>4 DEF EventTypes, Tell
  <2>2. QED
    BY <1>4, <2>1 DEF Tell, TellOutcome
<1>5. QED
  BY <1>3, <1>4 DEF Tell, q

\* An event is taken out of the queue and reaches the browser.
LEMMA DeliverEffect ==
    ASSUME EventTypes, NEW y \in Users, NEW i \in DOMAIN out[y], Deliver(y, i)
    PROVE  /\ EventTypes'
           /\ i \in 1 .. Len(out[y])
           /\ \A j \in Users \ {y} : out'[j] = out[j]
           /\ out'[y] = RemoveAt(out[y], i)
<1>1. out \in [Users -> Seq(Event)] /\ out[y] \in Seq(Event)
  BY DEF EventTypes
<1>2. Len(out[y]) \in Nat /\ i \in 1 .. Len(out[y]) /\ out[y][i] \in Event
  BY <1>1, LenProperties, ElementOfSeq
<1> DEFINE q == RemoveAt(out[y], i)
<1>3. q \in Seq(Event) /\ Len(q) = Len(out[y]) - 1
  BY <1>1, <1>2, RemoveAtProperties
<1>4. out' = [out EXCEPT ![y] = q]
  BY <1>1 DEF Deliver
<1> HIDE DEF q
<1>5. out' \in [Users -> Seq(Event)] /\ \A j \in Users : Len(out'[j]) <= OutCapacity
  <2>1. Len(q) <= OutCapacity
    BY <1>2, <1>3, Bounds DEF EventTypes
  <2>2. QED
    BY <1>1, <1>3, <1>4, <2>1 DEF EventTypes
<1>6. heard' \in [Users -> [Users -> BOOLEAN]] /\ missed' \subseteq Users \X Users
  <2>1. out[y][i].from \in Users /\ out[y][i].on \in BOOLEAN
    BY <1>2 DEF Event
  <2>2. QED
    BY <2>1 DEF Deliver, EventTypes
<1>7. EventTypes'
  BY <1>5, <1>6 DEF EventTypes, Deliver
<1>8. QED
  BY <1>1, <1>2, <1>4, <1>7 DEF q

LEMMA QuietMediaTypes ==
    ASSUME MediaTypes, OtherTypes, Sync \/ \E room \in LoginRooms : StoreRoom(room[1], room[2])
    PROVE  MediaTypes'
<1>1. member' \in [Users -> [Users -> {"none", "entry", "track", "buffer"}]]
  <2>1. ASSUME NEW y \in Users, NEW x \in Users, SyncEntry(y, x)
        PROVE  member' \in [Users -> [Users -> {"none", "entry", "track", "buffer"}]]
    BY <2>1 DEF SyncEntry, MediaTypes
  <2>2. CASE SyncTrack
    BY <2>2 DEF SyncTrack, MediaTypes
  <2>3. CASE SyncBuffer
    BY <2>3 DEF SyncBuffer, MediaTypes
  <2>4. CASE UNCHANGED member
    BY <2>4 DEF MediaTypes
  <2>5. QED
    BY <2>1, <2>2, <2>3, <2>4 DEF Sync, SyncBegin, SyncSkip, SyncEnd, StoreRoom, media
<1>2. QED
  BY <1>1, QuietFrame DEF MediaTypes

LEMMA QuietOtherTypes ==
    ASSUME OtherTypes, Sync \/ \E room \in LoginRooms : StoreRoom(room[1], room[2])
    PROVE  OtherTypes'
<1>1. access' \in [Rooms -> {None} \cup SUBSET Users]
  <2>1. ASSUME NEW room \in LoginRooms, StoreRoom(room[1], room[2])
        PROVE  access' \in [Rooms -> {None} \cup SUBSET Users]
    <3>1. room[2] \in SUBSET Users
      BY RoutingAssumption
    <3>2. QED
      BY <2>1, <3>1 DEF StoreRoom, OtherTypes
  <2>2. CASE Sync
    BY <2>2 DEF Sync, SyncBegin, SyncSkip, SyncEntry, SyncTrack, SyncBuffer, SyncEnd, OtherTypes
  <2>3. QED
    BY <2>1, <2>2
<1> DEFINE S == [on : BOOLEAN, left : SUBSET Pairs, to : Users \cup {None}, from : Users \cup {None}]
<1>2. sync' \in S
  <2>1. sync \in S
    BY DEF OtherTypes
  <2>2. CASE SyncBegin
    BY <2>1, <2>2 DEF SyncBegin
  <2>3. ASSUME NEW y \in Users, NEW x \in Users, SyncSkip(y, x) \/ SyncEntry(y, x)
        PROVE  sync' \in S
    <3>1. sync.left \ {<<y, x>>} \in SUBSET Pairs
      BY <2>1
    <3>2. QED
      BY <2>1, <2>3, <3>1 DEF SyncSkip, SyncEntry
  <2>4. CASE SyncBuffer \/ SyncEnd
    BY <2>1, <2>4 DEF SyncBuffer, SyncEnd
  <2>5. CASE UNCHANGED sync
    BY <2>1, <2>5
  <2>6. QED
    BY <2>2, <2>3, <2>4, <2>5 DEF Sync, SyncTrack, StoreRoom, renego
<1>3. RtpSyncNeeded' \in BOOLEAN
  BY DEF Sync, SyncBegin, SyncSkip, SyncEntry, SyncTrack, SyncBuffer, SyncEnd, StoreRoom, renego,
         OtherTypes
<1>4. QED
  BY <1>1, <1>2, <1>3, QuietFrame DEF OtherTypes

LEMMA WishedSet ==
    ASSUME NEW x \in Users
    PROVE  Wished(x) \subseteq Users /\ Others(x) \subseteq Users
  BY DEF Wished, Others

LEMMA OtherTypesStep ==
    ASSUME OtherTypes, NEW x \in Users, Track(x) \/ OnMessage(x) \/ Outgoing(x)
    PROVE  OtherTypes'
<1>1. access' = access /\ sync' = sync
  BY TrackFrame, MessageFrame, OutgoingFrame DEF renego
<1>2. RtpSyncNeeded' \in BOOLEAN
  <2>1. CASE Track(x)
    BY <2>1
    DEF Track, TrackStarts, ReadRTP, Pipe, RoomsBegin, RoomsEnd, Unstable, NoMemberTrack,
        NoPeerTrack, RouteCheck, Forward, RoomCheck, renego, OtherTypes
  <2>2. CASE OnMessage(x) \/ Outgoing(x)
    BY <2>2, MessageFrame, OutgoingFrame DEF renego, OtherTypes
  <2>3. QED
    BY <2>1, <2>2
<1>3. wished' \in [Users -> SUBSET Users]
  <2>1. CASE ReadRTP(x)
    BY <2>1, WishedSet DEF ReadRTP, OtherTypes
  <2>2. ASSUME NEW y \in Others(x), NEW b \in BOOLEAN, AudioRoute(x, y, b)
        PROVE  wished' \in [Users -> SUBSET Users]
    <3>1. wished[x] \cup {y} \in SUBSET Users
      BY WishedSet DEF OtherTypes
    <3>2. QED
      BY <2>2, <3>1 DEF AudioRoute, OtherTypes
  <2>3. ASSUME NEW r \in Rooms, RoomSwitch(x, r)
        PROVE  wished' \in [Users -> SUBSET Users]
    BY <2>3, WishedSet DEF RoomSwitch, OtherTypes
  <2>4. CASE UNCHANGED wished
    BY <2>4 DEF OtherTypes
  <2>5. QED
    BY <2>1, <2>2, <2>3, <2>4, OutgoingFrame
    DEF Track, TrackStarts, Pipe, RoomsBegin, RoomsEnd, Unstable, NoMemberTrack, NoPeerTrack,
        RouteCheck, Forward, RoomCheck, OnMessage, AudioRouteTell, AudioRouteRoom, RoomEvent,
        RoomEventOpen, RoomEventTell, RoomEventEnd
<1>4. QED
  BY <1>1, <1>2, <1>3 DEF OtherTypes

\* The events that OnMessage queues.
LEMMA RouteTells ==
    ASSUME EventTypes, RequestTypes, Places, NEW x \in Users, AudioRouteTell(x)
    PROVE  /\ EventTypes'
           /\ \E y \in Others(x), event \in Event :
                 /\ y = hand[x].to /\ event.from = x /\ event.on = hand[x].on
                 /\ event.event = "media_route_audio"
                 /\ TellOutcome(x, y, event)
<1>1. PICK y : y = hand[x].to
  OBVIOUS
<1>2. y \in Others(x) /\ y \in Users
  BY <1>1 DEF AudioRouteTell, Places, HandAt, Others
<1>3. PICK event : event = [event |-> "media_route_audio", from |-> x, id |-> 0,
                            on |-> hand[x].on]
  OBVIOUS
<1>4. event \in Event
  BY <1>3, Bounds DEF Event, RequestTypes, Hand
<1>5. Tell(x, y, event)
  BY <1>1, <1>3 DEF AudioRouteTell
<1>6. /\ event.event = "media_route_audio" /\ event.from = x /\ event.on = hand[x].on
  BY <1>3
<1>7. EventTypes' /\ TellOutcome(x, y, event)
  BY <1>2, <1>4, <1>5, <1>6, TellEffect
<1>8. QED
  BY <1>1, <1>2, <1>4, <1>6, <1>7

LEMMA RoomTells ==
    ASSUME EventTypes, RequestTypes, Places, NEW x \in Users, NEW y \in Users, RoomEventTell(x, y)
    PROVE  /\ EventTypes'
           /\ \E event \in Event :
                 /\ event.from = x /\ event.id = hand[x].id /\ event.id > 0
                 /\ event.event = "audio_room_event"
                 /\ TellOutcome(x, y, event)
<1>1. PICK event : event = [event |-> "audio_room_event", from |-> x, id |-> hand[x].id,
                            on |-> TRUE]
  OBVIOUS
<1>2. event \in Event
  BY <1>1 DEF Event, RequestTypes, Hand
<1>3. Tell(x, y, event)
  BY <1>1 DEF RoomEventTell
<1>4. event.event = "audio_room_event" /\ event.from = x /\ event.id = hand[x].id
  BY <1>1
<1>5. hand[x].id > 0
  BY DEF RoomEventTell, Places, HandAt
<1>6. EventTypes' /\ TellOutcome(x, y, event)
  BY <1>2, <1>3, <1>4, <1>5, TellEffect
<1>7. QED
  BY <1>2, <1>4, <1>5, <1>6

LEMMA EventTypesStep ==
    ASSUME EventTypes, RequestTypes, Places, NEW x \in Users, OnMessage(x) \/ Outgoing(x)
    PROVE  EventTypes'
<1>1. CASE AudioRouteTell(x)
  BY <1>1, RouteTells
<1>2. ASSUME NEW y \in Users, RoomEventTell(x, y)
      PROVE  EventTypes'
  BY <1>2, RoomTells
<1>3. ASSUME NEW i \in DOMAIN out[x], Deliver(x, i)
      PROVE  EventTypes'
  BY <1>3, DeliverEffect
<1>4. CASE OnOpen(x)
  BY <1>4 DEF OnOpen, EventTypes
<1>5. CASE UNCHANGED events
  BY <1>5 DEF events, EventTypes
<1>6. QED
  BY <1>1, <1>2, <1>3, <1>4, <1>5
  DEF OnMessage, AudioRoute, AudioRouteRoom, RoomSwitch, RoomEvent, RoomEventOpen, RoomEventEnd,
      Outgoing

-----------------------------------------------------------------------------
(* Places.                                                                  *)

LEMMA LoopOthers ==
    ASSUME MediaTypes, NEW x \in Users, Track(x)
    PROVE  \A i \in Users \ {x} : loop'[i] = loop[i]
  BY DEF MediaTypes, Track, TrackStarts, ReadRTP, Pipe, RoomsBegin, RoomsEnd, Unstable,
         NoMemberTrack, NoPeerTrack, RouteCheck, Forward, RoomCheck

LEMMA HandOthers ==
    ASSUME RequestTypes, NEW x \in Users, OnMessage(x)
    PROVE  \A i \in Users \ {x} : hand'[i] = hand[i]
  BY DEF RequestTypes, OnMessage, AudioRoute, AudioRouteTell, AudioRouteRoom, RoomSwitch,
         RoomEvent, RoomEventOpen, RoomEventTell, RoomEventEnd

LEMMA LoopAtStep ==
    ASSUME MediaTypes, NEW x \in Users, LoopAt(x), Track(x)
    PROVE  LoopAt(x)'
<1>0. loop \in [Users -> Loop] /\ loop[x] \in Loop
  BY DEF MediaTypes
<1>1. CASE TrackStarts(x) \/ \E y \in Users : Forward(y, x)
  BY <1>1 DEF TrackStarts, Forward, LoopAt, Others
<1>2. CASE ReadRTP(x)
  <2>1. /\ loop'[x].left = Others(x) /\ loop'[x].at = "range" /\ loop'[x].to = loop[x].to
        /\ loop'[x].n = loop[x].n + 1
    BY <1>0, <1>2 DEF ReadRTP, Loop
  <2>2. QED
    BY <1>0, <1>2, <2>1 DEF ReadRTP, LoopAt, Loop, Others
<1>3. CASE RoomsBegin(x)
  BY <1>0, <1>3, NoneIsNone DEF RoomsBegin, LoopAt, Loop, Others
<1>4. CASE Pipe(x) \/ RoomsEnd(x)
  BY <1>0, <1>4 DEF Pipe, RoomsEnd, LoopAt, Loop, Others
<1>5. ASSUME NEW y \in Users, Unstable(x, y) \/ NoMemberTrack(x, y) \/ NoPeerTrack(x, y)
      PROVE  LoopAt(x)'
  BY <1>0, <1>5 DEF Unstable, NoMemberTrack, NoPeerTrack, ComesTo, LoopAt, Loop, Others
<1>6. ASSUME NEW y \in Users, RouteCheck(x, y)
      PROVE  LoopAt(x)'
  BY <1>0, <1>6 DEF RouteCheck, ComesTo, LoopAt, Loop, Others
<1>7. ASSUME NEW r \in Rooms, RoomCheck(x, r)
      PROVE  LoopAt(x)'
  BY <1>0, <1>7 DEF RoomCheck, LoopAt, Loop, Others
<1>8. QED
  BY <1>1, <1>2, <1>3, <1>4, <1>5, <1>6, <1>7 DEF Track

LEMMA HandAtStep ==
    ASSUME RequestTypes, NEW x \in Users, HandAt(x), OnMessage(x)
    PROVE  HandAt(x)'
<1>0. hand \in [Users -> Hand] /\ hand[x] \in Hand
  BY DEF RequestTypes
<1>1. ASSUME NEW y \in Others(x), NEW b \in BOOLEAN, AudioRoute(x, y, b)
      PROVE  HandAt(x)'
  BY <1>0, <1>1 DEF AudioRoute, Free, HandAt, Others
<1>2. ASSUME NEW R \in SUBSET Rooms, NEW want \in [R -> BOOLEAN], AudioRouteRoom(x, want)
      PROVE  HandAt(x)'
  <2>1. /\ hand'[x].at = "accept" /\ hand'[x].members = {}
        /\ hand'[x].id = messages + 1
    BY <1>0, <1>2 DEF AudioRouteRoom, Request, Free
  <2>2. QED
    BY <2>1 DEF RequestTypes, HandAt
<1>3. CASE AudioRouteTell(x) \/ RoomEventEnd(x)
  BY <1>0, <1>3 DEF AudioRouteTell, RoomEventEnd, Free, HandAt
<1>4. CASE RoomEvent(x)
  BY <1>0, <1>4 DEF RoomEvent, Free, HandAt, Hand
<1>5. ASSUME NEW r \in Rooms, RoomSwitch(x, r)
      PROVE  HandAt(x)'
  <2>1. /\ hand'[x].at = hand[x].at /\ hand'[x].members = hand[x].members
        /\ hand'[x].id = hand[x].id /\ hand'[x].to = hand[x].to
    BY <1>0, <1>5 DEF RoomSwitch, Hand
  <2>2. QED
    BY <2>1 DEF HandAt, Others
<1>6. ASSUME NEW r \in Rooms, RoomEventOpen(x, r)
      PROVE  HandAt(x)'
  BY <1>0, <1>6 DEF RoomEventOpen, HandAt, Hand, Others
<1>7. ASSUME NEW y \in Users, RoomEventTell(x, y)
      PROVE  HandAt(x)'
  <2>1. /\ hand'[x].at = hand[x].at /\ hand'[x].members \subseteq hand[x].members
        /\ hand'[x].id = hand[x].id /\ hand'[x].to = hand[x].to
    BY <1>0, <1>7 DEF RoomEventTell, Hand
  <2>2. QED
    BY <2>1 DEF HandAt, Others
<1>8. QED
  BY <1>1, <1>2, <1>3, <1>4, <1>5, <1>6, <1>7 DEF OnMessage

LEMMA PlacesStep ==
    ASSUME MediaTypes, RequestTypes, Places, Next
    PROVE  Places'
<1>1. ASSUME NEW x \in Users, Track(x)
      PROVE  Places'
  <2>1. hand' = hand
    BY <1>1, TrackFrame DEF requests
  <2>2. \A i \in Users : HandAt(i)'
    BY <2>1 DEF Places, HandAt, Others
  <2>3. LoopAt(x)'
    BY <1>1, LoopAtStep DEF Places
  <2>4. \A i \in Users \ {x} : LoopAt(i)'
    BY <1>1, LoopOthers DEF Places, LoopAt, Others
  <2>5. QED
    BY <2>2, <2>3, <2>4 DEF Places
<1>2. ASSUME NEW x \in Users, OnMessage(x)
      PROVE  Places'
  <2>1. loop' = loop
    BY <1>2, MessageFrame DEF media
  <2>2. \A i \in Users : LoopAt(i)'
    BY <2>1 DEF Places, LoopAt, Others
  <2>3. HandAt(x)'
    BY <1>2, HandAtStep DEF Places
  <2>4. \A i \in Users \ {x} : HandAt(i)'
    BY <1>2, HandOthers DEF Places, HandAt, Others
  <2>5. QED
    BY <2>2, <2>3, <2>4 DEF Places
<1>3. CASE loop' = loop /\ hand' = hand
  BY <1>3 DEF Places, LoopAt, HandAt, Others
<1>4. QED
  BY <1>1, <1>2, <1>3, QuietFrame, OutgoingFrame DEF Next, media, requests

LEMMA AcceptedStep ==
    ASSUME RequestTypes, OtherTypes, AcceptedAreStored, Next
    PROVE  AcceptedAreStored'
<1>1. ASSUME NEW room \in LoginRooms, StoreRoom(room[1], room[2])
      PROVE  AcceptedAreStored'
  <2>1. room[2] # None
    BY RoutingAssumption
  <2>2. hand' = hand
    BY <1>1 DEF StoreRoom, requests
  <2>3. \A r \in Rooms : access[r] # None => access'[r] # None
    BY <1>1, <2>1 DEF StoreRoom, OtherTypes
  <2>4. QED
    BY <2>2, <2>3 DEF AcceptedAreStored, RequestTypes, Hand
<1>2. ASSUME NEW x \in Users, OnMessage(x)
      PROVE  AcceptedAreStored'
  <2>0. hand \in [Users -> Hand] /\ hand[x] \in Hand
    BY DEF RequestTypes
  <2>1. access' = access
    BY <1>2, MessageFrame
  <2>2. ASSUME NEW r \in Rooms, RoomSwitch(x, r)
        PROVE  \A q \in hand'[x].todo : access[q] # None
    BY <2>0, <2>2 DEF RoomSwitch, AcceptedAreStored, Hand
  <2>3. ASSUME NEW y \in Others(x), NEW b \in BOOLEAN, AudioRoute(x, y, b)
        PROVE  hand'[x].todo = {}
    BY <2>0, <2>3 DEF AudioRoute, Free
  <2>4. ASSUME NEW want, AudioRouteRoom(x, want)
        PROVE  hand'[x].todo = {}
    BY <2>0, <2>4 DEF AudioRouteRoom, Free
  <2>5. ASSUME AudioRouteTell(x) \/ RoomEvent(x) \/ RoomEventEnd(x)
        PROVE  hand'[x].todo \subseteq hand[x].todo
    BY <2>0, <2>5 DEF AudioRouteTell, RoomEvent, RoomEventEnd, Free, Hand
  <2>6. ASSUME NEW r, RoomEventOpen(x, r) \/ RoomEventTell(x, r)
        PROVE  hand'[x].todo \subseteq hand[x].todo
    BY <2>0, <2>6 DEF RoomEventOpen, RoomEventTell, Hand
  <2>7. \A q \in hand'[x].todo : access[q] # None
    BY <1>2, <2>1, <2>2, <2>3, <2>4, <2>5, <2>6 DEF OnMessage, AcceptedAreStored
  <2>8. QED
    BY <1>2, <2>1, <2>7, HandOthers DEF AcceptedAreStored
<1>3. CASE access' = access /\ hand' = hand
  BY <1>3 DEF AcceptedAreStored
<1>4. CASE Sync
  BY <1>4, <1>3, QuietFrame
  DEF Sync, SyncBegin, SyncSkip, SyncEntry, SyncTrack, SyncBuffer, SyncEnd, requests
<1>5. QED
  BY <1>1, <1>2, <1>3, <1>4, TrackFrame, OutgoingFrame DEF Next, requests

-----------------------------------------------------------------------------
(* Room events.                                                             *)

\* What a step of the handler does to its request.
LEMMA RequestKept ==
    ASSUME RequestTypes, Handled, NEW x \in Users, OnMessage(x)
    PROVE  /\ hand'[x].id <= messages' /\ messages <= messages'
           /\ hand'[x].members \cap hand'[x].sent = {}
           /\ \A y \in Users, id \in 1 .. MaxMessages : SentTo(x, y, id) => SentTo(x, y, id)'
<1>0. hand \in [Users -> Hand] /\ hand[x] \in Hand /\ messages \in 0 .. MaxMessages
  BY DEF RequestTypes
<1> DEFINE G == /\ hand'[x].id <= messages' /\ messages <= messages'
                /\ hand'[x].members \cap hand'[x].sent = {}
                /\ \A y \in Users, id \in 1 .. MaxMessages : SentTo(x, y, id) => SentTo(x, y, id)'
<1>1. ASSUME NEW y \in Others(x), NEW b \in BOOLEAN, AudioRoute(x, y, b)
      PROVE  G
  <2>1. /\ hand'[x].at = "route" /\ hand'[x].members = {} /\ hand'[x].id = 0
        /\ messages' = messages + 1
    BY <1>0, <1>1 DEF AudioRoute, Request, Free
  <2>2. QED
    BY <1>0, <2>1, Bounds DEF SentTo
<1>2. ASSUME NEW want, AudioRouteRoom(x, want)
      PROVE  G
  <2>1. /\ hand'[x].at = "accept" /\ hand'[x].members = {} /\ hand'[x].id = messages'
        /\ messages' = messages + 1
    BY <1>0, <1>2 DEF AudioRouteRoom, Request, Free
  <2>2. QED
    BY <1>0, <2>1, Bounds DEF SentTo
<1>3. CASE AudioRouteTell(x) \/ RoomEventEnd(x)
  <2>1. /\ hand'[x].at = "idle" /\ hand'[x].members = {} /\ hand'[x].id = 0
        /\ messages' = messages
    BY <1>0, <1>3 DEF AudioRouteTell, RoomEventEnd, Free
  <2>2. QED
    BY <1>0, <2>1, Bounds DEF SentTo
<1>4. CASE RoomEvent(x)
  <2>1. CASE hand[x].todo = {}
    <3>1. /\ hand'[x].at = "idle" /\ hand'[x].members = {} /\ hand'[x].id = 0
          /\ messages' = messages
      BY <1>0, <1>4, <2>1 DEF RoomEvent, Free
    <3>2. QED
      BY <1>0, <3>1, Bounds DEF SentTo
  <2>2. CASE hand[x].todo # {}
    <3>1. /\ hand[x].at = "accept" /\ hand'[x].id = hand[x].id
          /\ hand'[x].members = hand[x].members /\ hand'[x].sent = hand[x].sent
          /\ messages' = messages
      BY <1>0, <1>4, <2>2 DEF RoomEvent, Hand
    <3>2. QED
      BY <1>0, <3>1 DEF SentTo, Handled
  <2>3. QED
    BY <2>1, <2>2
<1>5. ASSUME NEW r \in Rooms, RoomSwitch(x, r)
      PROVE  G
  <2>1. /\ hand'[x].at = hand[x].at /\ hand'[x].id = hand[x].id
        /\ hand'[x].members = hand[x].members /\ hand'[x].sent = hand[x].sent
        /\ messages' = messages
    BY <1>0, <1>5 DEF RoomSwitch, Hand
  <2>2. QED
    BY <1>0, <2>1 DEF SentTo, Handled
<1>6. ASSUME NEW r \in Rooms, RoomEventOpen(x, r)
      PROVE  G
  <2>1. /\ hand'[x].at = hand[x].at /\ hand'[x].id = hand[x].id
        /\ hand'[x].members = access[r] \ hand[x].sent /\ hand'[x].sent = hand[x].sent
        /\ messages' = messages
    BY <1>0, <1>6 DEF RoomEventOpen, Hand
  <2>2. QED
    BY <1>0, <2>1 DEF SentTo, Handled
<1>7. ASSUME NEW y \in Users, RoomEventTell(x, y)
      PROVE  G
  <2>1. /\ hand'[x].at = hand[x].at /\ hand'[x].id = hand[x].id
        /\ hand'[x].members = hand[x].members \ {y} /\ hand'[x].sent = hand[x].sent \cup {y}
        /\ messages' = messages
    BY <1>0, <1>7 DEF RoomEventTell, Hand
  <2>2. QED
    BY <1>0, <2>1 DEF SentTo, Handled
<1>8. QED
  BY <1>1, <1>2, <1>3, <1>4, <1>5, <1>6, <1>7 DEF OnMessage

\* What a request has told stays so.
LEMMA SentToStep ==
    ASSUME RequestTypes, Handled, NEW x \in Users, OnMessage(x)
    PROVE  /\ Handled'
           /\ \A i, y \in Users, id \in 1 .. MaxMessages : SentTo(i, y, id) => SentTo(i, y, id)'
<1>1. /\ messages \in 0 .. MaxMessages /\ messages' \in 0 .. MaxMessages /\ messages <= messages'
      /\ \A i \in Users : hand[i].id \in 0 .. MaxMessages
  <2>1. CASE Request(x)
    BY <2>1, RequestKept, Bounds DEF Request, RequestTypes, Hand
  <2>2. CASE messages' = messages
    BY <2>2, RequestKept DEF RequestTypes, Hand
  <2>3. QED
    BY <2>1, <2>2 DEF OnMessage, AudioRoute, AudioRouteRoom, AudioRouteTell, RoomSwitch,
                      RoomEvent, RoomEventOpen, RoomEventTell, RoomEventEnd
<1>2. ASSUME NEW i \in Users, i # x
      PROVE  /\ hand'[i].id <= messages' /\ hand'[i].members \cap hand'[i].sent = {}
             /\ \A y \in Users, id \in 1 .. MaxMessages : SentTo(i, y, id) => SentTo(i, y, id)'
  <2>1. hand'[i] = hand[i]
    BY <1>2, HandOthers
  <2>2. QED
    BY <1>1, <2>1, Bounds DEF Handled, SentTo
<1>3. QED
  BY <1>2, RequestKept DEF Handled

LEMMA ToldStep ==
    ASSUME RequestTypes, EventTypes, Places, ToldOnce, Handled, Next
    PROVE  ToldOnce' /\ Handled'
<1>1. CASE told' = told /\ UNCHANGED <<hand, messages>>
  BY <1>1 DEF ToldOnce, Handled, SentTo
<1>2. ASSUME NEW x \in Users, OnMessage(x)
      PROVE  ToldOnce' /\ Handled'
  <2>1. ASSUME \A i \in Users : told'[i] \subseteq told[i]
        PROVE  ToldOnce'
    BY <1>2, <2>1, SentToStep DEF ToldOnce
  <2>2. ASSUME AudioRouteTell(x)
        PROVE  ToldOnce'
    <3>1. \A i \in Users : told'[i] \subseteq told[i]
      BY <2>2, RouteTells DEF TellOutcome
    <3>2. QED
      BY <2>1, <3>1
  <2>3. ASSUME NEW y \in Users, RoomEventTell(x, y)
        PROVE  ToldOnce'
    <3>1. /\ \A i \in Users \ {y} : told'[i] = told[i]
          /\ told'[y] \subseteq told[y] \cup {<<x, hand[x].id>>}
      <4>1. PICK v \in Event : v.id = hand[x].id /\ TellOutcome(x, y, v)
        BY <2>3, RoomTells
      <4>2. QED
        BY <4>1 DEF TellOutcome
    <3>2. hand'[x].id = hand[x].id /\ y \in hand'[x].sent
      BY <2>3 DEF RoomEventTell, RequestTypes, Hand
    <3>3. SentTo(x, y, hand[x].id)'
      BY <1>2, <3>2, RequestKept DEF SentTo
    <3>4. ASSUME NEW i \in Users, NEW j \in Users, NEW id \in 1 .. MaxMessages,
                 <<i, id>> \in told'[j]
          PROVE  SentTo(i, j, id)'
      <4>1. CASE <<i, id>> \in told[j]
        BY <1>2, <4>1, SentToStep DEF ToldOnce
      <4>2. CASE i = x /\ id = hand[x].id /\ j = y
        BY <3>2, <3>3, <4>2 DEF SentTo
      <4>3. QED
        BY <3>1, <3>4, <4>1, <4>2
    <3>5. QED
      BY <3>4 DEF ToldOnce
  <2>4. ASSUME told' = told
        PROVE  ToldOnce'
    BY <2>1, <2>4
  <2>5. ToldOnce'
    BY <1>2, <2>2, <2>3, <2>4
    DEF OnMessage, AudioRoute, AudioRouteRoom, RoomSwitch, RoomEvent, RoomEventOpen,
        RoomEventEnd, events
  <2>6. QED
    BY <1>2, <2>5, SentToStep
<1>3. QED
  BY <1>1, <1>2, QuietFrame, TrackFrame, OutgoingFrame DEF Next, requests, events

\* A queue only grows by what OnMessage tells.
LEMMA QueuedBy ==
    ASSUME EventTypes, RequestTypes, Places, Next, NEW y \in Users, Len(out'[y]) > Len(out[y]),
           out'[y][Len(out'[y])].event = "audio_room_event"
    PROVE  \E x \in Users : /\ RoomEventTell(x, y) /\ out'[y][Len(out'[y])].from = x
                            /\ out'[y][Len(out'[y])].id = hand[x].id
<1>0. out[y] \in Seq(Event) /\ Len(out[y]) \in Nat
  BY LenProperties DEF EventTypes
<1>1. ASSUME NEW x \in Users, AudioRouteTell(x)
      PROVE  FALSE
  <2>1. PICK z \in Others(x), v \in Event : v.event = "media_route_audio" /\ TellOutcome(x, z, v)
    BY <1>1, RouteTells
  <2>2. out'[y] = Append(out[y], v)
    BY <1>0, <2>1 DEF TellOutcome
  <2>3. out'[y][Len(out'[y])] = v
    BY <1>0, <2>2, AppendProperties
  <2>4. QED
    BY <2>1, <2>3
<1>2. ASSUME NEW x \in Users, NEW z \in Users, RoomEventTell(x, z)
      PROVE  \E i \in Users : /\ RoomEventTell(i, y) /\ out'[y][Len(out'[y])].from = i
                              /\ out'[y][Len(out'[y])].id = hand[i].id
  <2>1. PICK v \in Event : v.from = x /\ v.id = hand[x].id /\ TellOutcome(x, z, v)
    BY <1>2, RoomTells
  <2>2. z = y /\ out'[y] = Append(out[y], v)
    BY <1>0, <2>1 DEF TellOutcome
  <2>3. out'[y][Len(out'[y])] = v
    BY <1>0, <2>2, AppendProperties
  <2>4. QED
    BY <1>2, <2>1, <2>2, <2>3
<1>3. ASSUME NEW z \in Users, NEW i \in DOMAIN out[z], Deliver(z, i)
      PROVE  FALSE
  <2>1. CASE z = y
    BY <1>0, <1>3, <2>1, DeliverEffect, RemoveAtProperties
  <2>2. CASE z # y
    BY <1>0, <1>3, <2>2, DeliverEffect
  <2>3. QED
    BY <2>1, <2>2
<1>4. out' # out
  BY <1>0
<1>5. ASSUME NEW x \in Users, OnMessage(x)
      PROVE  AudioRouteTell(x) \/ \E z \in Users : RoomEventTell(x, z)
  BY <1>4, <1>5
  DEF OnMessage, AudioRoute, AudioRouteRoom, RoomSwitch, RoomEvent, RoomEventOpen, RoomEventEnd,
      events
<1>6. ASSUME NEW z \in Users, Outgoing(z)
      PROVE  \E i \in DOMAIN out[z] : Deliver(z, i)
  BY <1>4, <1>6 DEF Outgoing, OnOpen
<1>7. QED
  BY <1>1, <1>2, <1>3, <1>4, <1>5, <1>6, QuietFrame, TrackFrame DEF Next, events

LEMMA OneMessageStep ==
    ASSUME EventTypes, RequestTypes, Places, ToldOnce, Handled, Next, NEW y \in Users,
           Len(out'[y]) > Len(out[y])
    PROVE  LET e == out'[y][Len(out'[y])]
           IN  e.event = "audio_room_event" => <<e.from, e.id>> \notin told[y]
<1> DEFINE e == out'[y][Len(out'[y])]
<1> SUFFICES ASSUME e.event = "audio_room_event" PROVE <<e.from, e.id>> \notin told[y]
  OBVIOUS
<1>1. PICK x \in Users : RoomEventTell(x, y) /\ e.from = x /\ e.id = hand[x].id
  BY QueuedBy
<1>2. y \in hand[x].members /\ hand[x].at = "rooms"
  BY <1>1 DEF RoomEventTell, Places, HandAt
<1>3. y \notin hand[x].sent
  BY <1>2 DEF Handled
<1>4. hand[x].id \in 1 .. MaxMessages
  BY <1>2, Bounds DEF Places, HandAt, RequestTypes, Hand
<1>5. <<x, hand[x].id>> \notin told[y]
  BY <1>2, <1>3, <1>4 DEF ToldOnce, SentTo
<1>6. QED
  BY <1>1, <1>5

-----------------------------------------------------------------------------
(* Whom the audio goes to.                                                  *)

LEMMA WishesStep ==
    ASSUME MediaTypes, RequestTypes, OtherTypes, Places, WishesKept, Next
    PROVE  WishesKept'
<1> DEFINE W(x) == /\ Wished(x) \subseteq wished[x]
                   /\ loop[x].at = "send" /\ loop[x].should_pipe => loop[x].to \in wished[x]
<1>0. /\ loop \in [Users -> Loop] /\ wished \in [Users -> SUBSET Users]
      /\ PipeAudio \in [Users -> [Users -> BOOLEAN]] /\ AudioRooms \in [Users -> SUBSET Rooms]
  BY DEF MediaTypes, RequestTypes, OtherTypes
<1>1. CASE UNCHANGED <<loop, wished, PipeAudio, AudioRooms>>
  BY <1>1 DEF WishesKept, Wished, Others
<1>2. ASSUME NEW x \in Users, Track(x)
      PROVE  WishesKept'
  <2>1. UNCHANGED <<PipeAudio, AudioRooms>>
    BY <1>2, TrackFrame DEF requests
  <2>2. \A i \in Users : Wished(i)' = Wished(i)
    BY <2>1 DEF Wished, Others
  <2>3. \A i \in Users \ {x} : wished'[i] = wished[i]
    BY <1>0, <1>2
    DEF Track, TrackStarts, ReadRTP, Pipe, RoomsBegin, RoomsEnd, Unstable, NoMemberTrack,
        NoPeerTrack, RouteCheck, Forward, RoomCheck
  <2>4. \A i \in Users \ {x} : W(i)'
    BY <1>2, <2>2, <2>3, LoopOthers DEF WishesKept
  <2>5. ASSUME ReadRTP(x)
        PROVE  W(x)'
    BY <1>0, <2>2, <2>5 DEF ReadRTP, Loop
  <2>6. ASSUME NEW y \in Users, RouteCheck(x, y)
        PROVE  W(x)'
    <3>1. /\ loop'[x].to = y /\ loop'[x].should_pipe = PipeAudio[x][y] /\ wished' = wished
      BY <1>0, <2>6 DEF RouteCheck, Loop
    <3>2. y \in Others(x)
      BY <2>6 DEF RouteCheck, ComesTo, Places, LoopAt
    <3>3. PipeAudio[x][y] => y \in wished[x]
      BY <3>2 DEF WishesKept, Wished
    <3>4. QED
      BY <2>2, <3>1, <3>3 DEF WishesKept
  <2>7. ASSUME wished' = wished, loop'[x].at # "send" \/ loop' = loop
        PROVE  W(x)'
    BY <2>2, <2>7 DEF WishesKept
  <2>8. W(x)'
    <3>1. CASE TrackStarts(x) \/ \E y \in Users : Forward(y, x)
      BY <2>7, <3>1 DEF TrackStarts, Forward
    <3>2. CASE Pipe(x) \/ RoomsBegin(x) \/ RoomsEnd(x)
      BY <1>0, <2>7, <3>2 DEF Pipe, RoomsBegin, RoomsEnd, Loop
    <3>3. ASSUME NEW y \in Users, Unstable(x, y) \/ NoMemberTrack(x, y) \/ NoPeerTrack(x, y)
          PROVE  W(x)'
      <4>1. loop' = [loop EXCEPT ![x].left = @ \ {y}] /\ wished' = wished
        BY <3>3 DEF Unstable, NoMemberTrack, NoPeerTrack
      <4>2. loop[x].at = "range"
        BY <3>3 DEF Unstable, NoMemberTrack, NoPeerTrack, ComesTo
      <4>3. loop'[x].at = loop[x].at
        BY <1>0, <4>1 DEF Loop
      <4>4. QED
        BY <2>7, <4>1, <4>2, <4>3
    <3>4. ASSUME NEW r \in Rooms, RoomCheck(x, r)
          PROVE  W(x)'
      BY <1>0, <2>7, <3>4 DEF RoomCheck, Loop
    <3>5. QED
      BY <1>2, <2>5, <2>6, <3>1, <3>2, <3>3, <3>4 DEF Track
  <2>9. QED
    BY <2>4, <2>8 DEF WishesKept
<1>3. ASSUME NEW x \in Users, OnMessage(x)
      PROVE  WishesKept'
  <2>1. loop' = loop
    BY <1>3, MessageFrame DEF media
  <2>2. ASSUME NEW y \in Others(x), NEW b \in BOOLEAN, AudioRoute(x, y, b)
        PROVE  WishesKept'
    <3>1. /\ PipeAudio'[x][y] = b /\ \A j \in Users \ {y} : PipeAudio'[x][j] = PipeAudio[x][j]
          /\ \A i \in Users \ {x} : PipeAudio'[i] = PipeAudio[i] /\ wished'[i] = wished[i]
          /\ wished'[x] = IF b THEN wished[x] \cup {y} ELSE wished[x]
          /\ AudioRooms' = AudioRooms
      BY <1>0, <2>2 DEF AudioRoute, Others
    <3>2. W(x)'
      BY <2>1, <3>1 DEF WishesKept, Wished, Others
    <3>3. \A i \in Users \ {x} : W(i)'
      BY <2>1, <3>1 DEF WishesKept, Wished, Others
    <3>4. QED
      BY <3>2, <3>3 DEF WishesKept
  <2>3. ASSUME NEW r \in Rooms, RoomSwitch(x, r)
        PROVE  WishesKept'
    <3>1. /\ PipeAudio' = PipeAudio
          /\ \A i \in Users \ {x} : AudioRooms'[i] = AudioRooms[i] /\ wished'[i] = wished[i]
          /\ wished'[x] = IF AudioRooms'[x] # {} THEN Others(x) ELSE wished[x]
      BY <1>0, <2>3 DEF RoomSwitch
    <3>2. W(x)'
      <4>1. CASE AudioRooms'[x] # {}
        BY <2>1, <3>1, <4>1 DEF Wished, Others, Places, LoopAt
      <4>2. CASE AudioRooms'[x] = {}
        BY <2>1, <3>1, <4>2 DEF WishesKept, Wished, Others
      <4>3. QED
        BY <4>1, <4>2
    <3>3. \A i \in Users \ {x} : W(i)'
      BY <2>1, <3>1 DEF WishesKept, Wished, Others
    <3>4. QED
      BY <3>2, <3>3 DEF WishesKept
  <2>4. QED
    BY <1>1, <1>3, <2>1, <2>2, <2>3
    DEF OnMessage, AudioRouteRoom, AudioRouteTell, RoomEvent, RoomEventOpen, RoomEventTell,
        RoomEventEnd
<1>4. QED
  BY <1>1, <1>2, <1>3, QuietFrame, OutgoingFrame DEF Next, media, requests

\* A step that copies a packet of i changes one buffer.
LEMMA CopyWhere ==
    ASSUME MediaTypes, Places, NEW i \in Users, loop[i].at # "range",
           NEW via \in Rooms \cup {None}, Copy(i, loop[i].to, via), Sendable(i, loop[i].to)
    PROVE  \A x, y \in Users : ~(x = i /\ y = loop[i].to) => buffer'[y][x] = buffer[y][x]
<1>1. PICK z \in Users : z = loop[i].to /\ loop[i].n > 0
  BY AtCopy
<1>2. Copy(i, z, via) /\ Sendable(i, z)
  BY <1>1
<1>3. \A y, x \in Users : buffer'[y][x] =
          IF y = z /\ x = i THEN Append(buffer[z][i], [n |-> loop[i].n, via |-> via])
          ELSE buffer[y][x]
  BY <1>1, <1>2, CopyEffect, SMTT(30)
<1>4. QED
  BY <1>1, <1>3

\* A copy is made by the loop, of the packet it has, for the user it is at.
LEMMA CopiedBy ==
    ASSUME MediaTypes, Places, Next, NEW x \in Users, NEW y \in Users,
           Len(buffer'[y][x]) > Len(buffer[y][x])
    PROVE  /\ loop[x].at # "range" /\ y = loop[x].to
           /\ Pipe(x) \/ \E r \in AudioRooms[x] : RoomCheck(x, r)
<1>0. Len(buffer[y][x]) \in Nat
  BY LenProperties DEF MediaTypes
<1>1. buffer' # buffer
  BY <1>0
<1> DEFINE G == /\ loop[x].at # "range" /\ y = loop[x].to
                /\ Pipe(x) \/ \E r \in AudioRooms[x] : RoomCheck(x, r)
<1>2. ASSUME NEW i \in Users, NEW j \in Users, Forward(j, i)
      PROVE  FALSE
  <2>1. CASE i = x /\ j = y
    BY <1>0, <1>2, <2>1, ForwardEffect, HeadTailProperties DEF MediaTypes, Forward
  <2>2. CASE ~(i = x /\ j = y)
    BY <1>0, <1>2, <2>2, ForwardEffect
  <2>3. QED
    BY <2>1, <2>2
<1>3. ASSUME NEW i \in Users, Pipe(i)
      PROVE  G
  <2>1. loop[i].to \in Users /\ loop[i].at = "send"
    BY <1>3, AtCopy DEF Pipe
  <2>2. Copy(i, loop[i].to, None) /\ Sendable(i, loop[i].to)
    BY <1>3 DEF Pipe
  <2>3. i = x /\ loop[i].to = y
    <3>1. None \in Rooms \cup {None} /\ loop[i].at # "range"
      BY <2>1
    <3>2. ~(x = i /\ y = loop[i].to) => buffer'[y][x] = buffer[y][x]
      BY <2>2, <3>1, CopyWhere
    <3>3. QED
      BY <1>0, <3>2
  <2>4. QED
    BY <1>3, <2>1, <2>3
<1>4. ASSUME NEW i \in Users, NEW r \in Rooms, RoomCheck(i, r)
      PROVE  G
  <2>1. loop[i].to \in Users /\ loop[i].at = "rooms"
    BY <1>4, AtCopy DEF RoomCheck
  <2>2. r \in AudioRooms[i] /\ Copy(i, loop[i].to, r) /\ Sendable(i, loop[i].to)
    BY <1>1, <1>4 DEF RoomCheck
  <2>3. i = x /\ loop[i].to = y
    BY <1>0, <2>1, <2>2, CopyWhere
  <2>4. QED
    BY <1>4, <2>1, <2>2, <2>3
<1>5. PICK i \in Users : Track(i)
  BY <1>1, QuietFrame, MessageFrame, OutgoingFrame DEF Next, media
<1>6. QED
  BY <1>1, <1>2, <1>3, <1>4, <1>5
  DEF Track, TrackStarts, ReadRTP, RoomsBegin, RoomsEnd, Unstable, NoMemberTrack, NoPeerTrack,
      RouteCheck

LEMMA AskedStep ==
    ASSUME MediaTypes, Places, WishesKept, Next, NEW x \in Users, NEW y \in Users, Copied(x, y)
    PROVE  y \in wished[x]
<1>1. /\ loop[x].at # "range" /\ y = loop[x].to
      /\ Pipe(x) \/ \E r \in AudioRooms[x] : RoomCheck(x, r)
  BY CopiedBy DEF Copied
<1>2. CASE Pipe(x)
  BY <1>1, <1>2 DEF Pipe, WishesKept
<1>3. CASE AudioRooms[x] # {}
  <2>1. y \in Others(x)
    BY <1>1 DEF Places, LoopAt
  <2>2. y \in Wished(x)
    BY <1>3, <2>1 DEF Wished
  <2>3. QED
    BY <2>2 DEF WishesKept
<1>4. QED
  BY <1>1, <1>2, <1>3

-----------------------------------------------------------------------------
(* Copies.                                                                  *)

LEMMA AppendRange ==
    ASSUME NEW S, NEW seq \in Seq(S), NEW e \in S
    PROVE  Range(Append(seq, e)) = Range(seq) \cup {e}
<1> DEFINE t == Append(seq, e)
<1>1. /\ Len(seq) \in Nat /\ DOMAIN seq = 1 .. Len(seq) /\ DOMAIN t = 1 .. Len(seq) + 1
      /\ \A i \in 1 .. Len(seq) : t[i] = seq[i]
      /\ t[Len(seq) + 1] = e
  BY AppendProperties, LenProperties
<1> HIDE DEF t
<1>2. DOMAIN t = DOMAIN seq \cup {Len(seq) + 1} /\ \A i \in DOMAIN seq : t[i] = seq[i]
  BY <1>1
<1>3. Range(t) = Range(seq) \cup {e}
  BY <1>1, <1>2 DEF Range
<1>4. QED
  BY <1>3 DEF t

LEMMA TailRange ==
    ASSUME NEW S, NEW seq \in Seq(S), seq # <<>>
    PROVE  Range(Tail(seq)) \subseteq Range(seq)
<1>1. /\ Len(seq) \in Nat /\ Tail(seq) \in Seq(S) /\ Len(Tail(seq)) = Len(seq) - 1
      /\ \A i \in 1 .. Len(Tail(seq)) : Tail(seq)[i] = seq[i + 1]
  BY HeadTailProperties, LenProperties
<1>2. DOMAIN seq = 1 .. Len(seq) /\ DOMAIN Tail(seq) = 1 .. Len(Tail(seq))
  BY <1>1, LenProperties
<1>3. ASSUME NEW i \in DOMAIN Tail(seq)
      PROVE  Tail(seq)[i] \in Range(seq)
  <2>1. i + 1 \in DOMAIN seq /\ Tail(seq)[i] = seq[i + 1]
    BY <1>1, <1>2
  <2>2. QED
    BY <2>1 DEF Range
<1>4. QED
  BY <1>3 DEF Range

\* No two packets of a buffer are the same copied twice.
OnceEach(q) ==
    \A i, j \in DOMAIN q :
        i # j /\ q[i].n = q[j].n => q[i].via # q[j].via /\ None \notin {q[i].via, q[j].via}

LEMMA OnceEachAppended ==
    ASSUME NEW q \in Seq(Packet), NEW p \in Packet, OnceEach(q),
           \A o \in Range(q) : o.n = p.n => o.via # p.via /\ None \notin {o.via, p.via}
    PROVE  OnceEach(Append(q, p))
<1> DEFINE t == Append(q, p)
<1>1. /\ Len(q) \in Nat /\ Len(t) = Len(q) + 1 /\ t[Len(q) + 1] = p
      /\ \A i \in 1 .. Len(q) : t[i] = q[i]
  BY AppendProperties, LenProperties
<1>2. DOMAIN q = 1 .. Len(q) /\ DOMAIN t = 1 .. Len(q) + 1
  BY <1>1, AppendProperties, LenProperties
<1> HIDE DEF t
<1>3. \A i \in 1 .. Len(q) : q[i] \in Range(q)
  BY <1>2 DEF Range
<1>4. ASSUME NEW i \in DOMAIN t, NEW j \in DOMAIN t, i # j, t[i].n = t[j].n
      PROVE  t[i].via # t[j].via /\ None \notin {t[i].via, t[j].via}
  <2>1. CASE i \in 1 .. Len(q) /\ j \in 1 .. Len(q)
    BY <1>1, <1>2, <1>4, <2>1 DEF OnceEach
  <2>2. CASE i = Len(q) + 1 /\ j \in 1 .. Len(q)
    BY <1>1, <1>3, <1>4, <2>2
  <2>3. CASE j = Len(q) + 1 /\ i \in 1 .. Len(q)
    BY <1>1, <1>3, <1>4, <2>3
  <2>4. QED
    BY <1>1, <1>2, <1>4, <2>1, <2>2, <2>3
<1>5. OnceEach(t)
  BY <1>4 DEF OnceEach
<1>6. QED
  BY <1>5 DEF t

LEMMA OnceEachTail ==
    ASSUME NEW q \in Seq(Packet), q # <<>>, OnceEach(q)
    PROVE  OnceEach(Tail(q))
<1>1. /\ Len(q) \in Nat /\ Len(Tail(q)) = Len(q) - 1
      /\ \A i \in 1 .. Len(Tail(q)) : Tail(q)[i] = q[i + 1]
  BY HeadTailProperties, LenProperties
<1>2. DOMAIN q = 1 .. Len(q) /\ DOMAIN Tail(q) = 1 .. Len(q) - 1
  BY <1>1, HeadTailProperties, LenProperties
<1>3. ASSUME NEW i \in DOMAIN Tail(q), NEW j \in DOMAIN Tail(q), i # j
      PROVE  /\ i + 1 \in DOMAIN q /\ j + 1 \in DOMAIN q /\ i + 1 # j + 1
             /\ Tail(q)[i] = q[i + 1] /\ Tail(q)[j] = q[j + 1]
  BY <1>1, <1>2, <1>3
<1>4. QED
  BY <1>3 DEF OnceEach

\* No copy of x's packet is in y's buffer that forbids one more.
MayCopy(x, y, via) ==
    \A p \in Range(buffer[y][x]) : p.n = loop[x].n => p.via # via /\ None \notin {p.via, via}

\* What a copy does to the buffers.
CopyMade(x, y, via) ==
    /\ \A j, i \in Users : Range(buffer'[j][i]) =
          IF j = y /\ i = x THEN Range(buffer[y][x]) \cup {[n |-> loop[x].n, via |-> via]}
          ELSE Range(buffer[j][i])
    /\ \A j, i \in Users : OnceEach(buffer'[j][i])

LEMMA CopyStep ==
    ASSUME MediaTypes, Places, Copies, NoSecondCopy, NEW x \in Users, NEW y \in Users,
           y = loop[x].to, loop[x].at # "range",
           NEW via \in Rooms \cup {None}, Copy(x, y, via), Sendable(x, y), MayCopy(x, y, via)
    PROVE  CopyMade(x, y, via)
<1>1. PICK p : p = [n |-> loop[x].n, via |-> via]
  OBVIOUS
<1>2. loop[x].n \in 1 .. MaxPackets
  BY AtCopy, Bounds DEF MediaTypes, Loop
<1>3. p \in Packet /\ p.n = loop[x].n /\ p.via = via
  BY <1>1, <1>2 DEF Packet
<1>4. buffer[y][x] \in Seq(Packet) /\ \A j, i \in Users : OnceEach(buffer[j][i])
  BY DEF MediaTypes, NoSecondCopy, OnceEach
<1>5. \A j, i \in Users : buffer'[j][i] =
          IF j = y /\ i = x THEN Append(buffer[y][x], p) ELSE buffer[j][i]
  BY <1>1, AtCopy, CopyEffect, SMTT(30)
<1>6. Range(Append(buffer[y][x], p)) = Range(buffer[y][x]) \cup {p}
  BY <1>3, <1>4, AppendRange
<1>7. OnceEach(Append(buffer[y][x], p))
  BY <1>3, <1>4, OnceEachAppended DEF MayCopy
<1>8. QED
  BY <1>1, <1>4, <1>5, <1>6, <1>7 DEF CopyMade

LEMMA CopiesStep ==
    ASSUME MediaTypes, Places, Copies, NoSecondCopy, Next
    PROVE  Copies' /\ NoSecondCopy'
<1>0. loop \in [Users -> Loop] /\ \A j, i \in Users : OnceEach(buffer[j][i])
  BY DEF MediaTypes, NoSecondCopy, OnceEach
<1>1. ASSUME UNCHANGED <<buffer, loop>>
      PROVE  Copies' /\ NoSecondCopy'
  BY <1>1 DEF Copies, CopiesOf, NoSecondCopy
<1>2. ASSUME NEW x \in Users, Track(x)
      PROVE  Copies' /\ NoSecondCopy'
  <2>0. loop[x] \in Loop /\ LoopAt(x) /\ \A i \in Users \ {x} : loop'[i] = loop[i]
    BY <1>0, <1>2, LoopOthers DEF Places
  <2>1. ASSUME buffer' = buffer, \A y \in Users : CopiesOf(x, y)'
        PROVE  Copies' /\ NoSecondCopy'
    BY <2>0, <2>1 DEF Copies, CopiesOf, NoSecondCopy
  <2>2. CASE TrackStarts(x)
    BY <1>1, <2>2 DEF TrackStarts
  <2>3. CASE ReadRTP(x)
    <3>1. buffer' = buffer /\ loop'[x].n = loop[x].n + 1
      BY <1>0, <2>3 DEF ReadRTP, Loop
    <3>2. \A y \in Users : \A p \in Range(buffer[y][x]) : p.n \in Int
      <4>1. \A y \in Users : Range(buffer[y][x]) \subseteq Packet
        BY RangeOfSeq DEF MediaTypes
      <4>2. QED
        BY <4>1 DEF Packet
    <3>3. \A y \in Users : CopiesOf(x, y)'
      BY <2>0, <3>1, <3>2, Bounds DEF Copies, CopiesOf, Loop
    <3>4. QED
      BY <2>1, <3>1, <3>3
  <2>4. ASSUME NEW y \in Users, Unstable(x, y) \/ NoMemberTrack(x, y) \/ NoPeerTrack(x, y)
        PROVE  Copies' /\ NoSecondCopy'
    <3>1. /\ buffer' = buffer /\ loop'[x].n = loop[x].n /\ loop'[x].left \subseteq loop[x].left
          /\ loop'[x].to = loop[x].to /\ loop'[x].at = loop[x].at
          /\ loop'[x].rooms = loop[x].rooms
      BY <1>0, <2>4 DEF Unstable, NoMemberTrack, NoPeerTrack, Loop
    <3>2. \A j \in Users : CopiesOf(x, j)'
      BY <3>1 DEF Copies, CopiesOf
    <3>3. QED
      BY <2>1, <3>1, <3>2
  <2>5. ASSUME NEW y \in Users, RouteCheck(x, y)
        PROVE  Copies' /\ NoSecondCopy'
    <3>1. /\ buffer' = buffer /\ loop'[x].n = loop[x].n /\ loop'[x].left = loop[x].left \ {y}
          /\ loop'[x].to = y /\ y \in loop[x].left
      BY <1>0, <2>5 DEF RouteCheck, ComesTo, Loop
    <3>2. \A j \in Users : CopiesOf(x, j)'
      BY <3>1 DEF Copies, CopiesOf
    <3>3. QED
      BY <2>1, <3>1, <3>2
  <2>6. CASE RoomsBegin(x)
    <3>1. /\ buffer' = buffer /\ loop'[x].n = loop[x].n /\ loop'[x].left = loop[x].left
          /\ loop'[x].to = loop[x].to /\ loop[x].at = "send"
      BY <1>0, <2>6 DEF RoomsBegin, Loop
    <3>2. \A j \in Users : CopiesOf(x, j)'
      BY <3>1 DEF Copies, CopiesOf
    <3>3. QED
      BY <2>1, <3>1, <3>2
  <2>7. CASE RoomsEnd(x)
    <3>1. /\ buffer' = buffer /\ loop'[x].n = loop[x].n /\ loop'[x].left = loop[x].left
          /\ loop'[x].to = None
      BY <1>0, <2>7 DEF RoomsEnd, Loop
    <3>2. \A j \in Users : CopiesOf(x, j)'
      BY <3>1, NoneIsNone DEF Copies, CopiesOf
    <3>3. QED
      BY <2>1, <3>1, <3>2
  <2>8. CASE Pipe(x)
    <3>1. PICK y \in Users : y = loop[x].to /\ y \notin loop[x].left
      BY <2>0, <2>8 DEF Pipe, LoopAt, Others
    <3>2. /\ loop[x].at = "send" /\ Copy(x, y, None) /\ Sendable(x, y)
          /\ loop'[x].n = loop[x].n /\ loop'[x].left = loop[x].left /\ loop'[x].to = None
      BY <1>0, <2>8, <3>1 DEF Pipe, Loop
    <3>3. \A p \in Range(buffer[y][x]) : p.n # loop[x].n
      BY <3>1, <3>2 DEF Copies, CopiesOf
    <3>4. CopyMade(x, y, None)
      <4>1. MayCopy(x, y, None) /\ loop[x].at # "range" /\ None \in Rooms \cup {None}
        BY <3>2, <3>3 DEF MayCopy
      <4>2. QED
        BY <3>1, <3>2, <4>1, CopyStep
    <3>5. \A j \in Users : CopiesOf(x, j)'
      BY <2>0, <3>1, <3>2, <3>4, NoneIsNone DEF Copies, CopiesOf, CopyMade, Loop
    <3>6. \A i \in Users \ {x}, j \in Users : CopiesOf(i, j)'
      BY <2>0, <3>4 DEF Copies, CopiesOf, CopyMade
    <3>7. QED
      BY <3>4, <3>5, <3>6 DEF Copies, CopyMade, NoSecondCopy, OnceEach
  <2>9. ASSUME NEW r \in Rooms, RoomCheck(x, r)
        PROVE  Copies' /\ NoSecondCopy'
    <3>1. PICK y \in Users : y = loop[x].to /\ y \notin loop[x].left
      BY <2>0, <2>9 DEF RoomCheck, LoopAt, Others
    <3>2. /\ loop[x].at = "rooms" /\ r \in loop[x].rooms /\ loop'[x].at = "rooms"
          /\ loop'[x].n = loop[x].n /\ loop'[x].left = loop[x].left
          /\ loop'[x].to = loop[x].to /\ loop'[x].rooms = loop[x].rooms \ {r}
      BY <1>0, <2>9, <3>1 DEF RoomCheck, Loop
    <3>3. CASE buffer' = buffer
      <4>1. \A j \in Users : CopiesOf(x, j)'
        BY <3>2, <3>3 DEF Copies, CopiesOf
      <4>2. QED
        BY <2>1, <3>3, <4>1
    <3>4. CASE Copy(x, y, r) /\ Sendable(x, y)
      <4>1. \A p \in Range(buffer[y][x]) : p.n = loop[x].n => p.via \in Rooms \ {r}
        BY <3>1, <3>2 DEF Copies, CopiesOf
      <4>2. MayCopy(x, y, r) /\ loop[x].at # "range" /\ r \in Rooms \cup {None}
        BY <3>2, <4>1, NoneIsNone DEF MayCopy
      <4>3. CopyMade(x, y, r)
        BY <3>1, <3>4, <4>2, CopyStep
      <4>4. \A j \in Users : CopiesOf(x, j)'
        BY <2>0, <3>1, <3>2, <4>3 DEF Copies, CopiesOf, CopyMade, Loop
      <4>5. \A i \in Users \ {x}, j \in Users : CopiesOf(i, j)'
        BY <2>0, <4>3 DEF Copies, CopiesOf, CopyMade
      <4>6. QED
        BY <4>3, <4>4, <4>5 DEF Copies, CopyMade, NoSecondCopy, OnceEach
    <3>5. QED
      BY <2>9, <3>1, <3>3, <3>4 DEF RoomCheck
  <2>10. ASSUME NEW y \in Users, Forward(y, x)
         PROVE  Copies' /\ NoSecondCopy'
    <3>1. buffer[y][x] \in Seq(Packet) /\ buffer[y][x] # <<>> /\ loop' = loop
      BY <2>10 DEF Forward, MediaTypes
    <3>2. \A j, i \in Users : buffer'[j][i] =
              IF j = y /\ i = x THEN Tail(buffer[y][x]) ELSE buffer[j][i]
      BY <2>10, ForwardEffect
    <3>3. \A j, i \in Users : /\ Range(buffer'[j][i]) \subseteq Range(buffer[j][i])
                             /\ OnceEach(buffer'[j][i])
      BY <1>0, <3>1, <3>2, TailRange, OnceEachTail
    <3>4. QED
      BY <3>1, <3>3 DEF Copies, CopiesOf, NoSecondCopy, OnceEach
  <2>11. QED
    BY <1>2, <2>2, <2>3, <2>4, <2>5, <2>6, <2>7, <2>8, <2>9, <2>10 DEF Track
<1>3. QED
  BY <1>1, <1>2, QuietFrame, MessageFrame, OutgoingFrame DEF Next, media

-----------------------------------------------------------------------------
(* What browsers know of routes.                                            *)

LEMMA LeavesAppended ==
    ASSUME NEW q \in Seq(Event), NEW e \in Event, NEW x \in Users, NEW h, NEW on
    PROVE  /\ Routes(e, x) => Leaves(Append(q, e), x, h, e.on)
           /\ ~Routes(e, x) /\ Leaves(q, x, h, on) => Leaves(Append(q, e), x, h, on)
<1> DEFINE t == Append(q, e)
<1>1. /\ Len(q) \in Nat /\ t[Len(q) + 1] = e /\ \A i \in 1 .. Len(q) : t[i] = q[i]
      /\ DOMAIN q = 1 .. Len(q) /\ DOMAIN t = 1 .. Len(q) + 1
  BY AppendProperties, LenProperties
<1> HIDE DEF t
<1>2. ASSUME Routes(e, x)
      PROVE  Leaves(t, x, h, e.on)
  BY <1>1, <1>2 DEF Leaves, LastRoute
<1>3. ASSUME ~Routes(e, x), Leaves(q, x, h, on)
      PROVE  Leaves(t, x, h, on)
  <2>1. ASSUME NEW i \in DOMAIN t, LastRoute(t, x, i)
        PROVE  t[i].on = on
    <3>1. i \in 1 .. Len(q) /\ t[i] = q[i]
      BY <1>1, <1>3, <2>1 DEF LastRoute
    <3>2. LastRoute(q, x, i)
      BY <1>1, <2>1, <3>1 DEF LastRoute
    <3>3. QED
      BY <1>1, <1>3, <3>1, <3>2 DEF Leaves
  <2>2. (\A i \in DOMAIN t : ~Routes(t[i], x)) => h = on
    BY <1>1, <1>3 DEF Leaves
  <2>3. QED
    BY <2>1, <2>2 DEF Leaves
<1>4. QED
  BY <1>2, <1>3 DEF t

\* An event that is taken out changes nothing if it is not about x's route, and
\* is heard if it is the first that is.
LEMMA LeavesRemoved ==
    ASSUME NEW q \in Seq(Event), NEW i \in 1 .. Len(q), NEW x \in Users, NEW h, NEW on,
           Leaves(q, x, h, on)
    PROVE  /\ ~Routes(q[i], x) => Leaves(RemoveAt(q, i), x, h, on)
           /\ Routes(q[i], x) /\ (\A j \in 1 .. i - 1 : ~Routes(q[j], x)) =>
                  Leaves(RemoveAt(q, i), x, q[i].on, on)
<1> DEFINE t == RemoveAt(q, i)
<1>1. /\ Len(q) \in Nat /\ DOMAIN q = 1 .. Len(q) /\ DOMAIN t = 1 .. Len(q) - 1
      /\ \A j \in 1 .. Len(q) - 1 : t[j] = IF j < i THEN q[j] ELSE q[j + 1]
  BY RemoveAtProperties, LenProperties
<1> HIDE DEF t
<1> DEFINE old(j) == IF j < i THEN j ELSE j + 1
           new(k) == IF k < i THEN k ELSE k - 1
<1>2. \A j \in DOMAIN t : old(j) \in DOMAIN q /\ old(j) # i /\ t[j] = q[old(j)] /\ new(old(j)) = j
  BY <1>1
<1>3. \A k \in DOMAIN q : k # i => new(k) \in DOMAIN t /\ old(new(k)) = k /\ t[new(k)] = q[k]
  BY <1>1
<1>4. ASSUME NEW j \in DOMAIN t, LastRoute(t, x, j),
             ~Routes(q[i], x) \/ \A k \in 1 .. i - 1 : ~Routes(q[k], x)
      PROVE  t[j].on = on
  <2>1. Routes(q[old(j)], x)
    BY <1>2, <1>4 DEF LastRoute
  <2>2. ASSUME NEW k \in DOMAIN q, k > old(j)
        PROVE  ~Routes(q[k], x)
    <3>1. CASE k = i
      <4>1. old(j) \in 1 .. i - 1
        BY <1>1, <1>2, <2>2, <3>1
      <4>2. QED
        BY <1>4, <2>1, <3>1, <4>1
    <3>2. CASE k # i
      <4>1. new(k) \in DOMAIN t /\ new(k) > j /\ t[new(k)] = q[k]
        BY <1>1, <1>2, <1>3, <2>2, <3>2
      <4>2. QED
        BY <1>4, <4>1 DEF LastRoute
    <3>3. QED
      BY <3>1, <3>2
  <2>3. LastRoute(q, x, old(j))
    BY <1>2, <2>1, <2>2 DEF LastRoute
  <2>4. QED
    BY <1>2, <2>3 DEF Leaves
<1>5. ASSUME ~Routes(q[i], x), \A j \in DOMAIN t : ~Routes(t[j], x)
      PROVE  h = on
  <2>1. \A k \in DOMAIN q : ~Routes(q[k], x)
    BY <1>3, <1>5
  <2>2. QED
    BY <2>1 DEF Leaves
<1>6. ASSUME Routes(q[i], x), \A j \in DOMAIN t : ~Routes(t[j], x)
      PROVE  q[i].on = on
  <2>1. \A k \in DOMAIN q : k # i => ~Routes(q[k], x)
    BY <1>3, <1>6
  <2>2. LastRoute(q, x, i)
    BY <1>1, <1>6, <2>1 DEF LastRoute
  <2>3. QED
    BY <1>1, <2>2 DEF Leaves
<1>7. QED
  BY <1>4, <1>5, <1>6 DEF Leaves, t

LEMMA LastWordStep ==
    ASSUME RequestTypes, EventTypes, Places, LastWord, Next
    PROVE  LastWord'
<1>0. /\ hand \in [Users -> Hand] /\ PipeAudio \in [Users -> [Users -> BOOLEAN]]
      /\ out \in [Users -> Seq(Event)] /\ heard \in [Users -> [Users -> BOOLEAN]]
  BY DEF RequestTypes, EventTypes
<1>1. CASE UNCHANGED <<PipeAudio, out, heard, missed, hand>>
  BY <1>1 DEF LastWord, WordOf, Telling
<1>2. ASSUME NEW x \in Users, OnMessage(x)
      PROVE  LastWord'
  <2>0. \A i \in Users \ {x} : hand'[i] = hand[i]
    BY <1>2, HandOthers
  <2>1. ASSUME UNCHANGED <<PipeAudio, out, heard, missed>>,
               hand[x].at # "route", hand'[x].at # "route"
        PROVE  LastWord'
    <3>1. ASSUME NEW i \in Users, NEW j \in Users
          PROVE  WordOf(i, j)'
      BY <2>0, <2>1 DEF LastWord, WordOf, Telling
    <3>2. QED
      BY <3>1 DEF LastWord
  <2>2. ASSUME NEW y \in Others(x), NEW b \in BOOLEAN, AudioRoute(x, y, b)
        PROVE  LastWord'
    <3>1. /\ hand[x].at = "idle" /\ hand'[x].at = "route" /\ hand'[x].to = y /\ hand'[x].on = b
          /\ UNCHANGED <<out, heard, missed>>
      BY <1>0, <2>2 DEF AudioRoute, Request, Free, events
    <3>2. /\ PipeAudio'[x][y] = b
          /\ \A i, j \in Users : ~(i = x /\ j = y) => PipeAudio'[i][j] = PipeAudio[i][j]
      BY <1>0, <2>2 DEF AudioRoute, Others
    <3>3. ASSUME NEW i \in Users, NEW j \in Users
          PROVE  WordOf(i, j)'
      <4>1. CASE i = x /\ j = y
        BY <3>1, <3>2, <4>1 DEF WordOf, Telling
      <4>2. CASE i = x /\ j # y
        BY <3>1, <3>2, <4>2 DEF LastWord, WordOf, Telling
      <4>3. CASE i # x
        BY <2>0, <3>1, <3>2, <4>3 DEF LastWord, WordOf, Telling
      <4>4. QED
        BY <4>1, <4>2, <4>3
    <3>4. QED
      BY <3>3 DEF LastWord
  <2>3. CASE AudioRouteTell(x)
    <3>1. PICK y \in Others(x), e \in Event :
              /\ y = hand[x].to /\ e.from = x /\ e.on = hand[x].on
              /\ e.event = "media_route_audio" /\ TellOutcome(x, y, e)
      BY <2>3, RouteTells
    <3>2. y \in Users /\ out[y] \in Seq(Event)
      BY <1>0 DEF Others
    <3>3. /\ hand[x].at = "route" /\ hand'[x].at = "idle" /\ PipeAudio' = PipeAudio
      BY <1>0, <2>3 DEF AudioRouteTell, Free
    <3>4. heard' = heard /\ missed \subseteq missed' /\ \A j \in Users \ {y} : out'[j] = out[j]
      BY <3>1 DEF TellOutcome
    <3>5. ASSUME NEW i \in Users, NEW j \in Users
          PROVE  WordOf(i, j)'
      <4>1. CASE j # y
        BY <2>0, <3>1, <3>3, <3>4, <4>1 DEF LastWord, WordOf, Telling
      <4>2. CASE j = y /\ out' = out /\ missed' = missed \cup {<<x, y>>}
        BY <2>0, <3>1, <3>3, <3>4, <4>2 DEF LastWord, WordOf, Telling
      <4>3. CASE j = y /\ i = x /\ out'[y] = Append(out[y], e) /\ missed' = missed
        <5>1. Routes(e, x)
          BY <3>1 DEF Routes
        <5>2. Leaves(out'[y], x, heard[y][x], hand[x].on)
          BY <3>1, <3>2, <4>3, <5>1, LeavesAppended
        <5>3. <<x, y>> \notin missed => hand[x].on = PipeAudio[x][y]
          BY <3>1, <3>2, <3>3 DEF LastWord, WordOf, Telling
        <5>4. QED
          BY <3>3, <3>4, <4>3, <5>2, <5>3 DEF WordOf, Telling
      <4>4. CASE j = y /\ i # x /\ out'[y] = Append(out[y], e) /\ missed' = missed
        <5>1. ~Routes(e, i)
          BY <3>1, <4>4 DEF Routes
        <5>2. Leaves(out[y], i, heard[y][i], PipeAudio[i][y]) =>
                  Leaves(out'[y], i, heard[y][i], PipeAudio[i][y])
          BY <3>2, <4>4, <5>1, LeavesAppended
        <5>3. QED
          BY <2>0, <3>3, <3>4, <4>4, <5>2 DEF LastWord, WordOf, Telling
      <4>5. QED
        BY <3>1, <4>1, <4>2, <4>3, <4>4 DEF TellOutcome
    <3>6. QED
      BY <3>5 DEF LastWord
  <2>4. ASSUME NEW y \in Users, RoomEventTell(x, y)
        PROVE  LastWord'
    <3>1. PICK e \in Event : e.event = "audio_room_event" /\ TellOutcome(x, y, e)
      BY <2>4, RoomTells
    <3>2. hand[x].at = "rooms" /\ hand'[x].at = "rooms" /\ PipeAudio' = PipeAudio
      BY <1>0, <2>4 DEF RoomEventTell, Places, HandAt, Hand
    <3>3. heard' = heard /\ missed \subseteq missed' /\ \A j \in Users \ {y} : out'[j] = out[j]
      BY <3>1 DEF TellOutcome
    <3>4. ASSUME NEW i \in Users, NEW j \in Users
          PROVE  WordOf(i, j)'
      <4>1. CASE out'[j] = out[j]
        BY <2>0, <3>2, <3>3, <4>1 DEF LastWord, WordOf, Telling
      <4>2. CASE j = y /\ out'[y] = Append(out[y], e)
        <5>1. ~Routes(e, i) /\ out[y] \in Seq(Event)
          BY <1>0, <3>1 DEF Routes
        <5>2. Leaves(out[y], i, heard[y][i], PipeAudio[i][y]) =>
                  Leaves(out'[y], i, heard[y][i], PipeAudio[i][y])
          BY <4>2, <5>1, LeavesAppended
        <5>3. QED
          BY <2>0, <3>2, <3>3, <4>2, <5>2 DEF LastWord, WordOf, Telling
      <4>3. QED
        BY <3>1, <3>3, <4>1, <4>2 DEF TellOutcome
    <3>5. QED
      BY <3>4 DEF LastWord
  <2>5. ASSUME NEW want, AudioRouteRoom(x, want)
        PROVE  LastWord'
    <3>1. hand[x].at # "route" /\ hand'[x].at # "route" /\ UNCHANGED <<PipeAudio, events>>
      BY <1>0, <2>5 DEF AudioRouteRoom, Request, Free
    <3>2. QED
      BY <2>1, <3>1 DEF events
  <2>6. CASE RoomEvent(x) \/ RoomEventEnd(x)
    <3>1. hand[x].at # "route" /\ hand'[x].at # "route" /\ UNCHANGED <<PipeAudio, events>>
      BY <1>0, <2>6 DEF RoomEvent, RoomEventEnd, Free, Hand
    <3>2. QED
      BY <2>1, <3>1 DEF events
  <2>7. ASSUME NEW r \in Rooms, RoomSwitch(x, r)
        PROVE  LastWord'
    <3>1. hand[x].at = "accept" /\ hand'[x].at = hand[x].at
      BY <1>0, <2>7 DEF RoomSwitch, Hand
    <3>2. UNCHANGED <<PipeAudio, events>>
      BY <2>7 DEF RoomSwitch
    <3>3. QED
      BY <2>1, <3>1, <3>2 DEF events
  <2>8. ASSUME NEW r \in Rooms, RoomEventOpen(x, r)
        PROVE  LastWord'
    <3>1. hand[x].at = "rooms" /\ hand'[x].at = hand[x].at
      BY <1>0, <2>8 DEF RoomEventOpen, Hand
    <3>2. UNCHANGED <<PipeAudio, events>>
      BY <2>8 DEF RoomEventOpen
    <3>3. QED
      BY <2>1, <3>1, <3>2 DEF events
  <2>9. QED
    BY <1>2, <2>2, <2>3, <2>4, <2>5, <2>6, <2>7, <2>8 DEF OnMessage
<1>3. ASSUME NEW y \in Users, NEW k \in DOMAIN out[y], Deliver(y, k)
      PROVE  LastWord'
  <2>1. UNCHANGED <<PipeAudio, hand>>
    BY <1>3 DEF Deliver, requests
  <2>2. /\ k \in 1 .. Len(out[y]) /\ out'[y] = RemoveAt(out[y], k)
        /\ \A j \in Users \ {y} : out'[j] = out[j]
    BY <1>3, DeliverEffect
  <2>3. PICK e : e = out[y][k]
    OBVIOUS
  <2>4. out[y] \in Seq(Event) /\ e \in Event /\ e.from \in Users
    <3>1. out[y] \in Seq(Event)
      BY <1>0
    <3>2. out[y][k] \in Event
      BY <2>2, <3>1, ElementOfSeq
    <3>3. QED
      BY <2>3, <3>1, <3>2 DEF Event
  <2>5. /\ heard' = IF Routes(e, e.from) THEN [heard EXCEPT ![y][e.from] = e.on] ELSE heard
        /\ missed' = IF Routes(e, e.from) /\ {j \in 1 .. k - 1 : Routes(out[y][j], e.from)} # {}
                     THEN missed \cup {<<e.from, y>>} ELSE missed
    BY <1>3, <2>3 DEF Deliver
  <2>6. ASSUME NEW i \in Users
        PROVE  WordOf(i, y)'
    <3>1. SUFFICES ASSUME <<i, y>> \notin missed', ~Telling(i, y)
                   PROVE  Leaves(out'[y], i, heard'[y][i], PipeAudio[i][y])
      BY <2>1, <2>5 DEF LastWord, WordOf, Telling
    <3>2. Leaves(out[y], i, heard[y][i], PipeAudio[i][y])
      BY <2>5, <3>1 DEF LastWord, WordOf
    <3>3. CASE ~Routes(e, i)
      <4>1. heard'[y][i] = heard[y][i]
        BY <1>0, <2>4, <2>5, <3>3 DEF Routes
      <4>2. QED
        BY <2>2, <2>3, <2>4, <3>2, <3>3, <4>1, LeavesRemoved
    <3>4. CASE Routes(e, i)
      <4>1. i = e.from /\ heard'[y][i] = e.on
        BY <1>0, <2>4, <2>5, <3>4 DEF Routes
      <4>2. \A j \in 1 .. k - 1 : ~Routes(out[y][j], i)
        BY <2>5, <3>1, <3>4, <4>1
      <4>3. Leaves(RemoveAt(out[y], k), i, out[y][k].on, PipeAudio[i][y])
        BY <2>2, <2>3, <2>4, <3>2, <3>4, <4>2, LeavesRemoved
      <4>4. QED
        BY <2>2, <2>3, <4>1, <4>3
    <3>5. QED
      BY <3>3, <3>4
  <2>7. ASSUME NEW i \in Users, NEW j \in Users, j # y
        PROVE  WordOf(i, j)'
    <3>1. heard'[j][i] = heard[j][i] /\ missed \subseteq missed'
      BY <1>0, <2>4, <2>5, <2>7
    <3>2. QED
      BY <2>1, <2>2, <2>7, <3>1 DEF LastWord, WordOf, Telling
  <2>8. QED
    BY <2>6, <2>7 DEF LastWord
<1>4. ASSUME NEW y \in Users, Outgoing(y)
      PROVE  LastWord'
  <2>1. CASE OnOpen(y)
    BY <1>1, <2>1 DEF OnOpen, requests
  <2>2. QED
    BY <1>3, <1>4, <2>1 DEF Outgoing
<1>5. QED
  BY <1>1, <1>2, <1>4, QuietFrame, TrackFrame DEF Next, requests, events

-----------------------------------------------------------------------------
(* The invariant.                                                           *)

LEMMA InitInv == Init => Inv
<1> SUFFICES ASSUME Init PROVE Inv
  OBVIOUS
<1>0. /\ \A y \in Users : out[y] = <<>> /\ told[y] = {} /\ hand[y] = Free /\ loop[y] = Waiting
      /\ \A x, y \in Users : /\ buffer[y][x] = <<>> /\ ~heard[y][x] /\ heard[y][x] = PipeAudio[x][y]
                           /\ ~PipeAudio[x][y] /\ AudioRooms[x] = {}
  BY DEF Init
<1>1. MediaTypes
  <2>1. Waiting \in Loop
    BY Bounds DEF Waiting, Loop
  <2>2. buffer \in [Users -> [Users -> Seq(Packet)]]
    BY DEF Init
  <2>3. Len(<<>>) <= AudioCapacity
    BY Bounds
  <2>4. QED
    BY <1>0, <2>1, <2>2, <2>3 DEF Init, MediaTypes
<1>2. RequestTypes
  <2>1. hand \in [Users -> Hand]
    BY FreeHand DEF Init
  <2>2. messages \in 0 .. MaxMessages
    BY Bounds DEF Init
  <2>3. QED
    BY <2>1, <2>2 DEF Init, RequestTypes
<1>3. EventTypes
  <2>1. out \in [Users -> Seq(Event)]
    BY DEF Init
  <2>2. Len(<<>>) <= OutCapacity
    BY Bounds
  <2>3. QED
    BY <1>0, <2>1, <2>2 DEF Init, EventTypes
<1>4. OtherTypes
  BY DEF Init, OtherTypes
<1>5. AcceptedAreStored /\ Handled
  BY <1>0 DEF Init, AcceptedAreStored, Handled, Free
<1>6. Places
  BY <1>0 DEF Places, LoopAt, HandAt, Waiting, Free
<1>7. WishesKept
  BY <1>0 DEF WishesKept, Wished, Others, Waiting
<1>8. ToldOnce
  BY <1>0 DEF ToldOnce
<1>9. LastWord
  BY <1>0 DEF LastWord, WordOf, Telling, Leaves, LastRoute, Free
<1>10. Copies /\ NoSecondCopy
  BY <1>0 DEF Copies, CopiesOf, NoSecondCopy, Range
<1>11. QED
  BY <1>1, <1>2, <1>3, <1>4, <1>5, <1>6, <1>7, <1>8, <1>9, <1>10 DEF Inv

LEMMA TypesStep ==
    ASSUME MediaTypes, RequestTypes, EventTypes, OtherTypes, AcceptedAreStored, Places, Next
    PROVE  MediaTypes' /\ RequestTypes' /\ EventTypes' /\ OtherTypes'
<1>1. ASSUME UNCHANGED media
      PROVE  MediaTypes'
  BY <1>1 DEF media, MediaTypes
<1>2. ASSUME UNCHANGED requests
      PROVE  RequestTypes'
  BY <1>2 DEF requests, RequestTypes
<1>3. ASSUME UNCHANGED events
      PROVE  EventTypes'
  BY <1>3 DEF events, EventTypes
<1>4. CASE Sync \/ \E room \in LoginRooms : StoreRoom(room[1], room[2])
  BY <1>2, <1>3, <1>4, QuietFrame, QuietMediaTypes, QuietOtherTypes
<1>5. ASSUME NEW x \in Users, Track(x)
      PROVE  MediaTypes' /\ RequestTypes' /\ EventTypes' /\ OtherTypes'
  BY <1>2, <1>3, <1>5, TrackFrame, MediaTypesStep, OtherTypesStep
<1>6. ASSUME NEW x \in Users, OnMessage(x)
      PROVE  MediaTypes' /\ RequestTypes' /\ EventTypes' /\ OtherTypes'
  BY <1>1, <1>6, MessageFrame, RequestTypesStep, EventTypesStep, OtherTypesStep
<1>7. ASSUME NEW x \in Users, Outgoing(x)
      PROVE  MediaTypes' /\ RequestTypes' /\ EventTypes' /\ OtherTypes'
  BY <1>1, <1>2, <1>7, OutgoingFrame, EventTypesStep, OtherTypesStep
<1>8. QED
  BY <1>4, <1>5, <1>6, <1>7 DEF Next

LEMMA NextInv ==
    ASSUME Inv, [Next]_vars
    PROVE  Inv'
<1>1. CASE Next
  BY <1>1, TypesStep, AcceptedStep, PlacesStep, WishesStep, ToldStep, LastWordStep, CopiesStep
  DEF Inv
<1>2. CASE UNCHANGED vars
  <2>1. MediaTypes' /\ RequestTypes' /\ EventTypes' /\ OtherTypes'
    BY <1>2 DEF vars, media, requests, events, renego, Inv, MediaTypes, RequestTypes, EventTypes,
                OtherTypes
  <2>2. AcceptedAreStored' /\ Places' /\ WishesKept'
    BY <1>2 DEF vars, media, requests, Inv, AcceptedAreStored, Places, LoopAt, HandAt, Others,
                WishesKept, Wished
  <2>3. ToldOnce' /\ Handled' /\ LastWord'
    BY <1>2 DEF vars, requests, events, Inv, ToldOnce, SentTo, Handled, LastWord, WordOf, Telling
  <2>4. Copies' /\ NoSecondCopy'
    BY <1>2 DEF vars, media, Inv, Copies, CopiesOf, NoSecondCopy
  <2>5. QED
    BY <2>1, <2>2, <2>3, <2>4 DEF Inv
<1>3. QED
  BY <1>1, <1>2

\* The invariant holds, in every state of every instance.
THEOREM Invariant == Spec => []Inv
<1>1. Inv /\ [Next]_vars => Inv'
  BY NextInv
<1>2. QED
  BY <1>1, InitInv, PTL DEF Spec

\* The variables keep their types: buffers and queues stay within their
\* capacities, whoever sends.
THEOREM TypeCorrect == Spec => []TypeOK
<1>1. Inv => TypeOK
  <2> SUFFICES ASSUME Inv PROVE TypeOK
    OBVIOUS
  <2>1. ASSUME NEW y \in Users, NEW x \in Users, NEW i \in DOMAIN buffer[y][x]
        PROVE  buffer[y][x][i] \in Packet
    <3>1. buffer[y][x] \in Seq(Packet)
      BY DEF Inv, MediaTypes
    <3>2. i \in 1 .. Len(buffer[y][x])
      BY <3>1, LenProperties
    <3>3. QED
      BY <3>1, <3>2, ElementOfSeq
  <2>2. QED
    BY <2>1 DEF Inv, MediaTypes, RequestTypes, EventTypes, OtherTypes, TypeOK, Packet, Loop
<1>2. QED
  BY <1>1, Invariant, PTL

\* A packet reaches a user by the route or by rooms, never by both, and by no
\* room twice, although the loop falls through to the rooms when the buffer was
\* full for the route.
THEOREM CopiesAreSingle == Spec => []NoSecondCopy
<1>1. Inv => NoSecondCopy
  BY DEF Inv
<1>2. QED
  BY <1>1, Invariant, PTL

\* A browser knows the route once the events are through, if none was dropped at
\* a full queue or overtaken on a second data channel.
THEOREM RoutesAreKnown == Spec => []BrowserKnowsRoute
<1>1. Inv => BrowserKnowsRoute
  <2> SUFFICES ASSUME Inv, NEW x \in Users, NEW y \in Users, Settled(x, y), <<x, y>> \notin missed
               PROVE  heard[y][x] = PipeAudio[x][y]
    BY DEF BrowserKnowsRoute
  <2>1. Leaves(out[y], x, heard[y][x], PipeAudio[x][y])
    BY DEF Inv, LastWord, WordOf, Telling, Settled
  <2>2. \A i \in DOMAIN out[y] : ~Routes(out[y][i], x)
    BY DEF Settled, Range
  <2>3. QED
    BY <2>1, <2>2 DEF Leaves
<1>2. QED
  BY <1>1, Invariant, PTL

\* A user's audio goes to nobody whom no request of the user, since the packet was
\* read, has directed it to: the flag that the loop has read before may be stale,
\* but not by more than a packet.
THEOREM MediaIsAskedFor == Spec => NoMediaUnasked
<1>1. Inv /\ [Next]_vars => [\A x, y \in Users : Copied(x, y) => y \in wished[x]]_vars
  BY AskedStep DEF Inv
<1>2. QED
  BY <1>1, Invariant, PTL DEF Spec, NoMediaUnasked

\* A request is told to a user once, in however many of its rooms the user is and
\* however their lists change meanwhile.
THEOREM EventsAreSingle == Spec => OneMessagePerUser
<1>1. Inv /\ [Next]_vars =>
          [\A y \in Users : LET e == out'[y][Len(out'[y])]
                           IN  Len(out'[y]) > Len(out[y]) /\ e.event = "audio_room_event" =>
                                   <<e.from, e.id>> \notin told[y]]_vars
  BY OneMessageStep DEF Inv
<1>2. QED
  BY <1>1, Invariant, PTL DEF Spec, OneMessagePerUser

=============================================================================
