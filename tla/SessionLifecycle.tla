-------------------------- MODULE SessionLifecycle --------------------------
(***************************************************************************)
(* The life of the connections of one company: the login handler           *)
(* (server.go, auth_handler) that creates and lists a connection, the      *)
(* orchestrator goroutine (orchestrator_router_logic.go) that waits for    *)
(* the peer connection to go down and tears the connection down, the       *)
(* goroutine that drains OutgoingDataChannel, the callers of               *)
(* SendOnlineStatus and the heartbeat (heartbeat_company_sfu.go).          *)
(*                                                                         *)
(* The goroutines meet at two readers-writer locks: the company's          *)
(* CompanySFUsMutex over Users, and one FullConnectionDetailsRWLock per    *)
(* connection.  Their RLock, Lock and RUnlock calls are steps of their     *)
(* own.  The two plain mutexes, UserConnectionsMutex and the process-wide  *)
(* CompanySFUsMutex, are held exactly while a login handler is at certain  *)
(* labels, so they need no variable.                                       *)
(*                                                                         *)
(* A member of Conns stands for one login request and the                  *)
(* FullConnectionDetails object it creates; Owner says which user it logs  *)
(* in.  Bounds: a connection stores at most one room and opens at most one *)
(* data channel.  Openers, Leavers and Timers restrict what the            *)
(* environment does, so that an instance can be kept small; the theorems   *)
(* hold for every value of them.                                           *)
(***************************************************************************)
EXTENDS GoRWMutex

CONSTANTS
    UserIds,    \* the users of the company
    Conns,      \* the login requests, each with its connection object
    Owner,      \* the user each of them logs in
    None,       \* no connection; also the key of the company's own tickers
    Openers,    \* the connections whose browser opens the data channel
    Leavers,    \* the connections whose peer connection may go down
    Talkers,    \* the connections whose browser sends media
    Timers      \* the company's tickers that run

ASSUME ConstantsAssumption ==
    /\ Owner \in [Conns -> UserIds]
    /\ IsFiniteSet(Conns)
    /\ None \notin Conns \cup UserIds
    /\ Openers \subseteq Conns /\ Leavers \subseteq Conns /\ Talkers \subseteq Conns
    /\ Timers \subseteq {"status", "heartbeat", "renegotiator"}

VARIABLES
    at,              \* at[role][x]: where a goroutine is in its code
    todo,            \* todo[role][x]: the listed connections its loop has left;
                     \* todo.sync: the pair the renegotiation pass is at
    pc,              \* Webrtc.ConnectionState() of each connection
    dc,              \* its DataChannel: none (nil, or not open yet), open or closed
    Died, out,       \* its fields Died and OutgoingDataChannel
    MemberTracks,    \* the users whose tracks it carries to its own user
    Users,           \* the company's map of listed connections
    UserConnections, \* the process-wide map of connections
    companyMu,       \* company_sfu.CompanySFUsMutex
    connMu,          \* FullConnectionDetailsRWLock of each connection
    crashed          \* the Go runtime has stopped the process

peers == <<pc, dc, Died, out, MemberTracks>>
maps  == <<Users, UserConnections>>
locks == <<companyMu, connMu, crashed>>
vars  == <<at, todo, peers, maps, locks>>

-----------------------------------------------------------------------------
(* The goroutines: the login handler, SingleOrchestrator, close_connection  *)
(* and the data-channel goroutine of each connection, the callers of        *)
(* SendOnlineStatus (None: the ticker) and the heartbeat.                   *)

AuthLabels == {"idle", "checking", "looking", "refused", "create", "answer", "failed",
               "publish", "rooms", "roomsHeld", "storing", "register",
               "insert", "inserting", "done"}

CloserLabels == {"none", "die", "clear", "status", "outer", "inner", "delete", "deleting", "lock",
                 "closing", "scan", "listing", "sweep", "forget", "done"}

Labels == [auth   : [Conns -> AuthLabels],
           orch   : [Conns -> {"none", "started", "checked", "registered"}],
           closer : [Conns -> CloserLabels],
           sender : [Conns -> {"none", "started", "locking", "draining", "hung"}],
           status : [Conns \cup {None} -> {"idle", "outer", "inner"}],
           hb     : [{None} -> {"idle", "outer", "mark", "killing", "remove",
                                "removing"}]]

Step(r, x, from, to) == at[r][x] = from /\ at' = [at EXCEPT ![r][x] = to]

Published == {c \in Conns : at.auth[c] \in {"rooms", "roomsHeld", "storing",
                                "register", "insert", "inserting", "done"}}

Down == {"disconnected", "failed", "closed"}

Listed == {c \in Conns : \E u \in UserIds : Users[u] = c}

\* No login handler is between server.go:129 and 156.
UserConnectionsFree == \A c \in Conns : at.auth[c] \notin {"checking", "looking"}

\* (Mutant: the unlock at server.go:216 is forgotten.)
GlobalFreeLeaked == \A c \in Conns : at.auth[c] \notin {"roomsHeld", "storing", "register", "insert", "inserting", "done"}

\* No login handler is between server.go:212 and 216.
GlobalFree == \A c \in Conns : at.auth[c] \notin {"roomsHeld", "storing"}

\* The four calls on the company's lock; a goroutine is <<role, x>> and i tells
\* the two read locks it may hold at once apart.
TakeRead(r, x, i) ==
    companyMu' = RLock(companyMu, <<r, x, i>>) /\ UNCHANGED <<connMu, crashed>>

DropRead(r, x, is) ==
    /\ companyMu' = RUnlock(companyMu, {<<r, x, i>> : i \in is})
    /\ crashed' = Unbalanced(companyMu')
    /\ UNCHANGED connMu

TakeWrite(r, x) ==
    /\ CanAnnounce(companyMu)
    /\ companyMu' = Announce(companyMu, <<r, x>>)
    /\ UNCHANGED <<connMu, crashed>>

DropWrite(r, x) ==
    /\ Granted(companyMu, <<r, x>>)
    /\ companyMu' = Unlock(companyMu)
    /\ UNCHANGED <<connMu, crashed>>

HasRead(r, x, i) == Reading(companyMu, <<r, x, i>>)

\* The readers of a connection's lock that stay: its data-channel goroutine, and
\* the media loops that left without an RUnlock.
SenderToken == <<"sender", None, "outer">>
LeakToken   == <<"media", None, "outer">>

Init ==
    /\ at = [auth   |-> [c \in Conns |-> "idle"],
             orch   |-> [c \in Conns |-> "none"],
             closer |-> [c \in Conns |-> "none"],
             sender |-> [c \in Conns |-> "none"],
             status |-> [x \in Conns \cup {None} |-> "idle"],
             hb     |-> [x \in {None} |-> "idle"]]
    /\ todo = [closer |-> [c \in Conns |-> {}], hb |-> [x \in {None} |-> {}],
               sync |-> [to |-> None, from |-> None]]
    /\ pc = [c \in Conns |-> "new"]
    /\ dc = [c \in Conns |-> "none"]
    /\ Died = [c \in Conns |-> FALSE]
    /\ out = [c \in Conns |-> "open"]
    /\ MemberTracks = [c \in Conns |-> {}]
    /\ Users = [u \in UserIds |-> None]
    /\ UserConnections = [u \in UserIds |-> None]
    /\ companyMu = Unlocked
    /\ connMu = [c \in Conns |-> Unlocked]
    /\ crashed = FALSE

-----------------------------------------------------------------------------
(* The login handler.                                                       *)

\* UserConnectionsMutex.Lock().
AuthBegin(c) ==
    /\ Step("auth", c, "idle", "checking")
    /\ UserConnectionsFree
    /\ UNCHANGED <<todo, peers, maps, locks>>

\* The user's earlier connection, if the handler looks into it.
Earlier(c) == IF Users[Owner[c]] # None THEN UserConnections[Owner[c]] ELSE None

AuthLook(c) ==
    /\ \/ (Earlier(c) = None /\ Step("auth", c, "checking", "create"))
       \/ (Earlier(c) # None /\ Step("auth", c, "checking", "looking"))
    /\ UNCHANGED <<todo, peers, maps, locks>>

\* Reads Died of the earlier connection under that connection's lock, with
\* UserConnectionsMutex held: a writer announced there stops every login.
AuthCheckExisting(c) ==
    LET old == UserConnections[Owner[c]]
    IN  /\ at.auth[c] = "looking" /\ CanRead(connMu[old])
        /\ \/ (Died[old] /\ Step("auth", c, "looking", "create"))
           \/ (~Died[old] /\ Step("auth", c, "looking", "refused"))
        /\ UNCHANGED <<todo, peers, maps, locks>>

\* The company is created, or found, under the process-wide mutex.
AuthCreateCompany(c) ==
    /\ Step("auth", c, "create", "answer")
    /\ GlobalFree
    /\ UNCHANGED <<todo, peers, maps, locks>>

\* CreateAnswer builds the connection object, or fails; Sync_track, which it
\* calls, reads Users under the company's lock.
AuthCreateAnswer(c) ==
    /\ (Step("auth", c, "answer", "publish") \/ Step("auth", c, "answer", "failed"))
    /\ CanRead(companyMu)
    /\ UNCHANGED <<todo, peers, maps, locks>>

AuthPublish(c) ==
    /\ Step("auth", c, "publish", "rooms")
    /\ UserConnectionsFree
    /\ UserConnections' = [UserConnections EXCEPT ![Owner[c]] = c]
    /\ Died' = [Died EXCEPT ![c] = FALSE]
    /\ UNCHANGED <<todo, pc, dc, out, MemberTracks, Users, locks>>

\* A room to store: the process-wide mutex first, the company's inside it.
AuthRoomGlobal(c) ==
    /\ Step("auth", c, "rooms", "roomsHeld")
    /\ GlobalFree
    /\ UNCHANGED <<todo, peers, maps, locks>>

AuthRoomLock(c) ==
    /\ Step("auth", c, "roomsHeld", "storing")
    /\ TakeWrite("auth", c)
    /\ UNCHANGED <<todo, peers, maps>>

\* After the rooms the orchestrator goroutine is started.
StartOrchestrator(c, from) ==
    /\ at.auth[c] = from
    /\ at' = [at EXCEPT !.auth[c] = "register", !.orch[c] = "started"]

AuthRoomsDone(c) ==
    /\ \/ (StartOrchestrator(c, "rooms") /\ UNCHANGED locks)
       \/ (StartOrchestrator(c, "storing") /\ DropWrite("auth", c))
    /\ UNCHANGED <<todo, peers, maps>>

\* (Mutant: the process-wide mutex is taken as well.)
AuthRegisterGlobal(c) ==
    /\ Step("auth", c, "register", "insert")
    /\ UserConnectionsFree /\ GlobalFree
    /\ UNCHANGED <<todo, peers, maps, locks>>

\* OnDataChannelBroadcaster is set under UserConnectionsMutex.
AuthRegister(c) ==
    /\ Step("auth", c, "register", "insert")
    /\ UserConnectionsFree
    /\ UNCHANGED <<todo, peers, maps, locks>>

AuthInsertLock(c) ==
    /\ Step("auth", c, "insert", "inserting")
    /\ TakeWrite("auth", c)
    /\ UNCHANGED <<todo, peers, maps>>

\* (Mutant: the connection is listed in any case.)
AuthInsertOver(c) ==
    /\ Step("auth", c, "inserting", "done")
    /\ DropWrite("auth", c)
    /\ Users' = [Users EXCEPT ![Owner[c]] = c]
    /\ UNCHANGED <<todo, peers, UserConnections>>

\* Lists the connection unless one of the user's is listed, and sends the
\* answer.
AuthInsert(c) ==
    /\ Step("auth", c, "inserting", "done")
    /\ DropWrite("auth", c)
    /\ Users' = [Users EXCEPT ![Owner[c]] = IF @ = None THEN c ELSE @]
    /\ UNCHANGED <<todo, peers, UserConnections>>

\* What an accepted request goes through by itself.
AuthStep(c) ==
    \/ AuthLook(c) \/ AuthCheckExisting(c) \/ AuthCreateCompany(c) \/ AuthCreateAnswer(c)
    \/ AuthPublish(c) \/ AuthRoomGlobal(c) \/ AuthRoomLock(c) \/ AuthRoomsDone(c)
    \/ AuthRegister(c) \/ AuthInsertLock(c) \/ AuthInsert(c)

-----------------------------------------------------------------------------
(* The peer connection and its data channel, as the browser and the network *)
(* drive them, and the orchestrator that listens.                           *)

\* The browser has the answer and ICE succeeds, for the first time or again.
Connect(c) ==
    /\ at.auth[c] = "done"
    /\ pc[c] \in {"new", "disconnected"}
    /\ pc' = [pc EXCEPT ![c] = "connected"]
    /\ UNCHANGED <<at, todo, dc, Died, out, MemberTracks, maps, locks>>

\* closeDone: its first call runs close_connection, the others do nothing.
CloseDone(c) == IF at.closer[c] = "none" THEN "die" ELSE at.closer[c]

\* ICE loses the peer, or fails for good.  The state-change handler runs if it
\* is registered already.
PeerDown(c) ==
    /\ c \in Leavers \cap Published
    /\ \/ /\ pc[c] = "connected"
          /\ pc' = [pc EXCEPT ![c] = "disconnected"]
       \/ /\ pc[c] \in {"new", "connected", "disconnected"}
          /\ pc' = [pc EXCEPT ![c] = "failed"]
    /\ at' = IF at.orch[c] = "registered"
             THEN [at EXCEPT !.closer[c] = CloseDone(c)] ELSE at
    /\ UNCHANGED <<todo, dc, Died, out, MemberTracks, maps, locks>>

\* OnOpen: OnDataChannelBroadcaster starts the goroutine that drains
\* OutgoingDataChannel; SendOnlineStatus is called next (StatusOuter).
OpenChannel(c) ==
    /\ c \in Openers
    /\ pc[c] = "connected" /\ dc[c] = "none"
    /\ at.orch[c] \in {"checked", "registered"}
    /\ dc' = [dc EXCEPT ![c] = "open"]
    /\ Step("sender", c, "none", "started")
    /\ UNCHANGED <<todo, pc, Died, out, MemberTracks, maps, locks>>

CloseChannel(c) ==
    /\ dc[c] = "open"
    /\ dc' = [dc EXCEPT ![c] = "closed"]
    /\ UNCHANGED <<at, todo, pc, Died, out, MemberTracks, maps, locks>>

\* The orchestrator sets OnDataChannel and looks at the state once, ...
OrchCheck(c) ==
    /\ at.orch[c] = "started"
    /\ at' = [at EXCEPT !.orch[c] = "checked",
                        !.closer[c] = IF pc[c] \in Down THEN CloseDone(c) ELSE @]
    /\ UNCHANGED <<todo, peers, maps, locks>>

\* ... and registers OnConnectionStateChange afterwards.  A teardown that the
\* look started has ended by then: closeDone is a plain call there.
OrchRegister(c) ==
    /\ Step("orch", c, "checked", "registered")
    /\ at.closer[c] \in {"none", "done"}
    /\ UNCHANGED <<todo, peers, maps, locks>>

\* The data-channel goroutine takes the connection's read lock ...
SenderLock(c) ==
    /\ Step("sender", c, "started", "locking")
    /\ connMu' = [connMu EXCEPT ![c] = RLock(@, SenderToken)]
    /\ UNCHANGED <<todo, peers, maps, companyMu, crashed>>

\* ... and ranges over OutgoingDataChannel until that is closed.  A channel
\* that is nil by now blocks the range for ever.
SenderRange(c) ==
    /\ Step("sender", c, "locking", IF out[c] = "open" THEN "draining" ELSE "hung")
    /\ Reading(connMu[c], SenderToken)
    /\ UNCHANGED <<todo, peers, maps, locks>>

PeerStep(c) ==
    Connect(c) \/ PeerDown(c) \/ OpenChannel(c) \/ CloseChannel(c)

OrchStep(c) == OrchCheck(c) \/ OrchRegister(c) \/ SenderLock(c) \/ SenderRange(c)

-----------------------------------------------------------------------------
(* Media: the renegotiation pass gives every user a sender for the tracks of *)
(* the others; the media loops read packets and look at every listed user.   *)

\* (Mutant: Died is not looked at.)
SyncUserDead(c) ==
    /\ "renegotiator" \in Timers
    /\ todo.sync.from = None
    /\ c \in Listed
    /\ CanRead(connMu[c])
    /\ todo' = [todo EXCEPT !.sync.to = c]
    /\ UNCHANGED <<at, peers, maps, locks>>

\* sysc_user_tracks_and_renegotiate turns to a user, and reads Died once.
SyncUser(c) ==
    /\ "renegotiator" \in Timers
    /\ todo.sync.from = None
    /\ c \in Listed
    /\ CanRead(connMu[c]) /\ ~Died[c]
    /\ todo' = [todo EXCEPT !.sync.to = c]
    /\ UNCHANGED <<at, peers, maps, locks>>

\* Its inner loop comes to a connected user the first one has no tracks of.
SyncPick(d) ==
    LET c == todo.sync.to
    IN  /\ c # None /\ todo.sync.from = None
        /\ d \in Listed /\ Owner[d] # Owner[c]
        /\ pc[d] = "connected" /\ Owner[d] \notin MemberTracks[c]
        /\ CanRead(companyMu)
        /\ todo' = [todo EXCEPT !.sync.from = d]
        /\ UNCHANGED <<at, peers, maps, locks>>

\* AddAudioTrack or AddVideoTrack has added the sender and stores the entry.
SyncStore ==
    LET c == todo.sync.to
        d == todo.sync.from
    IN  /\ d # None
        /\ MemberTracks' = [MemberTracks EXCEPT ![c] = @ \cup {Owner[d]}]
        /\ todo' = [todo EXCEPT !.sync.from = None]
        /\ UNCHANGED <<at, pc, dc, Died, out, maps, locks>>

\* The inner loop, or the pass, ends.
SyncLeave ==
    /\ todo.sync.to # None /\ todo.sync.from = None
    /\ todo' = [todo EXCEPT !.sync.to = None]
    /\ UNCHANGED <<at, peers, maps, locks>>

SyncStep ==
    (\E c \in Conns : SyncUser(c) \/ SyncPick(c)) \/ SyncStore \/ SyncLeave

\* DataChannel is not nil.  OnDataChannel sets it before the channel is open, and
\* from then on the media loops find it.
HasChannel(d) ==
    \/ dc[d] # "none"
    \/ /\ d \in Openers /\ at.orch[d] \in {"checked", "registered"}
       /\ pc[d] \in {"connected", "disconnected"}

\* A packet of c arrives, and its loop comes to d, which is alive but not
\* connected, or whose data channel is not open, no longer or not yet: the loop
\* continues without the RUnlock.
MediaLeak(c, d) ==
    /\ c \in Talkers /\ pc[c] = "connected"
    /\ d \in Listed /\ Owner[d] # Owner[c]
    /\ CanRead(companyMu) /\ CanRead(connMu[d])
    /\ ~Died[d] /\ HasChannel(d)
    /\ (pc[d] # "connected" \/ dc[d] # "open")
    /\ connMu' = [connMu EXCEPT ![d] = RLock(@, LeakToken)]
    /\ UNCHANGED <<at, todo, peers, maps, companyMu, crashed>>

-----------------------------------------------------------------------------
(* SendOnlineStatus takes the company's read lock twice.  Its callers are   *)
(* the three-second ticker, the OnOpen callback of a connection and         *)
(* close_connection; the room broadcasts of OnMessage lock in the same way. *)

StatusOuter(x) ==
    /\ IF x = None THEN "status" \in Timers ELSE dc[x] = "open"
    /\ Step("status", x, "idle", "outer")
    /\ TakeRead("status", x, "outer")
    /\ UNCHANGED <<todo, peers, maps>>

StatusInner(r, x) ==
    /\ Step(r, x, "outer", "inner")
    /\ HasRead(r, x, "outer")
    /\ TakeRead(r, x, "inner")
    /\ UNCHANGED <<todo, peers, maps>>

\* (Mutant: the inner RLock is not waited for.)
StatusEndEarly(r, x, next) ==
    /\ Step(r, x, "inner", next)
    /\ DropRead(r, x, {"outer", "inner"})
    /\ UNCHANGED <<todo, peers, maps>>

StatusEnd(r, x, next) ==
    /\ Step(r, x, "inner", next)
    /\ HasRead(r, x, "inner")
    /\ DropRead(r, x, {"outer", "inner"})
    /\ UNCHANGED <<todo, peers, maps>>

StatusStep(x) == StatusInner("status", x) \/ StatusEnd("status", x, "idle")

-----------------------------------------------------------------------------
(* close_connection, and the deletion from UserConnections after it.        *)

\* (Mutant: Died is left to the heartbeat.)
CloseDieQuietly(c) ==
    /\ Step("closer", c, "die", "clear")
    /\ UNCHANGED <<todo, peers, maps, locks>>

CloseDie(c) ==
    /\ Step("closer", c, "die", "clear")
    /\ Died' = [Died EXCEPT ![c] = TRUE]
    /\ UNCHANGED <<todo, pc, dc, out, MemberTracks, maps, locks>>

CloseClear(c) ==
    /\ Step("closer", c, "clear", "status")
    /\ MemberTracks' = [MemberTracks EXCEPT ![c] = {}]
    /\ UNCHANGED <<todo, pc, dc, Died, out, maps, locks>>

\* SendOnlineStatus.
CloseStatus(c) ==
    /\ Step("closer", c, "status", "outer")
    /\ TakeRead("closer", c, "outer")
    /\ UNCHANGED <<todo, peers, maps>>

CloseDeleteLock(c) ==
    /\ Step("closer", c, "delete", "deleting")
    /\ TakeWrite("closer", c)
    /\ UNCHANGED <<todo, peers, maps>>

\* (Mutant: the deletion does not wait for the readers.)
CloseDeleteRacing(c) ==
    /\ Step("closer", c, "deleting", "lock")
    /\ companyMu' = Unlock(companyMu)
    /\ Users' = [Users EXCEPT ![Owner[c]] = None]
    /\ UNCHANGED <<todo, peers, UserConnections, connMu, crashed>>

\* Unlists whatever connection of the user is listed.
CloseDelete(c) ==
    /\ Step("closer", c, "deleting", "lock")
    /\ DropWrite("closer", c)
    /\ Users' = [Users EXCEPT ![Owner[c]] = None]
    /\ UNCHANGED <<todo, peers, UserConnections>>

CloseOutLock(c) ==
    /\ Step("closer", c, "lock", "closing")
    /\ CanAnnounce(connMu[c])
    /\ connMu' = [connMu EXCEPT ![c] = Announce(@, <<"closer", c>>)]
    /\ UNCHANGED <<todo, peers, maps, companyMu, crashed>>

\* (Mutant: the channel is closed without waiting for the lock.)
CloseOutRacing(c) ==
    /\ Step("closer", c, "closing", "scan")
    /\ out' = [out EXCEPT ![c] = "closed"]
    /\ connMu' = [connMu EXCEPT ![c] = Unlock(@)]
    /\ UNCHANGED <<todo, pc, dc, Died, MemberTracks, maps, companyMu, crashed>>

\* close(OutgoingDataChannel).
CloseOut(c) ==
    /\ Step("closer", c, "closing", "scan")
    /\ Granted(connMu[c], <<"closer", c>>)
    /\ out' = [out EXCEPT ![c] = "closed"]
    /\ connMu' = [connMu EXCEPT ![c] = Unlock(@)]
    /\ UNCHANGED <<todo, pc, dc, Died, MemberTracks, maps, companyMu, crashed>>

CloseScan(c) ==
    /\ Step("closer", c, "scan", "listing")
    /\ TakeRead("closer", c, "outer")
    /\ UNCHANGED <<todo, peers, maps>>

\* (Mutant: the users are ranged over without waiting for the lock.)
CloseListRacing(c) ==
    /\ Step("closer", c, "listing", "sweep")
    /\ todo' = [todo EXCEPT !.closer[c] = Listed]
    /\ UNCHANGED <<peers, maps, locks>>

CloseList(c) ==
    /\ Step("closer", c, "listing", "sweep")
    /\ HasRead("closer", c, "outer")
    /\ todo' = [todo EXCEPT !.closer[c] = Listed]
    /\ UNCHANGED <<peers, maps, locks>>

\* (Mutant: the RUnlock comes before the comparison.)
PassedCountingLeaver(c, d) ==
    LET n == Cardinality(MemberTracks[d])
    IN  IF Owner[c] \in MemberTracks[d] THEN 1 .. n ELSE {n}

\* How many member ids of d's map the loop passes, each with an RUnlock of its
\* own, before it meets the leaver's: maps are ranged over in any order.
Passed(c, d) ==
    LET n == Cardinality(MemberTracks[d])
    IN  IF Owner[c] \in MemberTracks[d] THEN 0 .. n - 1 ELSE {n}

\* One listed connection: the leaver's tracks are removed from it.
CloseSweep(c, d) ==
    /\ at.closer[c] = "sweep" /\ d \in todo.closer[c]
    /\ \E n \in Passed(c, d) : companyMu' = StrayRUnlock(companyMu, n)
    /\ crashed' = Unbalanced(companyMu')
    /\ MemberTracks' = [MemberTracks EXCEPT ![d] = @ \ {Owner[c]}]
    /\ todo' = [todo EXCEPT !.closer[c] = @ \ {d}]
    /\ UNCHANGED <<at, pc, dc, Died, out, maps, connMu>>

\* (Mutant: the deferred RUnlock is forgotten.)
CloseReturnLeaking(c) ==
    /\ Step("closer", c, "sweep", "forget")
    /\ todo.closer[c] = {}
    /\ UNCHANGED <<todo, peers, maps, locks>>

CloseReturn(c) ==
    /\ Step("closer", c, "sweep", "forget")
    /\ todo.closer[c] = {}
    /\ DropRead("closer", c, {"outer"})
    /\ UNCHANGED <<todo, peers, maps>>

\* Deletes whatever connection the user has in UserConnections.
CloseForget(c) ==
    /\ Step("closer", c, "forget", "done")
    /\ UserConnectionsFree
    /\ UserConnections' = [UserConnections EXCEPT ![Owner[c]] = None]
    /\ UNCHANGED <<todo, peers, Users, locks>>

CloserStep(c) ==
    \/ CloseDie(c) \/ CloseClear(c) \/ CloseStatus(c) \/ StatusInner("closer", c) \/ StatusEnd("closer", c, "delete")
    \/ CloseDeleteLock(c) \/ CloseDelete(c) \/ CloseOutLock(c) \/ CloseOut(c)
    \/ CloseScan(c) \/ CloseList(c) \/ CloseReturn(c) \/ CloseForget(c)
    \/ \E d \in Conns : CloseSweep(c, d)

-----------------------------------------------------------------------------
(* Heartbeat, once per tick of the two-second ticker.                       *)

HbStart ==
    /\ "heartbeat" \in Timers
    /\ Step("hb", None, "idle", "outer")
    /\ TakeRead("hb", None, "outer")
    /\ UNCHANGED <<todo, peers, maps>>

HbList ==
    /\ Step("hb", None, "outer", "mark")
    /\ HasRead("hb", None, "outer")
    /\ todo' = [todo EXCEPT !.hb[None] = Listed]
    /\ UNCHANGED <<peers, maps, locks>>

HbLooksAt(c) == at.hb[None] = "mark" /\ c \in todo.hb[None]

HbDoneWith(c) == todo' = [todo EXCEPT !.hb[None] = @ \ {c}]

\* The user is dead already, its heartbeat went out, or the send failed without
\* the grace period being over.
HbPass(c) ==
    /\ HbLooksAt(c) /\ HbDoneWith(c)
    /\ (Died[c] \/ dc[c] = "open")
    /\ UNCHANGED <<at, peers, maps, locks>>

\* The send failed and the grace period is over (HeartbeatClock has the clock).
HbExpire(c) ==
    /\ HbLooksAt(c) /\ HbDoneWith(c)
    /\ ~Died[c] /\ dc[c] = "open"
    /\ Died' = [Died EXCEPT ![c] = TRUE]
    /\ UNCHANGED <<at, pc, dc, out, MemberTracks, maps, locks>>

\* No open data channel: the connection is marked dead under its own lock, with
\* the company's read lock held.
HbKillLock(c) ==
    /\ HbLooksAt(c) /\ Step("hb", None, "mark", "killing")
    /\ ~Died[c] /\ dc[c] # "open"
    /\ CanAnnounce(connMu[c])
    /\ connMu' = [connMu EXCEPT ![c] = Announce(@, <<"hb", None>>)]
    /\ UNCHANGED <<todo, peers, maps, companyMu, crashed>>

HbKill(c) ==
    /\ Step("hb", None, "killing", "mark") /\ HbDoneWith(c)
    /\ Granted(connMu[c], <<"hb", None>>)
    /\ Died' = [Died EXCEPT ![c] = TRUE]
    /\ connMu' = [connMu EXCEPT ![c] = Unlock(@)]
    /\ UNCHANGED <<pc, dc, out, MemberTracks, maps, companyMu, crashed>>

HbRelease ==
    /\ Step("hb", None, "mark", "remove")
    /\ todo.hb[None] = {}
    /\ DropRead("hb", None, {"outer"})
    /\ UNCHANGED <<todo, peers, maps>>

HbRemoveLock ==
    /\ Step("hb", None, "remove", "removing")
    /\ TakeWrite("hb", None)
    /\ UNCHANGED <<todo, peers, maps>>

\* Closes and unlists the dead.  Close makes the state-change handler run, in a
\* goroutine of its own.
HbRemove ==
    LET dead == {c \in Listed : Died[c]}
        told == {c \in dead : pc[c] # "closed" /\ at.orch[c] = "registered"}
    IN  /\ at.hb[None] = "removing"
        /\ at' = [at EXCEPT !.hb[None] = "idle",
                            !.closer = [c \in Conns |-> IF c \in told THEN CloseDone(c) ELSE @[c]]]
        /\ pc' = [c \in Conns |-> IF c \in dead THEN "closed" ELSE pc[c]]
        /\ dc' = [c \in Conns |-> IF c \in dead /\ dc[c] = "open" THEN "closed" ELSE dc[c]]
        /\ Users' = [u \in UserIds |-> IF Users[u] \in dead THEN None ELSE Users[u]]
        /\ DropWrite("hb", None)
        /\ UNCHANGED <<todo, Died, out, MemberTracks, UserConnections>>

HbStep ==
    \/ HbList \/ HbRelease \/ HbRemoveLock \/ HbRemove
    \/ \E c \in Conns : HbPass(c) \/ HbExpire(c) \/ HbKillLock(c) \/ HbKill(c)

-----------------------------------------------------------------------------
(* What the network, the browsers and the tickers decide; the goroutines'    *)
(* own steps.                                                               *)

Environment ==
    \/ \E c \in Conns : AuthBegin(c) \/ PeerStep(c) \/ \E d \in Conns : MediaLeak(c, d)
    \/ \E x \in Conns \cup {None} : StatusOuter(x)
    \/ HbStart \/ SyncStep

Goroutines ==
    \/ \E c \in Conns : AuthStep(c) \/ OrchStep(c) \/ CloserStep(c)
    \/ \E x \in Conns \cup {None} : StatusStep(x)
    \/ HbStep

Next == ~crashed /\ (Environment \/ Goroutines)

Spec == Init /\ [][Next]_vars

(***************************************************************************)
(* Fairness.  The Go scheduler runs every goroutine that can run; a        *)
(* sync.Mutex hands itself to its oldest waiter after one millisecond, and *)
(* Unlock of an RWMutex lets in the readers that wait, so a goroutine that *)
(* can take a lock again and again gets it: strong fairness.  Nothing is   *)
(* assumed of requests, browsers, the network or the tickers.              *)
(***************************************************************************)
Fairness ==
    /\ \A c \in Conns : /\ SF_vars(~crashed /\ AuthStep(c))
                        /\ WF_vars(~crashed /\ OrchStep(c))
                        /\ SF_vars(~crashed /\ CloserStep(c))
    /\ \A x \in Conns \cup {None} : WF_vars(~crashed /\ StatusStep(x))
    /\ SF_vars(~crashed /\ HbStep)

FairSpec == Spec /\ Fairness

-----------------------------------------------------------------------------
(* Properties.                                                              *)

CompanyTokens ==
    {<<r, x, i>> : r \in {"closer", "status", "hb"}, x \in Conns \cup {None},
                   i \in {"outer", "inner"}}

Mutexes(tokens) ==
    {m \in [held : SUBSET tokens, parked : SUBSET tokens,
            writer : {NoThread} \cup ({"auth", "closer", "hb"} \X (Conns \cup {None})),
            extra : Nat] : m.parked \subseteq m.held}

\* The values the variables range over; a parked reader is one that asked.
TypeOK ==
    /\ at \in Labels
    /\ todo \in [closer : [Conns -> SUBSET Conns], hb : [{None} -> SUBSET Conns],
                 sync : [to : Conns \cup {None}, from : Conns \cup {None}]]
    /\ pc \in [Conns -> {"new", "connected"} \cup Down]
    /\ dc \in [Conns -> {"none", "open", "closed"}]
    /\ Died \in [Conns -> BOOLEAN]
    /\ out \in [Conns -> {"open", "closed"}]
    /\ MemberTracks \in [Conns -> SUBSET UserIds]
    /\ Users \in [UserIds -> Conns \cup {None}]
    /\ UserConnections \in [UserIds -> Conns \cup {None}]
    /\ companyMu \in Mutexes(CompanyTokens)
    /\ connMu \in [Conns -> Mutexes({SenderToken, LeakToken})]
    /\ crashed \in BOOLEAN

\* Somebody ranges over Users with the company's read lock held: the heartbeat,
\* the teardown or SendOnlineStatus.  The audio loop, the renegotiation pass and
\* the PLI sender range over the same map without the lock; TrackSync has them.
RangingLocked ==
    \/ at.hb[None] \in {"mark", "killing"}
    \/ \E c \in Conns : at.closer[c] = "sweep"
    \/ \E c \in Conns : (at.closer[c] = "inner" /\ HasRead("closer", c, "inner"))
    \/ \E x \in Conns \cup {None} : (at.status[x] = "inner" /\ HasRead("status", x, "inner"))

\* The company's lock does its work for the goroutines that use it: as long as no
\* RUnlock has been made in excess, none of the three writers of the map (login,
\* teardown, heartbeat) writes while one that holds the lock ranges over it.
ExclusiveUpdates == [][Users' # Users /\ companyMu.extra = 0 => ~RangingLocked]_vars

\* A goroutine waits for its second read lock behind a writer that waits for
\* its first.
Frozen ==
    \/ \E x \in Conns \cup {None} : <<"status", x, "inner">> \in companyMu.parked
    \/ \E c \in Conns : <<"closer", c, "inner">> \in companyMu.parked

\* The nested RLock of SendOnlineStatus has no way back: from then on nobody is
\* listed, nobody is removed and no login gets its answer, unless an RUnlock in
\* excess breaks the lock open.
FreezeIsPermanent ==
    [][Frozen /\ companyMu'.extra = 0 =>
          /\ Frozen'
          /\ Users' = Users
          /\ \A c \in Conns : at'.auth[c] = "done" => at.auth[c] = "done"]_vars

\* The labels of close_connection behind close(OutgoingDataChannel).
PastOut == {"scan", "listing", "sweep", "forget", "done"}

\* A data-channel goroutine that ranges over OutgoingDataChannel keeps
\* close_connection from ever closing it, and so does a media loop that left the
\* read lock behind: the teardown of that connection stops before the tracks of
\* the leaver are removed and its UserConnections entry is deleted.
ReaderPinsTeardown ==
    \A c \in Conns : (at.sender[c] = "draining" \/ LeakToken \in connMu[c].held) =>
        out[c] = "open" /\ at.closer[c] \notin PastOut

\* The labels of close_connection behind the deletion from Users.
PastDelete == {"lock", "closing"} \cup PastOut

\* A connection that is being torn down stays dead, although its login handler
\* may still be at work, and may even list it after the teardown has unlisted it.
\* Such a connection carries no tracks, and the renegotiation pass stays away.
TornDownStaysDown ==
    \A c \in Conns :
        /\ at.closer[c] \notin {"none", "die"} => Died[c]
        /\ at.closer[c] \in PastDelete /\ c \in Listed =>
              MemberTracks[c] = {} /\ todo.sync.to # c

\* A user's entry is removed or replaced only through the death of a connection
\* of this same user, whichever of the three deletions and insertions runs.
OnlyDeadAreUnlisted ==
    [][\A u \in UserIds : Users[u] # None /\ Users'[u] # Users[u] =>
          \E c \in Conns : Owner[c] = u /\ Died[c]]_vars

\* A user that logged in once, was answered and is not dead is in both maps,
\* whatever the other users, the heartbeat and the orchestrators did.
LoneSessionListed ==
    \A c \in Conns :
        /\ at.auth[c] = "done" /\ ~Died[c]
        /\ \A d \in Published : Owner[d] = Owner[c] => d = c
        => Users[Owner[c]] = c /\ UserConnections[Owner[c]] = c

\* The RUnlock calls in excess, and the crash they can end in, take a leaver, a
\* third party and a receiver that carries the third party's tracks.
StrayNeedsThree ==
    companyMu.extra > 0 \/ crashed =>
        \E c, d, e \in Published : c # d /\ d # e /\ c # e

\* A writer waits for a data-channel goroutine, which never ends, or for a read
\* lock that nobody is going to release.
Pinned ==
    \E c \in Conns : /\ connMu[c].writer # NoThread
                     /\ \/ at.sender[c] \in {"draining", "hung"}
                        \/ LeakToken \in connMu[c].held

\* The login, the teardown, the data-channel goroutine or orchestrator of c, a
\* caller of SendOnlineStatus, and the heartbeat can take their next step, as far
\* as locks and one another are concerned.
AuthGoesOn(c) ==
    \/ at.auth[c] = "checking"
    \/ at.auth[c] = "looking" /\ CanRead(connMu[UserConnections[Owner[c]]])
    \/ at.auth[c] \in {"create", "rooms"} /\ GlobalFree
    \/ at.auth[c] = "answer" /\ CanRead(companyMu)
    \/ at.auth[c] \in {"publish", "register"} /\ UserConnectionsFree
    \/ at.auth[c] \in {"roomsHeld", "insert"} /\ CanAnnounce(companyMu)
    \/ at.auth[c] \in {"storing", "inserting"} /\ Granted(companyMu, <<"auth", c>>)

StatusGoesOn(r, x) ==
    \/ at[r][x] = "outer" /\ HasRead(r, x, "outer")
    \/ at[r][x] = "inner" /\ HasRead(r, x, "inner")

CloserGoesOn(c) ==
    \/ at.closer[c] \in {"die", "clear", "status", "scan", "sweep"}
    \/ StatusGoesOn("closer", c)
    \/ at.closer[c] = "delete" /\ CanAnnounce(companyMu)
    \/ at.closer[c] = "deleting" /\ Granted(companyMu, <<"closer", c>>)
    \/ at.closer[c] = "lock" /\ CanAnnounce(connMu[c])
    \/ at.closer[c] = "closing" /\ Granted(connMu[c], <<"closer", c>>)
    \/ at.closer[c] = "listing" /\ HasRead("closer", c, "outer")
    \/ at.closer[c] = "forget" /\ UserConnectionsFree

OrchGoesOn(c) ==
    \/ at.orch[c] = "started"
    \/ at.orch[c] = "checked" /\ at.closer[c] \in {"none", "done"}
    \/ at.sender[c] = "started"
    \/ at.sender[c] = "locking" /\ Reading(connMu[c], SenderToken)

HbGoesOn ==
    \/ at.hb[None] = "outer" /\ HasRead("hb", None, "outer")
    \/ /\ at.hb[None] = "mark"
       /\ \A c \in todo.hb[None] : Died[c] \/ dc[c] = "open" \/ CanAnnounce(connMu[c])
    \/ at.hb[None] = "killing" /\ \E c \in Conns : Granted(connMu[c], <<"hb", None>>)
    \/ at.hb[None] = "remove" /\ CanAnnounce(companyMu)
    \/ at.hb[None] = "removing" /\ Granted(companyMu, <<"hb", None>>)

SomebodyGoesOn ==
    \/ \E c \in Conns : AuthGoesOn(c) \/ CloserGoesOn(c) \/ OrchGoesOn(c)
    \/ \E x \in Conns \cup {None} : StatusGoesOn("status", x)
    \/ HbGoesOn

\* That is what the steps need: whoever is said to go on has one.
GoesOnSteps ==
    /\ \A c \in Conns : /\ AuthGoesOn(c) => ENABLED AuthStep(c)
                        /\ CloserGoesOn(c) => ENABLED CloserStep(c)
                        /\ OrchGoesOn(c) => ENABLED OrchStep(c)
    /\ \A x \in Conns \cup {None} : StatusGoesOn("status", x) => ENABLED StatusStep(x)
    /\ HbGoesOn => ENABLED HbStep

\* Nobody is in the middle of anything, other than a data-channel goroutine that
\* drains its channel.
AtRest ==
    /\ \A c \in Conns : /\ at.auth[c] \in {"idle", "refused", "failed", "done"}
                        /\ at.closer[c] \in {"none", "done"}
                        /\ at.orch[c] \in {"none", "registered"}
                        /\ at.sender[c] \in {"none", "draining", "hung"}
    /\ \A x \in Conns \cup {None} : at.status[x] = "idle"
    /\ at.hb[None] = "idle"

\* The four kinds of locks (UserConnectionsMutex, the process-wide mutex, the
\* company's and the connections' RWMutexes) are taken inside one another in many
\* orders.  Still, while a login, a teardown, a broadcast or the heartbeat is under
\* way, somebody can go on, unless a second RLock waits behind a writer or a writer
\* waits for a reader that never leaves: there is no third deadlock.
OnlyTwoDeadlocks == AtRest \/ SomebodyGoesOn \/ Frozen \/ Pinned \/ crashed

\* The two deadlocks above are the only ones a login can meet: it is refused,
\* fails or is answered unless the company is frozen, a connection is pinned or
\* the process has stopped.
LoginEnds ==
    \A c \in Conns : at.auth[c] = "checking" ~>
        at.auth[c] \in {"refused", "failed", "done"} \/ Frozen \/ Pinned \/ crashed

\* server.go:144 tells a second login that the user's connection "already
\* exists": no user has two live connections.
SingleLiveConnection ==
    \A c, d \in Conns :
        /\ Owner[c] = Owner[d]
        /\ {c, d} \subseteq {e \in Conns : at.auth[e] = "done" /\ pc[e] = "connected" /\ ~Died[e]}
        => c = d

\* orchestrator_router_logic.go:423, "now I have to remove this member track
\* from all the users": the tracks of a connection that is torn down are removed,
\* at any rate if the company is not frozen.
DepartedLeaveNoTracks ==
    \A c \in Conns : at.closer[c] = "die" ~>
        (\A d \in Listed : Owner[c] \notin MemberTracks[d]) \/ Frozen

=============================================================================
