------------------------------ MODULE TrackSync ------------------------------
(***************************************************************************)
(* The renegotiation pass (sysc_user_tracks_and_renegotiate) against what  *)
(* happens while it runs: logins, connections that go down, their          *)
(* teardown, the heartbeat, and the OnTrack loops that ask for the pass.   *)
(* The pass ranges over the live map of users without its lock, and looks  *)
(* users and entries up again and again; where it finds nil, it panics.    *)
(*                                                                         *)
(* Audio only: the code for video is the same, without the look at the     *)
(* connection state after AddTrack.  A connection goes up with its login.  *)
(* SessionLifecycle has the locks; here, a lock that is never released is  *)
(* a step that is never enabled, or a loop that is stuck.  Bound: ICE does *)
(* not recover a user whose tracks have MaxSenders senders at another.     *)
(***************************************************************************)
EXTENDS Naturals

CONSTANTS
    UserIds,
    Conns,    \* the logins, each with its connection object
    Owner,    \* the user each of them logs in
    Leavers,  \* the connections that may go down
    Openers,  \* the connections whose browser opens the data channel
    MaxSenders,
    None

ASSUME TrackSyncAssumption ==
    /\ Owner \in [Conns -> UserIds] /\ None \notin Conns \cup UserIds
    /\ Leavers \subseteq Conns /\ Openers \subseteq Conns /\ MaxSenders \in Nat

VARIABLES
    Users,          \* the company's map of listed connections
    conn, dc,       \* the states of each connection and of its data channel,
                    \* which is "leaked" if it is not open yet and a loop has left
                    \* its read lock behind
    Died,
    AudioReceiver,  \* the connections whose track has started
    closer, left,   \* where the teardown is, and whom it has left to sweep
    hb,             \* the connection whose lock the heartbeat waits for, for ever
    entry,          \* entry[d][u]: how far d's MemberTracks entry for u is set up
    senders,        \* senders[d][u]: u's tracks that pion has senders for at d
    orphans,        \* history: those of them that AddAudioTrack gave up
    RtpSyncNeeded, Renegotiating,
    sync,           \* the pass
    sending,        \* the send to an AudioBuffer that a loop is in
    stuck,          \* the connections whose loop waits for a lock, for ever
    crashed,        \* a panic or a fatal error has ended the process
    gone            \* history: "to" if the connection that the pass has picked,
                    \* "from" if the user whose tracks it is at, went meanwhile

people == <<Users, conn, dc, Died, AudioReceiver>>
down   == <<closer, left, hb>>
tracks == <<entry, senders, orphans>>
flags  == <<RtpSyncNeeded, Renegotiating>>
loops  == <<sending, stuck>>
vars   == <<people, down, tracks, flags, sync, loops, crashed, gone>>

Listed == {c \in Conns : Users[Owner[c]] = c}

InPass == sync.at # "idle"

AtPair == sync.at \in {"look", "add", "check", "store", "buffer"}

NotSending == [to |-> None, shut |-> FALSE]

Resting == [at |-> "idle", outer |-> {}, to |-> None, inner |-> {}, from |-> None]

\* The packets of c arrive, and their loop is not stuck.
Looping(c) == c \in AudioReceiver \ stuck /\ conn[c] = "up"

\* The pass and the audio loops range over Users itself.
Ranging == InPass \/ \E c \in Conns : Looping(c)

\* Go stops a program that changes a map while it is ranged over, if it notices.
WriteUsers(u, c) ==
    /\ Users' = [Users EXCEPT ![u] = c]
    /\ crashed' \in {FALSE, Ranging}

\* Something of user u, or of connection c, goes while the pass is at it.
Disturb(u, c) ==
    gone' = gone \cup (IF AtPair /\ Owner[sync.from] = u THEN {"from"} ELSE {})
                 \cup (IF InPass /\ sync.to = c THEN {"to"} ELSE {})

Init ==
    /\ Users = [u \in UserIds |-> None]
    /\ conn = [c \in Conns |-> "new"] /\ dc = [c \in Conns |-> "none"]
    /\ Died = [c \in Conns |-> FALSE] /\ AudioReceiver = {}
    /\ closer = [c \in Conns |-> "none"] /\ left = [c \in Conns |-> {}] /\ hb = None
    /\ entry = [d \in Conns |-> [u \in UserIds |-> "none"]]
    /\ senders = [d \in Conns |-> [u \in UserIds |-> 0]]
    /\ orphans = [d \in Conns |-> [u \in UserIds |-> 0]]
    /\ RtpSyncNeeded = FALSE /\ Renegotiating = FALSE
    /\ sync = Resting
    /\ sending = [c \in Conns |-> NotSending] /\ stuck = {}
    /\ crashed = FALSE /\ gone = {}

-----------------------------------------------------------------------------
(* Logins, the peer connections and their data channels.                    *)

\* A login whose user has no connection, or a dead one; it is listed if no other
\* one is.
Login(c) ==
    LET u == Owner[c]
    IN  /\ conn[c] = "new" /\ hb = None
        /\ Users[u] # None => Died[Users[u]]
        /\ conn' = [conn EXCEPT ![c] = "up"]
        /\ IF Users[u] = None THEN WriteUsers(u, c) ELSE UNCHANGED <<Users, crashed>>
        /\ UNCHANGED <<dc, Died, AudioReceiver, down, tracks, flags, sync, loops, gone>>

OpenChannel(c) ==
    /\ c \in Openers /\ conn[c] = "up" /\ dc[c] \in {"none", "leaked"}
    /\ dc' = [dc EXCEPT ![c] = "open"]
    /\ UNCHANGED <<Users, conn, Died, AudioReceiver, down, tracks, flags, sync, loops, crashed,
                   gone>>

CloseChannel(c) ==
    /\ c \in Leavers /\ dc[c] = "open"
    /\ dc' = [dc EXCEPT ![c] = "closed"]
    /\ UNCHANGED <<Users, conn, Died, AudioReceiver, down, tracks, flags, sync, loops, crashed,
                   gone>>

TrackStarts(c) ==
    /\ conn[c] = "up" /\ c \notin AudioReceiver
    /\ AudioReceiver' = AudioReceiver \cup {c}
    /\ UNCHANGED <<Users, conn, dc, Died, down, tracks, flags, sync, loops, crashed, gone>>

\* closeDone: the first call starts close_connection.
CloseDone(c) == closer' = [closer EXCEPT ![c] = IF @ = "none" THEN "die" ELSE @]

\* The state-change handler is told that the connection is disconnected.
Lose(c) ==
    /\ c \in Leavers /\ conn[c] = "up"
    /\ conn' = [conn EXCEPT ![c] = "lost"]
    /\ CloseDone(c)
    /\ Disturb(Owner[c], c)
    /\ UNCHANGED <<Users, dc, Died, AudioReceiver, left, hb, tracks, flags, sync, loops, crashed>>

\* ICE finds the peer again; the teardown goes on.
Recover(c) ==
    /\ conn[c] = "lost" /\ \A d \in Conns : senders[d][Owner[c]] < MaxSenders
    /\ conn' = [conn EXCEPT ![c] = "up"]
    /\ UNCHANGED <<Users, dc, Died, AudioReceiver, down, tracks, flags, sync, loops, crashed, gone>>

Peer(c) ==
    \/ Login(c) \/ OpenChannel(c) \/ CloseChannel(c) \/ TrackStarts(c) \/ Lose(c) \/ Recover(c)

-----------------------------------------------------------------------------
(* close_connection.                                                        *)

CloseStep(c, from, to) == closer[c] = from /\ closer' = [closer EXCEPT ![c] = to]

\* (Mutant: Died is left to the heartbeat.)
CloseDieQuietly(c) ==
    /\ CloseStep(c, "die", "clear")
    /\ UNCHANGED <<people, left, hb, tracks, flags, sync, loops, crashed, gone>>

CloseDie(c) ==
    /\ CloseStep(c, "die", "clear")
    /\ Died' = [Died EXCEPT ![c] = TRUE]
    /\ UNCHANGED <<Users, conn, dc, AudioReceiver, left, hb, tracks, flags, sync, loops, crashed,
                   gone>>

\* MemberTracks is replaced by an empty map; the senders stay.
CloseClear(c) ==
    /\ CloseStep(c, "clear", "delete")
    /\ entry' = [entry EXCEPT ![c] = [u \in UserIds |-> "none"]]
    /\ Disturb(Owner[c], c)
    /\ UNCHANGED <<people, left, hb, senders, orphans, flags, sync, loops, crashed>>

CloseDelete(c) ==
    /\ CloseStep(c, "delete", "lock") /\ hb = None
    /\ IF Users[Owner[c]] # None
       THEN WriteUsers(Owner[c], None) ELSE UNCHANGED <<Users, crashed>>
    /\ Disturb(Owner[c], c)
    /\ UNCHANGED <<conn, dc, Died, AudioReceiver, left, hb, tracks, flags, sync, loops>>

\* The write lock; a data-channel goroutine, or a read lock a loop has left behind,
\* would keep it for ever.
CloseOut(c) ==
    /\ dc[c] = "none" /\ CloseStep(c, "lock", "sweep")
    /\ left' = [left EXCEPT ![c] = Listed]
    /\ UNCHANGED <<people, hb, tracks, flags, sync, loops, crashed, gone>>

\* (Mutant: the track is removed without a look at the entry.)
CloseSweepUnlooked(c, d) ==
    LET u == Owner[c]
    IN  /\ closer[c] = "sweep" /\ d \in left[c]
        /\ left' = [left EXCEPT ![c] = @ \ {d}]
        /\ entry' = [entry EXCEPT ![d][u] = "none"]
        /\ senders' = IF conn[d] # "closed" THEN [senders EXCEPT ![d][u] = @ - 1] ELSE senders
        /\ sending' = [e \in Conns |-> IF /\ Owner[e] = u /\ sending[e].to = d
                                          /\ entry[d][u] = "buffer"
                                       THEN [sending[e] EXCEPT !.shut = TRUE] ELSE sending[e]]
        /\ Disturb(u, c)
        /\ UNCHANGED <<people, closer, hb, orphans, flags, sync, stuck, crashed>>

\* The entry for the leaver goes, the buffer is closed, and the track is removed.
CloseSweep(c, d) ==
    LET u == Owner[c]
        old == entry[d][u]
    IN  /\ closer[c] = "sweep" /\ d \in left[c]
        /\ left' = [left EXCEPT ![c] = @ \ {d}]
        /\ entry' = [entry EXCEPT ![d][u] = "none"]
        /\ senders' = IF old \in {"track", "buffer"} /\ conn[d] # "closed"
                      THEN [senders EXCEPT ![d][u] = @ - 1] ELSE senders
        /\ sending' = [e \in Conns |-> IF Owner[e] = u /\ sending[e].to = d /\ old = "buffer"
                                       THEN [sending[e] EXCEPT !.shut = TRUE] ELSE sending[e]]
        /\ Disturb(u, c)
        /\ UNCHANGED <<people, closer, hb, orphans, flags, sync, stuck, crashed>>

CloseReturn(c) ==
    /\ left[c] = {} /\ CloseStep(c, "sweep", "done")
    /\ UNCHANGED <<people, left, hb, tracks, flags, sync, loops, crashed, gone>>

Close(c) ==
    \/ CloseDie(c) \/ CloseClear(c) \/ CloseDelete(c) \/ CloseOut(c) \/ CloseReturn(c)
    \/ \E d \in Conns : CloseSweep(c, d)

-----------------------------------------------------------------------------
(* Heartbeat.                                                               *)

\* No open data channel: dead, unless the lock is never given up.
HbKill(c) ==
    /\ hb = None /\ c \in Listed /\ ~Died[c]
    /\ \/ dc[c] = "none" /\ Died' = [Died EXCEPT ![c] = TRUE] /\ UNCHANGED hb
       \/ dc[c] \in {"leaked", "closed"} /\ hb' = c /\ UNCHANGED Died
    /\ UNCHANGED <<Users, conn, dc, AudioReceiver, closer, left, tracks, flags, sync, loops,
                   crashed, gone>>

\* The dead are closed and unlisted.
HbRemove(c) ==
    /\ hb = None /\ c \in Listed /\ Died[c]
    /\ WriteUsers(Owner[c], None)
    /\ conn' = [conn EXCEPT ![c] = "closed"]
    /\ dc' = [dc EXCEPT ![c] = IF @ = "open" THEN "closed" ELSE @]
    /\ CloseDone(c)
    /\ Disturb(Owner[c], c)
    /\ UNCHANGED <<Died, AudioReceiver, left, hb, tracks, flags, sync, loops>>

-----------------------------------------------------------------------------
(* The pass.  Its caller, a ticker, runs it once at a time.                 *)

\* What every step of the pass leaves alone.
PassFrame == UNCHANGED <<people, down, loops>>

Goto(label) == sync' = [sync EXCEPT !.at = label]

Begun == [Resting EXCEPT !.at = "users", !.outer = UserIds]

\* (Mutant: Renegotiating is set before the early return.)
SyncBeginTooSoon ==
    /\ sync.at = "idle"
    /\ sync' = IF RtpSyncNeeded /\ ~Renegotiating THEN Begun ELSE sync
    /\ Renegotiating' = TRUE
    /\ UNCHANGED <<tracks, RtpSyncNeeded, crashed, gone>> /\ PassFrame

\* The ticker calls, and a pass is needed.  The flags are read two seconds before
\* the pass begins; only the pass itself could clear them meanwhile.
SyncBegin ==
    /\ sync.at = "idle" /\ RtpSyncNeeded /\ ~Renegotiating
    /\ sync' = Begun
    /\ Renegotiating' = TRUE
    /\ UNCHANGED <<tracks, RtpSyncNeeded, crashed, gone>> /\ PassFrame

\* (Mutant: a user without a connection is tried again.)
SyncUserAgain(u) ==
    /\ sync.at = "users" /\ u \in sync.outer
    /\ sync' = IF Users[u] = None THEN sync
               ELSE [sync EXCEPT !.outer = @ \ {u}, !.to = Users[u], !.at = "alive"]
    /\ UNCHANGED <<tracks, flags, crashed, gone>> /\ PassFrame

\* A user that is to have the tracks of the others.
SyncUser(u) ==
    /\ sync.at = "users" /\ u \in sync.outer
    /\ sync' = IF Users[u] = None THEN [sync EXCEPT !.outer = @ \ {u}]
               ELSE [sync EXCEPT !.outer = @ \ {u}, !.to = Users[u], !.at = "alive"]
    /\ UNCHANGED <<tracks, flags, crashed, gone>> /\ PassFrame

\* A writer waits for the connection's lock, and for a goroutine that has it.
Pinned(d) == hb = d \/ (closer[d] = "lock" /\ dc[d] # "none")

\* Died is read under the connection's lock.
SyncAlive ==
    /\ sync.at = "alive" /\ ~Pinned(sync.to)
    /\ \/ Died[sync.to] /\ sync' = [sync EXCEPT !.at = "users", !.to = None] /\ gone' = {}
       \/ /\ ~Died[sync.to] /\ sync' = [sync EXCEPT !.at = "inner", !.inner = UserIds]
          /\ UNCHANGED gone
    /\ UNCHANGED <<tracks, flags, crashed>> /\ PassFrame

\* Another user, whose tracks it is to have.
SyncPeer(u) ==
    /\ sync.at = "inner" /\ u \in sync.inner
    /\ sync' = IF Users[u] = None \/ u = Owner[sync.to] THEN [sync EXCEPT !.inner = @ \ {u}]
               ELSE [sync EXCEPT !.inner = @ \ {u}, !.from = Users[u], !.at = "look"]
    /\ gone' = gone \ {"from"}
    /\ UNCHANGED <<tracks, flags, crashed>> /\ PassFrame

\* The listed connection of the user the pass is at, None if there is none now.
Source == Users[Owner[sync.from]]

Entry == entry[sync.to][Owner[sync.from]]

SetEntry(e) == entry' = [entry EXCEPT ![sync.to][Owner[sync.from]] = e]

AddSender == senders' = [senders EXCEPT ![sync.to][Owner[sync.from]] = @ + 1]

\* (Mutant: the sender track is not looked at.)
SyncLookAlways ==
    /\ sync.at = "look"
    /\ crashed' = (Source = None)
    /\ \/ Source = None /\ UNCHANGED sync
       \/ Source # None /\ conn[Source] = "up" /\ Source \in AudioReceiver /\ Goto("add")
       \/ Source # None /\ ~(conn[Source] = "up" /\ Source \in AudioReceiver) /\ Goto("inner")
    /\ UNCHANGED <<tracks, flags, gone>> /\ PassFrame

\* The user's connection is looked up again, and its track; an entry with a
\* track is left as it is.
SyncLook ==
    LET add == conn[Source] = "up" /\ Source \in AudioReceiver /\ Entry \in {"none", "entry"}
    IN  /\ sync.at = "look"
        /\ crashed' = (Source = None)
        /\ \/ Source = None /\ UNCHANGED sync
           \/ Source # None /\ Goto(IF add THEN "add" ELSE "inner")
        /\ UNCHANGED <<tracks, flags, gone>> /\ PassFrame

\* (Mutant: the entry is left to AddVideoTrack.)
AddAudioTrackNoEntry ==
    /\ sync.at = "add"
    /\ \/ /\ Source = None /\ Goto("inner") /\ UNCHANGED <<tracks, crashed>>
       \/ /\ Source # None /\ conn[sync.to] # "closed" /\ Goto("check")
          /\ AddSender /\ UNCHANGED <<entry, orphans, crashed>>
       \/ /\ Source # None /\ conn[sync.to] = "closed" /\ Goto("inner")
          /\ UNCHANGED tracks /\ crashed' \in BOOLEAN
    /\ UNCHANGED <<flags, gone>> /\ PassFrame

\* AddAudioTrack gives up if the user is unlisted, and needs the track of the
\* connection that is listed now; with it, the connection gets a sender and
\* MemberTracks an entry.  A connection that is closed by now yields
\* a nil sender, which the RTCP goroutine reads from, if it is not cancelled.
AddAudioTrack ==
    /\ sync.at = "add"
    /\ \/ /\ Source = None /\ Goto("inner") /\ UNCHANGED <<tracks, crashed>>
       \/ /\ Source # None /\ conn[sync.to] # "closed" /\ Goto("check")
          /\ AddSender /\ UNCHANGED orphans /\ crashed' = (Source \notin AudioReceiver)
          /\ SetEntry(IF Entry = "none" THEN "entry" ELSE Entry)
       \/ /\ Source # None /\ conn[sync.to] = "closed" /\ Goto("inner")
          /\ UNCHANGED <<senders, orphans>> /\ crashed' \in {Source \notin AudioReceiver, TRUE}
          /\ SetEntry(IF Entry = "none" THEN "entry" ELSE Entry)
    /\ UNCHANGED <<flags, gone>> /\ PassFrame

\* Is the user still connected?  If not, the sender stays, without an owner.
AddCheck ==
    /\ sync.at = "check"
    /\ crashed' = (Source = None)
    /\ \/ Source = None /\ UNCHANGED <<sync, orphans>>
       \/ Source # None /\ conn[Source] = "up" /\ Goto("store") /\ UNCHANGED orphans
       \/ /\ Source # None /\ conn[Source] # "up" /\ Goto("inner")
          /\ orphans' = [orphans EXCEPT ![sync.to][Owner[sync.from]] = @ + 1]
    /\ UNCHANGED <<entry, senders, flags, gone>> /\ PassFrame

\* The track is stored in the entry, ...
AddStore ==
    /\ sync.at = "store"
    /\ crashed' = (Entry = "none")
    /\ \/ Entry = "none" /\ UNCHANGED <<entry, sync>>
       \/ Entry # "none" /\ SetEntry("track") /\ Goto("buffer")
    /\ UNCHANGED <<senders, orphans, flags, gone>> /\ PassFrame

\* ... and the buffer, with a Forward goroutine that reads it.
SyncBuffer ==
    /\ sync.at = "buffer"
    /\ crashed' = (Entry = "none")
    /\ \/ Entry = "none" /\ UNCHANGED <<entry, sync>>
       \/ Entry # "none" /\ SetEntry("buffer") /\ Goto("inner")
    /\ UNCHANGED <<senders, orphans, flags, gone>> /\ PassFrame

SyncNext ==
    /\ sync.at = "inner" /\ sync.inner = {}
    /\ sync' = [sync EXCEPT !.at = "users", !.to = None, !.from = None]
    /\ gone' = {}
    /\ UNCHANGED <<tracks, flags, crashed>> /\ PassFrame

\* The flags are cleared, also if a loop has asked for a pass meanwhile.
SyncEnd ==
    /\ sync.at = "users" /\ sync.outer = {}
    /\ sync' = Resting
    /\ RtpSyncNeeded' = FALSE /\ Renegotiating' = FALSE
    /\ UNCHANGED <<tracks, crashed, gone>> /\ PassFrame

Pass ==
    \/ SyncBegin \/ SyncAlive \/ SyncNext \/ SyncEnd
    \/ \E u \in UserIds : SyncUser(u) \/ SyncPeer(u)
    \/ SyncLook \/ AddAudioTrack \/ AddCheck \/ AddStore \/ SyncBuffer

-----------------------------------------------------------------------------
(* The OnTrack loops.                                                       *)

\* c's packets arrive, and d can be sent to.
Reaches(c, d) ==
    /\ Looping(c) /\ Owner[c] # Owner[d] /\ ~Pinned(d)
    /\ d \in Listed /\ ~Died[d] /\ dc[d] = "open" /\ conn[d] = "up"

\* The channel of d is there but not open: the loop goes on without its RUnlock.  One
\* that is closed, or was open when d went down, has a goroutine that keeps the
\* lock anyway.
Leak(c, d) ==
    /\ Looping(c) /\ Owner[c] # Owner[d]
    /\ d \in Listed \cap Openers /\ ~Died[d] /\ dc[d] = "none"
    /\ dc' = [dc EXCEPT ![d] = "leaked"]
    /\ UNCHANGED <<Users, conn, Died, AudioReceiver, down, tracks, flags, sync, loops, crashed,
                   gone>>

\* A writer waits for the lock of d, which is listed, or was when the loop came to it.
Park(c, d) ==
    /\ Looping(c) /\ Owner[c] # Owner[d] /\ Pinned(d) /\ sending[c].to = None
    /\ stuck' = stuck \cup {c}
    /\ UNCHANGED <<people, down, tracks, flags, sync, sending, crashed, gone>>

\* d has no track for c, ...
Missing(c, d) == Reaches(c, d) /\ entry[d][Owner[c]] \in {"none", "entry"}

\* ... and the pass is asked for.
Ask(c, d) ==
    /\ Missing(c, d)
    /\ RtpSyncNeeded' = TRUE
    /\ UNCHANGED <<people, down, tracks, Renegotiating, sync, loops, crashed, gone>>

\* A packet of c is routed to d, for which the channel is looked up first ...
Send(c, d) ==
    /\ Reaches(c, d) /\ sending[c].to = None
    /\ entry[d][Owner[c]] = "buffer" /\ entry[c][Owner[d]] # "none"
    /\ sending' = [sending EXCEPT ![c].to = d]
    /\ UNCHANGED <<people, down, tracks, flags, sync, stuck, crashed, gone>>

\* ... and sent to then: a send on a closed channel panics.
Sent(c) ==
    /\ sending[c].to # None
    /\ sending' = [sending EXCEPT ![c] = NotSending]
    /\ crashed' = sending[c].shut
    /\ UNCHANGED <<people, down, tracks, flags, sync, stuck, gone>>

Loop(c, d) == Leak(c, d) \/ Park(c, d) \/ Ask(c, d) \/ Send(c, d) \/ Sent(c)

Next ==
    /\ ~crashed
    /\ \/ Pass
       \/ \E c \in Conns : Peer(c) \/ Close(c) \/ HbKill(c) \/ HbRemove(c)
       \/ \E c, d \in Conns : Loop(c, d)

Spec == Init /\ [][Next]_vars

(***************************************************************************)
(* Fairness: the ticker calls the pass, which runs.  A browser whose track *)
(* has started keeps sending, and the signaling state, on which the loops  *)
(* wait, is stable again and again (SilenceEnds of Negotiation).           *)
(***************************************************************************)
Fairness ==
    /\ WF_vars(~crashed /\ Pass)
    /\ \A c \in Conns : \A d \in Conns \ {c} : WF_vars(~crashed /\ Ask(c, d))

FairSpec == Spec /\ Fairness

\* The pass waits for a lock that is never released.
Blocked == sync.at = "alive" /\ Pinned(sync.to)

\* What Fairness comes to, with the guards written out.  A pass that has begun ends,
\* unless it waits for ever.
PassesEnd == []<>(crashed \/ ~InPass \/ Blocked)

\* A pass that is needed begins.
PassesBegin ==
    []<>(crashed \/ InPass \/ ~RtpSyncNeeded \/ Renegotiating) \/ []<><<SyncBegin>>_vars

\* A loop that misses a track asks for the pass.
Asked(c, d) == []<>(crashed \/ RtpSyncNeeded \/ ~Missing(c, d)) \/ []<><<Ask(c, d)>>_vars

\* What users may count on: no pass is skipped, given up or repeated without end.
StepsAreTaken ==
    PassesEnd /\ PassesBegin /\ \A c \in Conns : \A d \in Conns \ {c} : Asked(c, d)

-----------------------------------------------------------------------------
(* Properties.                                                              *)

\* The values the variables range over.
TypeOK ==
    /\ Users \in [UserIds -> Conns \cup {None}]
    /\ conn \in [Conns -> {"new", "up", "lost", "closed"}]
    /\ dc \in [Conns -> {"none", "leaked", "open", "closed"}]
    /\ Died \in [Conns -> BOOLEAN] /\ AudioReceiver \subseteq Conns
    /\ closer \in [Conns -> {"none", "die", "clear", "delete", "lock", "sweep", "done"}]
    /\ left \in [Conns -> SUBSET Conns] /\ hb \in Conns \cup {None}
    /\ entry \in [Conns -> [UserIds -> {"none", "entry", "track", "buffer"}]]
    /\ senders \in [Conns -> [UserIds -> Nat]] /\ orphans \in [Conns -> [UserIds -> Nat]]
    /\ RtpSyncNeeded \in BOOLEAN /\ Renegotiating \in BOOLEAN
    /\ sync \in [at : {"idle", "users", "alive", "inner", "look", "add", "check", "store",
                       "buffer"},
                 outer : SUBSET UserIds, to : Conns \cup {None},
                 inner : SUBSET UserIds, from : Conns \cup {None}]
    /\ sending \in [Conns -> [to : Conns \cup {None}, shut : BOOLEAN]] /\ stuck \subseteq Conns
    /\ crashed \in BOOLEAN /\ gone \subseteq {"to", "from"}

\* The process ends in three ways only.  Users is changed while somebody ranges over
\* it without the lock; a loop sends to a buffer that was closed after the loop had
\* looked it up; or the pass is at two users of whom one has gone since the pass
\* came to them.  It never finds a nil that somebody left behind earlier, such as a
\* half-made entry, a user that is dead and still listed or a connection that is
\* closed.
CrashNeedsOverlap ==
    [][crashed' =>
          \/ Users' # Users /\ Ranging
          \/ \E c \in Conns : sending[c].shut /\ sending'[c] # sending[c]
          \/ AtPair /\ gone # {}]_vars

\* The pass is at the tracks of u for d.
At(d, u) == AtPair /\ sync.to = d /\ Owner[sync.from] = u

\* A track of u that d has an entry for, or is about to get one for.
Held(d, u) ==
    entry[d][u] \in {"track", "buffer"} \/ (At(d, u) /\ sync.at \in {"check", "store"})

\* A connection that is not torn down has one pion sender for each user whose track
\* it has, and none for the others, whoever comes, goes, recovers and logs in again
\* at any step of the pass.  The one way to more is the user going down between
\* AddTrack and the look at his connection: these senders are never removed.
SendersMatchEntries ==
    \A d \in Conns, u \in UserIds :
        closer[d] = "none" =>
            senders[d][u] = orphans[d][u] + (IF Held(d, u) THEN 1 ELSE 0)

Together(c, d) == Reaches(c, d) /\ c \in Listed

\* Two users who stay get each other's tracks, although the request for a pass
\* may be cleared unheard: the loop repeats it.
TracksAreSynced ==
    \A c \in Conns : \A d \in Conns \ {c} :
        Together(c, d) ~> entry[d][Owner[c]] = "buffer" \/ ~Together(c, d) \/ Blocked \/ crashed

\* Users and deaths are what a company promises: the users come with their logins,
\* and go only behind a death.
Company ==
    INSTANCE Membership
    WITH member <- Users, answered <- {c \in Conns : conn[c] # "new"},
         dead <- {c \in Conns : Died[c]}

KeepsMembership == Company!Spec

=============================================================================
