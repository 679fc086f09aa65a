--------------------------- MODULE TrackSyncProofs ---------------------------
(***************************************************************************)
(* TrackSync keeps its types; the process ends in three ways only; senders *)
(* and entries agree; its users come and go as Membership has them; and    *)
(* two users who stay get each other's tracks: for any number of users and *)
(* of logins, re-logins included.                                          *)
(*                                                                         *)
(* CrashNeedsOverlap and SendersMatchEntries need a strengthening: what    *)
(* the pass will find depends on what it has seen.  Inv says, for each     *)
(* label of the pass, what still holds of the source and of the entry, as  *)
(* long as neither user has gone (SourceStands, EntryStands), that senders *)
(* are there to be removed (SendersSuffice), and that a connection that is *)
(* closed is never listed (ClosedAreGone), so that the pass only meets one *)
(* if it was closed under it (TargetStands).                               *)
(***************************************************************************)
EXTENDS TrackSync, TLAPS

\* Users maps a user to connections of this user.
OwnListed == \A u \in UserIds : Users[u] # None => Owner[Users[u]] = u

\* A closed connection is being torn down and is not listed.
ClosedAreGone ==
    \A c \in Conns : conn[c] = "closed" => closer[c] # "none" /\ Users[Owner[c]] # c

\* The pass knows whom it is at.
PassKnows ==
    /\ sync.at \in {"alive", "inner"} \/ AtPair => sync.to \in Conns
    /\ AtPair => sync.from \in Conns

Quiet == gone = {}

\* The connection the pass has picked is open, unless it was closed meanwhile.
TargetStands == InPass /\ sync.to \in Conns /\ conn[sync.to] = "closed" => "to" \in gone

\* So is the source, which is listed.
SourceStands ==
    AtPair /\ Quiet =>
        /\ Source # None
        /\ sync.at = "add" => Source \in AudioReceiver
        /\ sync.at \in {"add", "check"} => conn[Source] = "up"

\* How far the entry is, and that it is there.
EntryStands ==
    /\ sync.at \in {"add", "check", "store"} => Entry \in {"none", "entry"}
    /\ sync.at = "buffer" => Entry \in {"none", "track"}
    /\ sync.at \in {"check", "store", "buffer"} /\ Quiet => Entry # "none"

\* What the teardown will remove has been added.
SendersSuffice == \A d \in Conns, u \in UserIds : Held(d, u) => senders[d][u] > 0

\* The inductive invariant.
Inv ==
    /\ TypeOK /\ OwnListed /\ ClosedAreGone /\ PassKnows /\ TargetStands
    /\ SourceStands /\ EntryStands /\ SendersSuffice /\ SendersMatchEntries

-----------------------------------------------------------------------------
(* Types.                                                                   *)

\* What the steps write to is written to with values of its type.
LEMMA WriteUsersTypes ==
    ASSUME TypeOK, NEW u \in UserIds, NEW c \in Conns \cup {None}, WriteUsers(u, c)
    PROVE  /\ Users' \in [UserIds -> Conns \cup {None}]
           /\ crashed' \in BOOLEAN
<1>1. Users' \in [UserIds -> Conns \cup {None}]
  BY DEF WriteUsers, TypeOK
<1>2. Ranging \in BOOLEAN
  BY DEF Ranging, InPass
<1>3. crashed' \in BOOLEAN
  BY <1>2 DEF WriteUsers, TypeOK
<1>4. QED
  BY <1>1, <1>3

LEMMA DisturbTypes ==
    ASSUME TypeOK, PassKnows, NEW c \in Conns, Disturb(Owner[c], c)
    PROVE  gone' \subseteq {"to", "from"}
  BY TrackSyncAssumption DEF Disturb, TypeOK, PassKnows

LEMMA SetEntryTypes ==
    ASSUME TypeOK, NEW e \in {"none", "entry", "track", "buffer"}, SetEntry(e)
    PROVE  entry' \in [Conns -> [UserIds -> {"none", "entry", "track", "buffer"}]]
  BY DEF SetEntry, TypeOK

LEMMA PeerTypes ==
    ASSUME TypeOK, PassKnows, NEW c \in Conns, Peer(c)
    PROVE  TypeOK'
<1>1. CASE Login(c)
  <2>1. /\ Users' \in [UserIds -> Conns \cup {None}]
        /\ crashed' \in BOOLEAN
    <3>1. CASE Users[Owner[c]] = None
      BY <1>1, <3>1, WriteUsersTypes, TrackSyncAssumption DEF Login
    <3>2. CASE Users[Owner[c]] # None
      BY <1>1, <3>2 DEF Login, TypeOK
    <3>3. QED
      BY <3>1, <3>2
  <2>2. conn' \in [Conns -> {"new", "up", "lost", "closed"}]
    BY <1>1 DEF Login, TypeOK
  <2>3. QED
    BY <1>1, <2>1, <2>2 DEF Login, TypeOK, down, tracks, flags, loops
<1>2. CASE OpenChannel(c)
  BY <1>2 DEF OpenChannel, TypeOK, down, tracks, flags, loops
<1>3. CASE CloseChannel(c)
  BY <1>3 DEF CloseChannel, TypeOK, down, tracks, flags, loops
<1>4. CASE TrackStarts(c)
  BY <1>4 DEF TrackStarts, TypeOK, down, tracks, flags, loops
<1>5. CASE Lose(c)
  <2>1. gone' \subseteq {"to", "from"}
    BY <1>5, DisturbTypes DEF Lose
  <2>2. /\ conn' \in [Conns -> {"new", "up", "lost", "closed"}]
        /\ closer' \in [Conns -> {"none", "die", "clear", "delete", "lock", "sweep", "done"}]
    BY <1>5 DEF Lose, CloseDone, TypeOK
  <2>3. QED
    BY <1>5, <2>1, <2>2 DEF Lose, TypeOK, tracks, flags, loops
<1>6. CASE Recover(c)
  BY <1>6 DEF Recover, TypeOK, down, tracks, flags, loops
<1>7. QED
  BY <1>1, <1>2, <1>3, <1>4, <1>5, <1>6 DEF Peer

LEMMA CloseTypes ==
    ASSUME TypeOK, PassKnows, SendersSuffice, NEW c \in Conns, Close(c)
    PROVE  TypeOK'
<1>1. CASE CloseDie(c)
  BY <1>1 DEF CloseDie, CloseStep, TypeOK, tracks, flags, loops
<1>2. CASE CloseClear(c)
  <2>1. gone' \subseteq {"to", "from"}
    BY <1>2, DisturbTypes DEF CloseClear
  <2>2. entry' \in [Conns -> [UserIds -> {"none", "entry", "track", "buffer"}]]
    BY <1>2 DEF CloseClear, TypeOK
  <2>3. QED
    BY <1>2, <2>1, <2>2 DEF CloseClear, CloseStep, TypeOK, people, flags, loops
<1>3. CASE CloseDelete(c)
  <2>1. gone' \subseteq {"to", "from"}
    BY <1>3, DisturbTypes DEF CloseDelete
  <2>2. /\ Users' \in [UserIds -> Conns \cup {None}]
        /\ crashed' \in BOOLEAN
    <3>1. CASE Users[Owner[c]] # None
      BY <1>3, <3>1, WriteUsersTypes, TrackSyncAssumption DEF CloseDelete
    <3>2. CASE Users[Owner[c]] = None
      BY <1>3, <3>2 DEF CloseDelete, TypeOK
    <3>3. QED
      BY <3>1, <3>2
  <2>3. QED
    BY <1>3, <2>1, <2>2 DEF CloseDelete, CloseStep, TypeOK, tracks, flags, loops
<1>4. CASE CloseOut(c)
  BY <1>4 DEF CloseOut, CloseStep, Listed, TypeOK, people, tracks, flags, loops
<1>5. CASE CloseReturn(c)
  BY <1>5 DEF CloseReturn, CloseStep, TypeOK, people, tracks, flags, loops
<1>6. ASSUME NEW d \in Conns, CloseSweep(c, d)
      PROVE  TypeOK'
  <2>1. gone' \subseteq {"to", "from"}
    BY <1>6, DisturbTypes DEF CloseSweep
  <2>2. /\ left' \in [Conns -> SUBSET Conns]
        /\ entry' \in [Conns -> [UserIds -> {"none", "entry", "track", "buffer"}]]
    BY <1>6, TrackSyncAssumption DEF CloseSweep, TypeOK
  <2>3. senders' \in [Conns -> [UserIds -> Nat]]
    <3>1. CASE entry[d][Owner[c]] \in {"track", "buffer"} /\ conn[d] # "closed"
      <4>1. senders[d][Owner[c]] - 1 \in Nat
        BY <3>1, TrackSyncAssumption DEF SendersSuffice, Held, TypeOK
      <4>2. senders' = [senders EXCEPT ![d][Owner[c]] = @ - 1]
        BY <1>6, <3>1 DEF CloseSweep
      <4>3. QED
        BY <4>1, <4>2, TrackSyncAssumption DEF TypeOK
    <3>2. CASE ~(entry[d][Owner[c]] \in {"track", "buffer"} /\ conn[d] # "closed")
      BY <1>6, <3>2 DEF CloseSweep, TypeOK
    <3>3. QED
      BY <3>1, <3>2
  <2>4. sending' \in [Conns -> [to : Conns \cup {None}, shut : BOOLEAN]]
    <3>1. sending \in [Conns -> [to : Conns \cup {None}, shut : BOOLEAN]]
      BY DEF TypeOK
    <3>2. \A e \in Conns : /\ sending[e] \in [to : Conns \cup {None}, shut : BOOLEAN]
                          /\ [sending[e] EXCEPT !.shut = TRUE]
                               \in [to : Conns \cup {None}, shut : BOOLEAN]
      BY <3>1
    <3>3. sending' = [e \in Conns |-> IF /\ Owner[e] = Owner[c] /\ sending[e].to = d
                                        /\ entry[d][Owner[c]] = "buffer"
                                     THEN [sending[e] EXCEPT !.shut = TRUE] ELSE sending[e]]
      BY <1>6 DEF CloseSweep
    <3>4. QED
      BY <3>2, <3>3
  <2>5. QED
    BY <1>6, <2>1, <2>2, <2>3, <2>4 DEF CloseSweep, TypeOK, people, flags, loops
<1>7. QED
  BY <1>1, <1>2, <1>3, <1>4, <1>5, <1>6 DEF Close

LEMMA HeartbeatTypes ==
    ASSUME TypeOK, PassKnows, NEW c \in Conns, HbKill(c) \/ HbRemove(c)
    PROVE  TypeOK'
<1>1. CASE HbKill(c)
  <2>1. Died' \in [Conns -> BOOLEAN] /\ hb' \in Conns \cup {None}
    BY <1>1 DEF HbKill, TypeOK
  <2>2. QED
    BY <1>1, <2>1 DEF HbKill, TypeOK, tracks, flags, loops
<1>2. CASE HbRemove(c)
  <2>1. gone' \subseteq {"to", "from"}
    BY <1>2, DisturbTypes DEF HbRemove
  <2>2. /\ Users' \in [UserIds -> Conns \cup {None}]
        /\ crashed' \in BOOLEAN
    BY <1>2, WriteUsersTypes, TrackSyncAssumption DEF HbRemove
  <2>3. /\ conn' \in [Conns -> {"new", "up", "lost", "closed"}]
        /\ dc' \in [Conns -> {"none", "leaked", "open", "closed"}]
        /\ closer' \in [Conns -> {"none", "die", "clear", "delete", "lock", "sweep", "done"}]
    BY <1>2 DEF HbRemove, CloseDone, TypeOK
  <2>4. QED
    BY <1>2, <2>1, <2>2, <2>3 DEF HbRemove, TypeOK, tracks, flags, loops
<1>3. QED
  BY <1>1, <1>2

LEMMA LoopTypes ==
    ASSUME TypeOK, NEW c \in Conns, NEW d \in Conns, Loop(c, d)
    PROVE  TypeOK'
<1>1. CASE Ask(c, d)
  BY <1>1 DEF Ask, TypeOK, people, down, tracks, loops
<1>2. CASE Send(c, d)
  <2>1. sending' \in [Conns -> [to : Conns \cup {None}, shut : BOOLEAN]]
    <3>0. sending \in [Conns -> [to : Conns \cup {None}, shut : BOOLEAN]]
      BY DEF TypeOK
    <3>1. [sending[c] EXCEPT !.to = d] \in [to : Conns \cup {None}, shut : BOOLEAN]
      BY <3>0
    <3>2. sending' = [sending EXCEPT ![c] = [sending[c] EXCEPT !.to = d]]
      BY <1>2 DEF Send
    <3>3. QED
      BY <3>0, <3>1, <3>2
  <2>2. QED
    BY <1>2, <2>1 DEF Send, TypeOK, people, down, tracks, loops, flags
<1>3. CASE Sent(c)
  <2>1. sending' \in [Conns -> [to : Conns \cup {None}, shut : BOOLEAN]]
    BY <1>3 DEF Sent, NotSending, TypeOK
  <2>2. crashed' \in BOOLEAN
    BY <1>3 DEF Sent, TypeOK
  <2>3. QED
    BY <1>3, <2>1, <2>2 DEF Sent, TypeOK, people, down, tracks, loops, flags
<1>4. CASE Leak(c, d)
  <2>1. dc' \in [Conns -> {"none", "leaked", "open", "closed"}]
    BY <1>4 DEF Leak, TypeOK
  <2>2. QED
    BY <1>4, <2>1 DEF Leak, TypeOK, down, tracks, flags, loops
<1>5. CASE Park(c, d)
  BY <1>5 DEF Park, TypeOK, people, down, tracks, flags
<1>6. QED
  BY <1>1, <1>2, <1>3, <1>4, <1>5 DEF Loop

\* The pass, as far as the types go.
LEMMA PassTypes ==
    ASSUME TypeOK, PassKnows, Pass
    PROVE  TypeOK'
<1> DEFINE SyncType ==
        [at : {"idle", "users", "alive", "inner", "look", "add", "check", "store", "buffer"},
         outer : SUBSET UserIds, to : Conns \cup {None},
         inner : SUBSET UserIds, from : Conns \cup {None}]
<1>1. sync' \in SyncType
  <2>1. CASE SyncBegin \/ SyncEnd
    <3>1. Resting \in SyncType /\ Begun \in SyncType
      BY DEF Resting, Begun
    <3>2. QED
      BY <2>1, <3>1 DEF SyncBegin, SyncEnd
  <2>2. CASE SyncAlive \/ SyncNext
    <3>1. CASE SyncAlive
      <4>1. \/ sync' = [sync EXCEPT !.at = "users", !.to = None]
            \/ sync' = [sync EXCEPT !.at = "inner", !.inner = UserIds]
        BY <3>1 DEF SyncAlive
      <4>2. CASE sync' = [sync EXCEPT !.at = "users", !.to = None]
        BY <4>2 DEF TypeOK
      <4>3. CASE sync' = [sync EXCEPT !.at = "inner", !.inner = UserIds]
        BY <4>3 DEF TypeOK
      <4>4. QED
        BY <4>1, <4>2, <4>3
    <3>2. CASE SyncNext
      BY <3>2 DEF SyncNext, TypeOK
    <3>3. QED
      BY <2>2, <3>1, <3>2
  <2>3. ASSUME NEW u \in UserIds, SyncUser(u) \/ SyncPeer(u)
        PROVE  sync' \in SyncType
    <3>1. CASE SyncUser(u) /\ Users[u] = None
      BY <3>1 DEF SyncUser, TypeOK
    <3>2. CASE SyncUser(u) /\ Users[u] # None
      BY <3>2 DEF SyncUser, TypeOK
    <3>3. CASE SyncPeer(u) /\ (Users[u] = None \/ u = Owner[sync.to])
      BY <3>3 DEF SyncPeer, TypeOK
    <3>4. CASE SyncPeer(u) /\ ~(Users[u] = None \/ u = Owner[sync.to])
      BY <3>4 DEF SyncPeer, TypeOK
    <3>5. QED
      BY <2>3, <3>1, <3>2, <3>3, <3>4
  <2>4. CASE SyncLook \/ AddAudioTrack \/ AddCheck \/ AddStore \/ SyncBuffer
    <3>1. \/ sync' = sync
          \/ \E l \in {"add", "inner", "check", "store", "buffer"} : Goto(l)
      BY <2>4 DEF SyncLook, AddAudioTrack, AddCheck, AddStore, SyncBuffer, Goto
    <3>2. QED
      BY <3>1 DEF Goto, TypeOK
  <2>5. QED
    BY <2>1, <2>2, <2>4, <2>3 DEF Pass
<1>2. /\ entry' \in [Conns -> [UserIds -> {"none", "entry", "track", "buffer"}]]
      /\ senders' \in [Conns -> [UserIds -> Nat]] /\ orphans' \in [Conns -> [UserIds -> Nat]]
  <2>1. CASE AddAudioTrack
    <3>1. /\ Entry \in {"none", "entry", "track", "buffer"} /\ sync.to \in Conns
          /\ Owner[sync.from] \in UserIds
      BY <2>1, TrackSyncAssumption DEF AddAudioTrack, Entry, TypeOK, PassKnows, AtPair
    <3>2. entry' = entry \/ \E e \in {"none", "entry", "track", "buffer"} : SetEntry(e)
      BY <2>1, <3>1 DEF AddAudioTrack, tracks
    <3>3. senders' = senders \/ AddSender
      BY <2>1 DEF AddAudioTrack, tracks
    <3>4. entry' \in [Conns -> [UserIds -> {"none", "entry", "track", "buffer"}]]
      BY <3>1, <3>2, SetEntryTypes DEF TypeOK
    <3>5. senders' \in [Conns -> [UserIds -> Nat]]
      <4>1. senders[sync.to][Owner[sync.from]] + 1 \in Nat
        BY <3>1 DEF TypeOK
      <4>2. [senders[sync.to] EXCEPT ![Owner[sync.from]] = @ + 1] \in [UserIds -> Nat]
        BY <3>1, <4>1 DEF TypeOK
      <4>3. CASE AddSender
        BY <3>1, <4>2, <4>3 DEF AddSender, TypeOK
      <4>4. QED
        BY <3>3, <4>3 DEF TypeOK
    <3>6. orphans' = orphans
      BY <2>1 DEF AddAudioTrack, tracks
    <3>7. QED
      BY <3>4, <3>5, <3>6 DEF TypeOK
  <2>2. CASE AddStore \/ SyncBuffer
    <3>1. entry' = entry \/ \E e \in {"track", "buffer"} : SetEntry(e)
      BY <2>2 DEF AddStore, SyncBuffer
    <3>2. senders' = senders /\ orphans' = orphans
      BY <2>2 DEF AddStore, SyncBuffer
    <3>3. entry' \in [Conns -> [UserIds -> {"none", "entry", "track", "buffer"}]]
      BY <3>1, SetEntryTypes DEF TypeOK
    <3>4. QED
      BY <3>2, <3>3 DEF TypeOK
  <2>3. CASE AddCheck
    <3>1. sync.to \in Conns /\ Owner[sync.from] \in UserIds
      BY <2>3, TrackSyncAssumption DEF AddCheck, TypeOK, PassKnows, AtPair
    <3>2. orphans[sync.to][Owner[sync.from]] + 1 \in Nat
      BY <3>1 DEF TypeOK
    <3>3. [orphans[sync.to] EXCEPT ![Owner[sync.from]] = @ + 1] \in [UserIds -> Nat]
      BY <3>1, <3>2 DEF TypeOK
    <3>4. orphans' \in [Conns -> [UserIds -> Nat]]
      BY <2>3, <3>1, <3>3 DEF AddCheck, TypeOK
    <3>5. QED
      BY <2>3, <3>4 DEF AddCheck, TypeOK
  <2>4. CASE ~(AddAudioTrack \/ AddCheck \/ AddStore \/ SyncBuffer)
    BY <2>4 DEF Pass, SyncBegin, SyncAlive, SyncNext, SyncEnd, SyncUser, SyncPeer, SyncLook,
                tracks, TypeOK
  <2>5. QED
    BY <2>1, <2>2, <2>3, <2>4
<1>3. RtpSyncNeeded' \in BOOLEAN /\ Renegotiating' \in BOOLEAN
  BY DEF Pass, SyncBegin, SyncAlive, SyncNext, SyncEnd, SyncUser, SyncPeer, SyncLook, AddAudioTrack,
         AddCheck, AddStore, SyncBuffer, flags, TypeOK
<1>4. crashed' \in BOOLEAN /\ gone' \subseteq {"to", "from"}
  BY DEF Pass, SyncBegin, SyncAlive, SyncNext, SyncEnd, SyncUser, SyncPeer, SyncLook, AddAudioTrack,
         AddCheck, AddStore, SyncBuffer, TypeOK
<1>5. PassFrame
  BY DEF Pass, SyncBegin, SyncAlive, SyncNext, SyncEnd, SyncUser, SyncPeer, SyncLook, AddAudioTrack,
         AddCheck, AddStore, SyncBuffer
<1>6. QED
  BY <1>1, <1>2, <1>3, <1>4, <1>5 DEF PassFrame, people, down, loops, TypeOK

-----------------------------------------------------------------------------
(* What is at rest, and what others do to the pair the pass is at.          *)

\* The parts of the invariant that look at the pass and at the entries.
Stands ==
    /\ OwnListed /\ ClosedAreGone /\ PassKnows /\ TargetStands /\ SourceStands /\ EntryStands
    /\ SendersSuffice /\ SendersMatchEntries

\* What SendersMatchEntries says of a pair.
Match(d, u) == senders[d][u] = orphans[d][u] + (IF Held(d, u) THEN 1 ELSE 0)

\* They hold on, where neither users, states, entries nor the pass change.
LEMMA AsideStands ==
    ASSUME Stands, UNCHANGED <<Users, conn, tracks, sync, gone>>,
           AudioReceiver \subseteq AudioReceiver',
           \A c \in Conns : closer'[c] = "none" <=> closer[c] = "none"
    PROVE  Stands'
<1>1. OwnListed' /\ ClosedAreGone' /\ PassKnows' /\ TargetStands'
  BY DEF Stands, OwnListed, ClosedAreGone, PassKnows, TargetStands, AtPair, InPass
<1>2. SourceStands'
  BY DEF Stands, SourceStands, AtPair, Quiet, Source
<1>3. EntryStands'
  BY DEF Stands, EntryStands, Quiet, Entry, tracks
<1>4. SendersSuffice' /\ SendersMatchEntries'
  BY DEF Stands, SendersSuffice, SendersMatchEntries, Held, At, AtPair, tracks
<1>5. QED
  BY <1>1, <1>2, <1>3, <1>4 DEF Stands

\* The actions this is true of.
LEMMA AsideActions ==
    ASSUME TypeOK, Stands, NEW c \in Conns, NEW d \in Conns,
           \/ OpenChannel(c) \/ CloseChannel(c) \/ TrackStarts(c) \/ CloseDie(c) \/ CloseOut(c)
           \/ CloseReturn(c) \/ HbKill(c) \/ Loop(c, d)
    PROVE  Stands'
<1>1. UNCHANGED <<Users, conn, tracks, sync, gone>>
  BY DEF OpenChannel, CloseChannel, TrackStarts, CloseDie, CloseOut, CloseReturn, HbKill, Loop,
         Leak, Park, Ask, Send, Sent, people
<1>2. AudioReceiver \subseteq AudioReceiver'
  BY DEF OpenChannel, CloseChannel, TrackStarts, CloseDie, CloseOut, CloseReturn, HbKill, Loop,
         Leak, Park, Ask, Send, Sent, people
<1>3. \A e \in Conns : closer'[e] = "none" <=> closer[e] = "none"
  <2>1. CASE CloseDie(c) \/ CloseOut(c) \/ CloseReturn(c)
    BY <2>1 DEF CloseDie, CloseOut, CloseReturn, CloseStep, TypeOK
  <2>2. CASE ~(CloseDie(c) \/ CloseOut(c) \/ CloseReturn(c))
    BY <2>2 DEF OpenChannel, CloseChannel, TrackStarts, HbKill, Loop, Leak, Park, Ask,
                Send, Sent, down
  <2>3. QED
    BY <2>1, <2>2
<1>4. QED
  BY <1>1, <1>2, <1>3, AsideStands

\* Disturb records what it is told of, and forgets nothing.
LEMMA DisturbGrows ==
    ASSUME NEW u \in UserIds, NEW c \in Conns, Disturb(u, c)
    PROVE  /\ gone \subseteq gone'
           /\ AtPair /\ Owner[sync.from] = u => "from" \in gone'
           /\ InPass /\ sync.to = c => "to" \in gone'
  BY DEF Disturb

\* Where a step only takes a source away from the pass, or the target, and says so.
LEMMA LoginStands ==
    ASSUME TypeOK, Stands, NEW c \in Conns, Login(c)
    PROVE  Stands'
<1> DEFINE u == Owner[c]
<1>1. u \in UserIds /\ c # None
  BY TrackSyncAssumption
<1>2. /\ conn[c] = "new" /\ conn' = [conn EXCEPT ![c] = "up"]
      /\ UNCHANGED <<closer, entry, senders, orphans, sync, gone, AudioReceiver>>
  BY DEF Login, down, tracks
<1>3. Users' = Users \/ (Users[u] = None /\ Users' = [Users EXCEPT ![u] = c])
  BY DEF Login, WriteUsers
<1>4. \A v \in UserIds : Users'[v] = Users[v] \/ (v = u /\ Users[v] = None /\ Users'[v] = c)
  BY <1>1, <1>3 DEF TypeOK
<1>5. OwnListed'
  BY <1>4 DEF Stands, OwnListed
<1>6. ClosedAreGone'
  <2>1. SUFFICES ASSUME NEW e \in Conns, conn'[e] = "closed"
                 PROVE  closer'[e] # "none" /\ Users'[Owner[e]] # e
    BY DEF ClosedAreGone
  <2>2. conn[e] = "closed" /\ e # c
    BY <1>2, <2>1 DEF TypeOK
  <2>3. Owner[e] \in UserIds
    BY TrackSyncAssumption
  <2>4. QED
    BY <1>2, <1>4, <2>2, <2>3 DEF Stands, ClosedAreGone
<1>7. PassKnows' /\ TargetStands'
  BY <1>2 DEF Stands, PassKnows, TargetStands, AtPair, InPass, TypeOK
<1>8. SourceStands'
  <2>1. SUFFICES ASSUME AtPair, Quiet, Source # None
                 PROVE  Source' = Source /\ (conn[Source] = "up" => conn'[Source] = "up")
    BY <1>2 DEF Stands, SourceStands, AtPair, Quiet
  <2>2. Owner[sync.from] \in UserIds
    BY <2>1, TrackSyncAssumption DEF Stands, PassKnows
  <2>3. Source' = Source
    BY <1>2, <1>4, <2>1, <2>2 DEF Source
  <2>4. QED
    BY <1>2, <2>2, <2>3, <2>1 DEF Source, TypeOK
<1>9. EntryStands' /\ SendersSuffice'
  BY <1>2 DEF Stands, EntryStands, SendersSuffice, Held, At, AtPair, Quiet, Entry
<1>10. SendersMatchEntries'
  BY <1>2 DEF Stands, SendersMatchEntries, Held, At, AtPair
<1>11. QED
  BY <1>5, <1>6, <1>7, <1>8, <1>9, <1>10 DEF Stands

\* A step that takes a user off the map, or a connection down, and says so.
LEMMA TakenStands ==
    ASSUME TypeOK, Stands, NEW c \in Conns, Disturb(Owner[c], c),
           UNCHANGED <<entry, senders, orphans, sync, AudioReceiver>>,
           \A e \in Conns : closer[e] # "none" => closer'[e] # "none",
           \/ Users' = Users
           \/ Users' = [Users EXCEPT ![Owner[c]] = None],
           \A e \in Conns \ {c} : conn'[e] = conn[e],
           conn'[c] = "closed" =>
               closer'[c] # "none" /\ (conn[c] # "closed" => Users'[Owner[c]] # c)
    PROVE  Stands'
<1> DEFINE u == Owner[c]
<1>1. u \in UserIds
  BY TrackSyncAssumption
<1>2. /\ gone \subseteq gone'
      /\ AtPair /\ Owner[sync.from] = u => "from" \in gone'
      /\ InPass /\ sync.to = c => "to" \in gone'
  BY <1>1, DisturbGrows
<1>3. \A v \in UserIds : Users'[v] = Users[v] \/ (v = u /\ Users'[v] = None)
  BY <1>1 DEF TypeOK
<1>4. OwnListed'
  BY <1>3 DEF Stands, OwnListed
<1>5. ClosedAreGone'
  BY <1>3, TrackSyncAssumption DEF Stands, ClosedAreGone
<1>6. PassKnows'
  BY DEF Stands, PassKnows, AtPair
<1>7. TargetStands'
  BY <1>2 DEF Stands, TargetStands, InPass
<1>8. SourceStands'
  <2>1. SUFFICES ASSUME AtPair, Quiet'
                 PROVE  Source' = Source /\ conn'[Source] = conn[Source] /\ Quiet
    BY DEF Stands, SourceStands, AtPair
  <2>2. Quiet /\ Owner[sync.from] # u /\ Owner[sync.from] \in UserIds
    BY <1>2, <2>1, TrackSyncAssumption DEF Quiet, Stands, PassKnows
  <2>3. Source' = Source /\ Source # None /\ Source # c
    BY <1>3, <2>1, <2>2 DEF Source, Stands, SourceStands, OwnListed
  <2>4. Source \in Conns
    BY <2>2, <2>3 DEF Source, TypeOK
  <2>5. QED
    BY <2>2, <2>3, <2>4
<1>9. EntryStands' /\ SendersSuffice'
  BY <1>2 DEF Stands, EntryStands, SendersSuffice, Held, At, AtPair, Quiet, Entry
<1>10. SendersMatchEntries'
  BY DEF Stands, SendersMatchEntries, Held, At, AtPair
<1>11. QED
  BY <1>4, <1>5, <1>6, <1>7, <1>8, <1>9, <1>10 DEF Stands

\* These are the steps.
LEMMA TakenActions ==
    ASSUME TypeOK, Stands, NEW c \in Conns, Lose(c) \/ CloseDelete(c) \/ HbRemove(c)
    PROVE  Stands'
<1>1. Disturb(Owner[c], c) /\ UNCHANGED <<entry, senders, orphans, sync, AudioReceiver>>
  BY DEF Lose, CloseDelete, HbRemove, tracks
<1>2. \A e \in Conns : closer[e] # "none" => closer'[e] # "none"
  BY DEF Lose, CloseDelete, HbRemove, CloseDone, CloseStep, TypeOK
<1>3. \/ Users' = Users
      \/ Users' = [Users EXCEPT ![Owner[c]] = None]
  BY DEF Lose, CloseDelete, HbRemove, WriteUsers
<1>4. \A e \in Conns \ {c} : conn'[e] = conn[e]
  BY DEF Lose, CloseDelete, HbRemove, TypeOK
<1>5. conn'[c] = "closed" =>
          closer'[c] # "none" /\ (conn[c] # "closed" => Users'[Owner[c]] # c)
  <2>1. CASE Lose(c)
    BY <2>1 DEF Lose, TypeOK
  <2>2. CASE CloseDelete(c)
    BY <2>2 DEF CloseDelete, CloseStep, TypeOK
  <2>3. CASE HbRemove(c)
    <3>1. closer'[c] # "none"
      BY <2>3 DEF HbRemove, CloseDone, TypeOK
    <3>2. Users'[Owner[c]] = None /\ c # None
      BY <2>3, TrackSyncAssumption DEF HbRemove, WriteUsers, TypeOK
    <3>3. QED
      BY <3>1, <3>2
  <2>4. QED
    BY <2>1, <2>2, <2>3
<1>6. QED
  BY <1>1, <1>2, <1>3, <1>4, <1>5, TakenStands

\* ICE finds the peer again.
LEMMA RecoverStands ==
    ASSUME TypeOK, Stands, NEW c \in Conns, Recover(c)
    PROVE  Stands'
<1>1. /\ conn' = [conn EXCEPT ![c] = "up"]
      /\ UNCHANGED <<Users, closer, entry, senders, orphans, sync, gone, AudioReceiver>>
  BY DEF Recover, down, tracks
<1>2. OwnListed' /\ ClosedAreGone' /\ PassKnows' /\ TargetStands'
  BY <1>1 DEF Stands, OwnListed, ClosedAreGone, PassKnows, TargetStands, AtPair, InPass, TypeOK
<1>3. SourceStands'
  BY <1>1 DEF Stands, SourceStands, AtPair, Quiet, Source, TypeOK
<1>4. EntryStands' /\ SendersSuffice' /\ SendersMatchEntries'
  BY <1>1 DEF Stands, EntryStands, SendersSuffice, SendersMatchEntries, Held, At, AtPair, Quiet,
              Entry
<1>5. QED
  BY <1>2, <1>3, <1>4 DEF Stands

\* The entries of the leaver go.
LEMMA CloseClearStands ==
    ASSUME TypeOK, Stands, NEW c \in Conns, CloseClear(c)
    PROVE  Stands'
<1>1. /\ closer[c] = "clear" /\ closer' = [closer EXCEPT ![c] = "delete"]
      /\ entry' = [entry EXCEPT ![c] = [u \in UserIds |-> "none"]]
      /\ UNCHANGED <<Users, conn, AudioReceiver, senders, orphans, sync>>
  BY DEF CloseClear, CloseStep, people
<1>2. /\ gone \subseteq gone'
      /\ InPass /\ sync.to = c => "to" \in gone'
  BY DisturbGrows, TrackSyncAssumption DEF CloseClear
<1>3. \A d \in Conns, u \in UserIds :
          entry'[d][u] = entry[d][u] \/ (d = c /\ entry'[d][u] = "none")
  BY <1>1 DEF TypeOK
<1>4. OwnListed' /\ ClosedAreGone' /\ PassKnows' /\ TargetStands'
  BY <1>1, <1>2 DEF Stands, OwnListed, ClosedAreGone, PassKnows, TargetStands, AtPair, InPass,
                    TypeOK
<1>5. SourceStands'
  BY <1>1, <1>2 DEF Stands, SourceStands, AtPair, Quiet, Source
<1>6. EntryStands'
  <2>1. SUFFICES ASSUME AtPair
                 PROVE  \/ Entry' = Entry
                        \/ Entry' = "none" /\ ~Quiet'
    BY <1>1, <1>2 DEF Stands, EntryStands, AtPair, Quiet
  <2>2. sync.to \in Conns /\ Owner[sync.from] \in UserIds
    BY <2>1, TrackSyncAssumption DEF Stands, PassKnows
  <2>3. QED
    BY <1>1, <1>2, <1>3, <2>1, <2>2 DEF Entry, Quiet, AtPair, InPass
<1>7. SendersSuffice'
  BY <1>1, <1>3 DEF Stands, SendersSuffice, Held, At, AtPair
<1>8. SendersMatchEntries'
  <2>1. \A d \in Conns : closer'[d] = "none" => closer[d] = "none" /\ d # c
    BY <1>1 DEF TypeOK
  <2>2. QED
    BY <1>1, <1>3, <2>1 DEF Stands, SendersMatchEntries, Held, At, AtPair
<1>9. QED
  BY <1>4, <1>5, <1>6, <1>7, <1>8 DEF Stands

\* The tracks of the leaver go, at one of the others.
LEMMA CloseSweepStands ==
    ASSUME TypeOK, Stands, NEW c \in Conns, NEW d \in Conns, CloseSweep(c, d)
    PROVE  Stands'
<1> DEFINE u == Owner[c]
<1>1. /\ entry' = [entry EXCEPT ![d][u] = "none"]
      /\ senders' = IF entry[d][u] \in {"track", "buffer"} /\ conn[d] # "closed"
                    THEN [senders EXCEPT ![d][u] = @ - 1] ELSE senders
      /\ UNCHANGED <<Users, conn, AudioReceiver, closer, orphans, sync>>
  BY DEF CloseSweep, people
<1>2. /\ u \in UserIds /\ gone \subseteq gone'
      /\ AtPair /\ Owner[sync.from] = u => "from" \in gone'
  BY DisturbGrows, TrackSyncAssumption DEF CloseSweep
<1>3. \A e \in Conns, v \in UserIds :
          \/ entry'[e][v] = entry[e][v] /\ senders'[e][v] = senders[e][v] /\ ~(e = d /\ v = u)
          \/ e = d /\ v = u /\ entry'[e][v] = "none"
  BY <1>1, <1>2 DEF TypeOK
<1>4. OwnListed' /\ ClosedAreGone' /\ PassKnows' /\ TargetStands'
  BY <1>1, <1>2 DEF Stands, OwnListed, ClosedAreGone, PassKnows, TargetStands, AtPair, InPass
<1>5. SourceStands'
  BY <1>1, <1>2 DEF Stands, SourceStands, AtPair, Quiet, Source
<1>6. EntryStands'
  <2>1. SUFFICES ASSUME AtPair
                 PROVE  \/ Entry' = Entry
                        \/ Entry' = "none" /\ ~Quiet'
    BY <1>1, <1>2 DEF Stands, EntryStands, AtPair, Quiet
  <2>2. sync.to \in Conns /\ Owner[sync.from] \in UserIds
    BY <2>1, TrackSyncAssumption DEF Stands, PassKnows
  <2>3. QED
    BY <1>1, <1>2, <1>3, <2>1, <2>2 DEF Entry, Quiet
<1>7. \A e \in Conns, v \in UserIds : At(e, v)' <=> At(e, v)
  BY <1>1 DEF At, AtPair
<1>8. At(d, u) /\ sync.at \in {"check", "store"} => entry[d][u] \in {"none", "entry"}
  BY DEF Stands, EntryStands, At, Entry
<1>9. SendersSuffice'
  <2>1. SUFFICES ASSUME NEW e \in Conns, NEW v \in UserIds, Held(e, v)'
                 PROVE  senders'[e][v] > 0
    BY DEF SendersSuffice
  <2>2. CASE ~(e = d /\ v = u)
    BY <1>1, <1>3, <1>7, <2>1, <2>2 DEF Stands, SendersSuffice, Held
  <2>3. CASE e = d /\ v = u
    <3>1. At(d, u) /\ sync.at \in {"check", "store"}
      BY <1>1, <1>3, <1>7, <2>1, <2>3 DEF Held
    <3>2. senders' = senders
      BY <1>1, <1>8, <3>1
    <3>3. QED
      BY <1>2, <2>3, <3>1, <3>2 DEF Stands, SendersSuffice, Held
  <2>4. QED
    BY <2>2, <2>3
<1>10. SendersMatchEntries'
  <2>1. SUFFICES ASSUME NEW e \in Conns, NEW v \in UserIds, closer[e] = "none"
                 PROVE  Match(e, v)'
    BY <1>1 DEF SendersMatchEntries, Match
  <2>2. Match(e, v) /\ senders[e][v] \in Nat /\ orphans[e][v] \in Nat
    BY <2>1 DEF Stands, SendersMatchEntries, Match, TypeOK
  <2>3. CASE ~(e = d /\ v = u)
    BY <1>1, <1>3, <1>7, <2>2, <2>3 DEF Match, Held
  <2>4. CASE e = d /\ v = u
    <3>1. conn[d] # "closed" /\ entry'[d][u] = "none" /\ orphans'[d][u] = orphans[d][u]
      BY <1>1, <1>2, <1>3, <2>1, <2>4 DEF Stands, ClosedAreGone
    <3>2. CASE entry[d][u] \in {"track", "buffer"}
      <4>1. senders'[d][u] = senders[d][u] - 1
        BY <1>1, <1>2, <3>1, <3>2 DEF TypeOK
      <4>2. Held(d, u) /\ ~Held(d, u)'
        BY <1>1, <1>2, <1>7, <1>8, <3>1, <3>2 DEF Held
      <4>3. QED
        BY <2>2, <2>4, <3>1, <4>1, <4>2 DEF Match
    <3>3. CASE entry[d][u] \notin {"track", "buffer"}
      <4>1. senders' = senders
        BY <1>1, <3>3
      <4>2. Held(d, u)' <=> Held(d, u)
        BY <1>1, <1>2, <1>7, <3>1, <3>3 DEF Held
      <4>3. QED
        BY <2>2, <2>4, <3>1, <4>1, <4>2 DEF Match
    <3>4. QED
      BY <3>2, <3>3
  <2>5. QED
    BY <2>3, <2>4
<1>11. QED
  BY <1>4, <1>5, <1>6, <1>9, <1>10 DEF Stands

-----------------------------------------------------------------------------
(* The steps of the pass.                                                   *)

\* Between the pairs.
LEMMA BetweenStands ==
    ASSUME Stands, PassFrame, UNCHANGED tracks, ~AtPair, ~AtPair', PassKnows', TargetStands'
    PROVE  Stands'
<1>1. OwnListed' /\ ClosedAreGone'
  BY DEF Stands, OwnListed, ClosedAreGone, PassFrame, people, down
<1>2. SourceStands' /\ EntryStands' /\ SendersSuffice'
  BY DEF Stands, SourceStands, EntryStands, SendersSuffice, Held, At, AtPair, tracks
<1>3. SendersMatchEntries'
  BY DEF Stands, SendersMatchEntries, Held, At, AtPair, PassFrame, down, tracks
<1>4. QED
  BY <1>1, <1>2, <1>3 DEF Stands

LEMMA BetweenActions ==
    ASSUME TypeOK, Stands, NEW u,
           SyncBegin \/ SyncUser(u) \/ SyncAlive \/ SyncNext \/ SyncEnd
    PROVE  Stands'
<1>1. /\ PassFrame /\ UNCHANGED tracks /\ ~AtPair
      /\ UNCHANGED <<conn, Users>>
  BY DEF SyncBegin, SyncUser, SyncAlive, SyncNext, SyncEnd, PassFrame, AtPair, people, tracks
<1>2. sync'.at \in {"idle", "users", "alive", "inner"}
  <2>1. CASE SyncBegin
    BY <2>1 DEF SyncBegin, Begun, Resting
  <2>2. CASE SyncUser(u)
    BY <2>2 DEF SyncUser, TypeOK
  <2>3. CASE SyncAlive
    BY <2>3 DEF SyncAlive, TypeOK
  <2>4. CASE SyncNext
    BY <2>4 DEF SyncNext, TypeOK
  <2>5. CASE SyncEnd
    BY <2>5 DEF SyncEnd, Resting
  <2>6. QED
    BY <2>1, <2>2, <2>3, <2>4, <2>5
<1>3. PassFrame /\ UNCHANGED tracks /\ ~AtPair /\ ~AtPair' /\ UNCHANGED <<conn, Users>>
  BY <1>1, <1>2 DEF AtPair
<1>4. PassKnows' /\ TargetStands'
  <2>1. CASE SyncBegin \/ SyncNext \/ SyncEnd
    <3>1. sync'.to = None /\ sync'.at \notin {"alive", "inner"}
      <4>1. CASE SyncBegin
        BY <4>1 DEF SyncBegin, Begun, Resting
      <4>2. CASE SyncNext
        BY <4>2 DEF SyncNext, TypeOK
      <4>3. CASE SyncEnd
        BY <4>3 DEF SyncEnd, Resting
      <4>4. QED
        BY <2>1, <4>1, <4>2, <4>3
    <3>2. QED
      BY <1>3, <3>1, TrackSyncAssumption DEF PassKnows, TargetStands
  <2>2. CASE SyncUser(u)
    <3>1. CASE Users[u] = None
      <4>1. sync'.at = "users" /\ sync'.to = sync.to /\ sync.at = "users"
        BY <2>2, <3>1 DEF SyncUser, TypeOK
      <4>2. QED
        BY <1>3, <2>2, <4>1 DEF Stands, PassKnows, TargetStands, InPass, SyncUser
    <3>2. CASE Users[u] # None
      <4>1. sync'.at = "alive" /\ sync'.to = Users[u] /\ Users[u] \in Conns
        BY <2>2, <3>2 DEF SyncUser, TypeOK
      <4>2. conn[Users[u]] # "closed"
        <5>1. u \in UserIds
          BY <2>2 DEF SyncUser, TypeOK
        <5>2. QED
          BY <3>2, <4>1, <5>1 DEF Stands, OwnListed, ClosedAreGone
      <4>3. QED
        BY <1>3, <4>1, <4>2 DEF PassKnows, TargetStands
    <3>3. QED
      BY <3>1, <3>2
  <2>3. CASE SyncAlive
    <3>1. \/ sync'.at = "users" /\ sync'.to = None
          \/ sync'.at = "inner" /\ sync'.to = sync.to /\ sync.at = "alive" /\ gone' = gone
      BY <2>3 DEF SyncAlive, TypeOK
    <3>2. QED
      BY <1>3, <3>1, TrackSyncAssumption DEF Stands, PassKnows, TargetStands, InPass
  <2>4. QED
    BY <2>1, <2>2, <2>3
<1>5. QED
  BY <1>3, <1>4, BetweenStands

\* The pass comes to a pair.
LEMMA SyncPeerStands ==
    ASSUME TypeOK, Stands, NEW u \in UserIds, SyncPeer(u)
    PROVE  Stands'
<1>1. /\ PassFrame /\ UNCHANGED tracks /\ sync.at = "inner" /\ ~AtPair
      /\ UNCHANGED <<Users, conn, closer, AudioReceiver, entry, senders, orphans>>
      /\ gone' = gone \ {"from"}
  BY DEF SyncPeer, PassFrame, people, down, tracks, AtPair
<1>2. CASE Users[u] = None \/ u = Owner[sync.to]
  <2>1. sync'.at = "inner" /\ sync'.to = sync.to
    BY <1>1, <1>2 DEF SyncPeer, TypeOK
  <2>2. PassKnows' /\ TargetStands' /\ ~AtPair'
    BY <1>1, <2>1 DEF Stands, PassKnows, TargetStands, InPass, AtPair
  <2>3. QED
    BY <1>1, <2>2, BetweenStands
<1>3. CASE ~(Users[u] = None \/ u = Owner[sync.to])
  <2>1. /\ sync'.at = "look" /\ sync'.to = sync.to /\ sync'.from = Users[u]
        /\ Users[u] \in Conns /\ Owner[Users[u]] = u
    BY <1>3 DEF SyncPeer, TypeOK, Stands, OwnListed
  <2>2. OwnListed' /\ ClosedAreGone' /\ PassKnows' /\ TargetStands'
    BY <1>1, <2>1 DEF Stands, OwnListed, ClosedAreGone, PassKnows, TargetStands, InPass, AtPair
  <2>3. SourceStands' /\ EntryStands' /\ SendersSuffice'
    BY <1>1, <1>3, <2>1 DEF Stands, SourceStands, EntryStands, SendersSuffice, Source, Held, At
  <2>4. SendersMatchEntries'
    BY <1>1, <2>1 DEF Stands, SendersMatchEntries, Held, At, AtPair
  <2>5. QED
    BY <2>2, <2>3, <2>4 DEF Stands
<1>4. QED
  BY <1>2, <1>3

LEMMA GotoIs ==
    ASSUME TypeOK, NEW l, Goto(l)
    PROVE  sync'.at = l /\ sync'.to = sync.to /\ sync'.from = sync.from
  BY DEF Goto, TypeOK

\* What a step of the pass at a pair has to show.
LEMMA AtPairStands ==
    ASSUME TypeOK, Stands, PassFrame, AtPair, UNCHANGED gone,
           sync'.to = sync.to, sync'.from = sync.from, sync'.at \in {"inner"} \/ AtPair',
           \A d \in Conns, u \in UserIds :
               \/ d = sync.to /\ u = Owner[sync.from]
               \/ /\ entry'[d][u] = entry[d][u] /\ senders'[d][u] = senders[d][u]
                  /\ orphans'[d][u] = orphans[d][u],
           SourceStands', EntryStands',
           Held(sync.to, Owner[sync.from])' => senders'[sync.to][Owner[sync.from]] > 0,
           closer[sync.to] = "none" => Match(sync.to, Owner[sync.from])'
    PROVE  Stands'
<1> DEFINE to == sync.to
           fr == Owner[sync.from]
<1>1. to \in Conns /\ fr \in UserIds
  BY TrackSyncAssumption DEF Stands, PassKnows
<1>2. OwnListed' /\ ClosedAreGone'
  BY DEF Stands, OwnListed, ClosedAreGone, PassFrame, people, down
<1>3. PassKnows' /\ TargetStands'
  BY DEF Stands, PassKnows, TargetStands, PassFrame, people, InPass, AtPair
<1>4. \A d \in Conns, u \in UserIds : (d = to /\ u = fr) \/ (Held(d, u)' <=> Held(d, u))
  BY DEF Held, At
<1>5. SendersSuffice'
  BY <1>1, <1>4 DEF Stands, SendersSuffice
<1>6. SendersMatchEntries'
  <2>1. SUFFICES ASSUME NEW d \in Conns, NEW u \in UserIds, closer[d] = "none"
                 PROVE  Match(d, u)'
    BY DEF SendersMatchEntries, Match, PassFrame, down
  <2>2. CASE d = to /\ u = fr
    BY <2>1, <2>2
  <2>3. CASE ~(d = to /\ u = fr)
    BY <1>4, <2>1, <2>3 DEF Stands, SendersMatchEntries, Match
  <2>4. QED
    BY <2>2, <2>3
<1>7. QED
  BY <1>2, <1>3, <1>5, <1>6 DEF Stands

\* What is known of the pair before the step.
LEMMA PairBefore ==
    ASSUME TypeOK, Stands, AtPair
    PROVE  /\ sync.to \in Conns /\ sync.from \in Conns /\ Owner[sync.from] \in UserIds
           /\ closer[sync.to] = "none" => Match(sync.to, Owner[sync.from])
           /\ Held(sync.to, Owner[sync.from]) => senders[sync.to][Owner[sync.from]] > 0
           /\ At(sync.to, Owner[sync.from])
           /\ senders[sync.to][Owner[sync.from]] \in Nat
           /\ orphans[sync.to][Owner[sync.from]] \in Nat
  BY TrackSyncAssumption
     DEF Stands, PassKnows, SendersMatchEntries, SendersSuffice, Match, At, TypeOK

LEMMA SyncLookStands ==
    ASSUME TypeOK, Stands, SyncLook
    PROVE  Stands'
<1>1. /\ PassFrame /\ AtPair /\ sync.at = "look"
      /\ UNCHANGED <<Users, conn, AudioReceiver, gone, entry, senders, orphans>>
  BY DEF SyncLook, PassFrame, AtPair, people, tracks
<1>2. \/ sync' = sync
      \/ Goto("inner")
      \/ /\ Goto("add") /\ Source # None /\ conn[Source] = "up" /\ Source \in AudioReceiver
         /\ Entry \in {"none", "entry"}
  BY DEF SyncLook
<1>3. sync'.to = sync.to /\ sync'.from = sync.from /\ sync'.at \in {"look", "inner", "add"}
  BY <1>1, <1>2, GotoIs
<1>4. sync'.at = "add" => /\ Source # None /\ conn[Source] = "up" /\ Source \in AudioReceiver
                          /\ Entry \in {"none", "entry"}
  BY <1>1, <1>2, GotoIs
<1>5. SourceStands' /\ EntryStands'
  BY <1>1, <1>3, <1>4 DEF Stands, SourceStands, EntryStands, Source, Entry, AtPair, Quiet
<1>6. Held(sync.to, Owner[sync.from])' <=> Held(sync.to, Owner[sync.from])
  BY <1>1, <1>3 DEF Held, At, AtPair
<1>7. /\ Held(sync.to, Owner[sync.from])' => senders'[sync.to][Owner[sync.from]] > 0
      /\ closer[sync.to] = "none" => Match(sync.to, Owner[sync.from])'
  BY <1>1, <1>3, <1>6, PairBefore DEF Match
<1>8. sync'.at \in {"inner"} \/ AtPair'
  BY <1>3 DEF AtPair
<1>9. QED
  BY <1>1, <1>3, <1>5, <1>6, <1>7, <1>8, AtPairStands

LEMMA AddAudioTrackStands ==
    ASSUME TypeOK, Stands, AddAudioTrack
    PROVE  Stands'
<1> DEFINE to == sync.to
           fr == Owner[sync.from]
<1>1. /\ PassFrame /\ AtPair /\ sync.at = "add"
      /\ UNCHANGED <<Users, conn, closer, AudioReceiver, gone>>
  BY DEF AddAudioTrack, PassFrame, AtPair, people, down
<1>2. /\ to \in Conns /\ fr \in UserIds /\ senders[to][fr] \in Nat /\ orphans[to][fr] \in Nat
      /\ Entry \in {"none", "entry"} /\ ~Held(to, fr)
      /\ closer[to] = "none" => Match(to, fr)
  BY <1>1, PairBefore DEF Stands, EntryStands, Held, Entry
<1>3. CASE Source = None
  <2>1. /\ sync'.at = "inner" /\ sync'.to = to /\ sync'.from = sync.from
        /\ UNCHANGED <<entry, senders, orphans>>
    BY <1>3, GotoIs DEF AddAudioTrack, tracks
  <2>2. SourceStands' /\ EntryStands'
    BY <1>1, <1>3, <2>1 DEF Stands, SourceStands, EntryStands, AtPair
  <2>3. ~Held(to, fr)' /\ (closer[to] = "none" => Match(to, fr)')
    BY <1>2, <2>1 DEF Held, Match
  <2>4. QED
    BY <1>1, <2>1, <2>2, <2>3, AtPairStands
<1>4. CASE Source # None /\ conn[to] # "closed"
  <2>1. /\ sync'.at = "check" /\ sync'.to = to /\ sync'.from = sync.from
        /\ SetEntry(IF Entry = "none" THEN "entry" ELSE Entry) /\ AddSender /\ orphans' = orphans
    BY <1>4, GotoIs DEF AddAudioTrack
  <2>2. /\ entry'[to][fr] = "entry" /\ senders'[to][fr] = senders[to][fr] + 1
        /\ \A d \in Conns, u \in UserIds :
               \/ d = to /\ u = fr
               \/ entry'[d][u] = entry[d][u] /\ senders'[d][u] = senders[d][u]
    BY <1>2, <2>1 DEF SetEntry, AddSender, TypeOK
  <2>3. SourceStands' /\ EntryStands' /\ AtPair'
    BY <1>1, <1>4, <2>1, <2>2 DEF Stands, SourceStands, EntryStands, AtPair, Quiet, Source, Entry
  <2>4. Held(to, fr)' /\ senders'[to][fr] > 0
    BY <1>2, <2>1, <2>2, <2>3 DEF Held, At
  <2>5. closer[to] = "none" => Match(to, fr)'
    BY <1>2, <2>1, <2>2, <2>4 DEF Match
  <2>6. QED
    BY <1>1, <2>1, <2>2, <2>3, <2>4, <2>5, AtPairStands
<1>5. CASE Source # None /\ conn[to] = "closed"
  <2>1. /\ sync'.at = "inner" /\ sync'.to = to /\ sync'.from = sync.from
        /\ SetEntry(IF Entry = "none" THEN "entry" ELSE Entry) /\ UNCHANGED <<senders, orphans>>
    BY <1>5, GotoIs DEF AddAudioTrack
  <2>2. /\ entry'[to][fr] = "entry"
        /\ \A d \in Conns, u \in UserIds :
               \/ d = to /\ u = fr
               \/ entry'[d][u] = entry[d][u] /\ senders'[d][u] = senders[d][u]
    BY <1>2, <2>1 DEF SetEntry, TypeOK
  <2>3. SourceStands' /\ EntryStands' /\ closer[to] # "none"
    BY <1>2, <1>5, <2>1 DEF Stands, SourceStands, EntryStands, AtPair, ClosedAreGone
  <2>4. ~Held(to, fr)'
    BY <2>1, <2>2 DEF Held
  <2>5. QED
    BY <1>1, <2>1, <2>2, <2>3, <2>4, AtPairStands
<1>6. QED
  BY <1>3, <1>4, <1>5

LEMMA AddCheckStands ==
    ASSUME TypeOK, Stands, AddCheck
    PROVE  Stands'
<1> DEFINE to == sync.to
           fr == Owner[sync.from]
<1>1. /\ PassFrame /\ AtPair /\ sync.at = "check"
      /\ UNCHANGED <<Users, conn, closer, AudioReceiver, gone, entry, senders>>
  BY DEF AddCheck, PassFrame, AtPair, people, down
<1>2. /\ to \in Conns /\ fr \in UserIds /\ senders[to][fr] \in Nat /\ orphans[to][fr] \in Nat
      /\ Entry \in {"none", "entry"} /\ Held(to, fr) /\ senders[to][fr] > 0
      /\ closer[to] = "none" => Match(to, fr)
  BY <1>1, PairBefore DEF Stands, EntryStands, Held
<1>3. CASE UNCHANGED orphans /\ (UNCHANGED sync \/ (conn[Source] = "up" /\ Goto("store")))
  <2>1. sync'.to = to /\ sync'.from = sync.from /\ sync'.at \in {"check", "store"}
    BY <1>1, <1>3, GotoIs
  <2>2. AtPair' /\ Held(to, fr)'
    BY <1>1, <1>2, <2>1 DEF AtPair, Held, At
  <2>3. SourceStands' /\ EntryStands'
    BY <1>1, <2>1 DEF Stands, SourceStands, EntryStands, Source, Entry, AtPair, Quiet
  <2>4. senders'[to][fr] > 0 /\ (closer[to] = "none" => Match(to, fr)')
    BY <1>1, <1>2, <1>3, <2>1, <2>2 DEF Match
  <2>5. QED
    BY <1>1, <1>3, <2>1, <2>2, <2>3, <2>4, AtPairStands
<1>4. CASE Goto("inner") /\ orphans' = [orphans EXCEPT ![to][fr] = @ + 1]
  <2>1. sync'.to = to /\ sync'.from = sync.from /\ sync'.at = "inner"
    BY <1>4, GotoIs
  <2>2. ~Held(to, fr)'
    BY <1>1, <1>2, <2>1 DEF Held, Entry
  <2>3. SourceStands' /\ EntryStands'
    BY <2>1 DEF SourceStands, EntryStands, AtPair
  <2>4. /\ orphans'[to][fr] = orphans[to][fr] + 1
        /\ \A d \in Conns, u \in UserIds :
               (d = to /\ u = fr) \/ orphans'[d][u] = orphans[d][u]
    BY <1>2, <1>4 DEF TypeOK
  <2>5. closer[to] = "none" => Match(to, fr)'
    BY <1>1, <1>2, <2>1, <2>2, <2>4 DEF Match
  <2>6. QED
    BY <1>1, <2>1, <2>2, <2>3, <2>4, <2>5, AtPairStands
<1>5. QED
  BY <1>3, <1>4 DEF AddCheck

\* The two steps that set the entry up.
LEMMA StoreStands ==
    ASSUME TypeOK, Stands, AddStore \/ SyncBuffer
    PROVE  Stands'
<1> DEFINE to == sync.to
           fr == Owner[sync.from]
<1>1. /\ PassFrame /\ AtPair /\ sync.at \in {"store", "buffer"}
      /\ UNCHANGED <<Users, conn, closer, AudioReceiver, gone, senders, orphans>>
  BY DEF AddStore, SyncBuffer, PassFrame, AtPair, people, down
<1>2. /\ to \in Conns /\ fr \in UserIds /\ senders[to][fr] \in Nat
      /\ Held(to, fr) => senders[to][fr] > 0
      /\ closer[to] = "none" => Match(to, fr)
      /\ At(to, fr)
  BY <1>1, PairBefore
<1>3. CASE Entry = "none"
  BY <1>3, AsideStands, <1>1 DEF AddStore, SyncBuffer, tracks, TypeOK, PassFrame
<1>4. CASE AddStore /\ Entry # "none"
  <2>1. /\ sync.at = "store" /\ sync'.at = "buffer" /\ sync'.to = to /\ sync'.from = sync.from
        /\ SetEntry("track")
    BY <1>4, GotoIs DEF AddStore
  <2>2. /\ entry'[to][fr] = "track"
        /\ \A d \in Conns, u \in UserIds :
               \/ d = to /\ u = fr
               \/ entry'[d][u] = entry[d][u] /\ senders'[d][u] = senders[d][u]
    BY <1>1, <1>2, <2>1 DEF SetEntry, TypeOK
  <2>3. SourceStands' /\ EntryStands' /\ AtPair'
    BY <1>1, <2>1, <2>2 DEF Stands, SourceStands, EntryStands, AtPair, Quiet, Source, Entry
  <2>4. Held(to, fr) /\ Held(to, fr)' /\ senders'[to][fr] > 0
    BY <1>1, <1>2, <2>1, <2>2 DEF Held
  <2>5. closer[to] = "none" => Match(to, fr)'
    BY <1>1, <1>2, <2>1, <2>4 DEF Match
  <2>6. QED
    BY <1>1, <2>1, <2>2, <2>3, <2>4, <2>5, AtPairStands
<1>5. CASE SyncBuffer /\ Entry # "none"
  <2>1. /\ sync.at = "buffer" /\ sync'.at = "inner" /\ sync'.to = to /\ sync'.from = sync.from
        /\ SetEntry("buffer")
    BY <1>5, GotoIs DEF SyncBuffer
  <2>2. /\ entry'[to][fr] = "buffer"
        /\ \A d \in Conns, u \in UserIds :
               \/ d = to /\ u = fr
               \/ entry'[d][u] = entry[d][u] /\ senders'[d][u] = senders[d][u]
    BY <1>1, <1>2, <2>1 DEF SetEntry, TypeOK
  <2>3. SourceStands' /\ EntryStands'
    BY <2>1 DEF SourceStands, EntryStands, AtPair
  <2>4. Held(to, fr) /\ Held(to, fr)' /\ senders'[to][fr] > 0
    BY <1>1, <1>2, <1>5, <2>1, <2>2 DEF Stands, EntryStands, Entry, Held
  <2>5. closer[to] = "none" => Match(to, fr)'
    BY <1>1, <1>2, <2>1, <2>4 DEF Match
  <2>6. QED
    BY <1>1, <2>1, <2>2, <2>3, <2>4, <2>5, AtPairStands
<1>6. QED
  BY <1>3, <1>4, <1>5

-----------------------------------------------------------------------------
(* The theorems.                                                            *)

\* What CrashNeedsOverlap allows.
Overlap ==
    \/ Users' # Users /\ Ranging
    \/ \E c \in Conns : sending[c].shut /\ sending'[c] # sending[c]
    \/ AtPair /\ gone # {}

\* A step of the pass that ends the process is at two users of whom one has gone.
LEMMA PassCrashes ==
    ASSUME TypeOK, Stands, Pass, ~crashed, crashed'
    PROVE  AtPair /\ gone # {}
<1>1. SyncLook \/ AddAudioTrack \/ AddCheck \/ AddStore \/ SyncBuffer
  BY DEF Pass, SyncBegin, SyncAlive, SyncNext, SyncEnd, SyncUser, SyncPeer
<1>2. AtPair
  BY <1>1 DEF SyncLook, AddAudioTrack, AddCheck, AddStore, SyncBuffer, AtPair
<1>3. SUFFICES ASSUME Quiet
               PROVE  FALSE
  BY <1>2 DEF Quiet
<1>4. Source # None
  BY <1>2, <1>3 DEF Stands, SourceStands
<1>5. CASE AddAudioTrack
  <2>1. Source \in AudioReceiver
    BY <1>2, <1>3, <1>5 DEF Stands, SourceStands, AddAudioTrack
  <2>2. conn[sync.to] = "closed"
    BY <1>4, <1>5, <2>1 DEF AddAudioTrack
  <2>3. QED
    BY <1>2, <1>3, <2>2, PairBefore DEF Stands, TargetStands, InPass, AtPair, Quiet
<1>6. CASE AddStore \/ SyncBuffer
  BY <1>2, <1>3, <1>6 DEF Stands, EntryStands, AddStore, SyncBuffer
<1>7. QED
  BY <1>1, <1>4, <1>5, <1>6 DEF SyncLook, AddCheck

\* A write to Users that ends the process changes Users under somebody's feet.
LEMMA WriterCrashes ==
    ASSUME TypeOK, NEW u \in UserIds, NEW c \in Conns \cup {None}, WriteUsers(u, c),
           Users[u] # c, crashed'
    PROVE  Users' # Users /\ Ranging
<1>1. Users'[u] = c
  BY DEF WriteUsers, TypeOK
<1>2. QED
  BY <1>1 DEF WriteUsers

\* A step that ends the process is one of the three.
LEMMA CrashIsExplained ==
    ASSUME TypeOK, Stands, Next, crashed'
    PROVE  Overlap
<1>1. ~crashed
  BY DEF Next
<1>2. CASE Pass
  BY <1>1, <1>2, PassCrashes DEF Overlap
<1>3. ASSUME NEW c \in Conns, Peer(c) \/ Close(c) \/ HbKill(c) \/ HbRemove(c)
      PROVE  Overlap
  <2>1. CASE Login(c) \/ CloseDelete(c) \/ HbRemove(c)
    <3>1. Owner[c] \in UserIds /\ c # None
      BY TrackSyncAssumption
    <3>2. \E d \in Conns \cup {None} : WriteUsers(Owner[c], d) /\ Users[Owner[c]] # d
      BY <1>1, <2>1, <3>1 DEF Login, CloseDelete, HbRemove, Listed
    <3>3. QED
      BY <3>1, <3>2, WriterCrashes DEF Overlap
  <2>2. CASE ~(Login(c) \/ CloseDelete(c) \/ HbRemove(c))
    BY <1>1, <1>3, <2>2 DEF Peer, OpenChannel, CloseChannel, TrackStarts, Lose, Recover, HbKill,
           Close, CloseDie, CloseClear, CloseOut, CloseReturn, CloseSweep
  <2>3. QED
    BY <2>1, <2>2
<1>4. ASSUME NEW c \in Conns, NEW d \in Conns, Loop(c, d)
      PROVE  Overlap
  <2>1. Sent(c)
    BY <1>1, <1>4 DEF Loop, Leak, Park, Ask, Send
  <2>2. sending[c].shut /\ sending[c].to # None /\ sending'[c].to = None
    BY <2>1 DEF Sent, NotSending, TypeOK
  <2>3. QED
    BY <2>2 DEF Overlap
<1>5. QED
  BY <1>2, <1>3, <1>4 DEF Next

LEMMA InvParts == Inv <=> TypeOK /\ Stands
  BY DEF Inv, Stands

LEMMA InitInv == Init => Inv
<1> SUFFICES ASSUME Init
             PROVE  Inv
  OBVIOUS
<1>1. TypeOK
  BY DEF Init, TypeOK, Resting, NotSending
<1>2. Stands
  BY TrackSyncAssumption
     DEF Init, Stands, OwnListed, ClosedAreGone, PassKnows, TargetStands, SourceStands, EntryStands,
         SendersSuffice, SendersMatchEntries, Held, At, AtPair, InPass, Resting
<1>3. QED
  BY <1>1, <1>2, InvParts

LEMMA NextInv ==
    ASSUME Inv, [Next]_vars
    PROVE  Inv'
<1>1. TypeOK /\ Stands /\ PassKnows /\ SendersSuffice
  BY InvParts DEF Stands
<1>2. ASSUME Pass
      PROVE  TypeOK' /\ Stands'
  <2>1. TypeOK'
    BY <1>1, <1>2, PassTypes
  <2>2. Stands'
    <3>1. CASE SyncBegin \/ SyncAlive \/ SyncNext \/ SyncEnd
      BY <1>1, <3>1, BetweenActions
    <3>2. CASE \E u \in UserIds : SyncUser(u) \/ SyncPeer(u)
      BY <1>1, <3>2, BetweenActions, SyncPeerStands
    <3>3. CASE SyncLook \/ AddAudioTrack \/ AddCheck \/ AddStore \/ SyncBuffer
      BY <1>1, <3>3, SyncLookStands, AddAudioTrackStands, AddCheckStands, StoreStands
    <3>4. QED
      BY <1>2, <3>1, <3>2, <3>3 DEF Pass
  <2>3. QED
    BY <2>1, <2>2
<1>3. ASSUME NEW c \in Conns, Peer(c) \/ Close(c) \/ HbKill(c) \/ HbRemove(c)
      PROVE  TypeOK' /\ Stands'
  <2>1. TypeOK'
    BY <1>1, <1>3, PeerTypes, CloseTypes, HeartbeatTypes
  <2>2. Stands'
    BY <1>1, <1>3, AsideActions, LoginStands, TakenActions, RecoverStands, CloseClearStands,
       CloseSweepStands DEF Peer, Close
  <2>3. QED
    BY <2>1, <2>2
<1>4. ASSUME NEW c \in Conns, NEW d \in Conns, Loop(c, d)
      PROVE  TypeOK' /\ Stands'
  BY <1>1, <1>4, LoopTypes, AsideActions
<1>5. ASSUME UNCHANGED vars
      PROVE  TypeOK' /\ Stands'
  <2>1. TypeOK'
    BY <1>1, <1>5 DEF TypeOK, vars, people, down, tracks, flags, loops
  <2>2. Stands'
    BY <1>1, <1>5, AsideStands DEF vars, people, down, tracks
  <2>3. QED
    BY <2>1, <2>2
<1>6. TypeOK' /\ Stands'
  BY <1>2, <1>3, <1>4, <1>5 DEF Next
<1>7. QED
  BY <1>6 DEF Inv, Stands

\* The inductive invariant holds in every run, for any number of users and logins.
THEOREM Invariant == Spec => []Inv
  BY InitInv, NextInv, PTL DEF Spec

\* Every variable keeps its type; the sweep never removes a sender that is not there.
THEOREM TypeCorrect == Spec => []TypeOK
<1>1. Inv => TypeOK
  BY DEF Inv
<1>2. QED
  BY <1>1, Invariant, PTL

\* The process ends only in a step that changes Users under a goroutine that ranges over
\* it, that sends to a buffer closed meanwhile, or in which the pass is at two users of
\* whom one has gone since.
THEOREM CrashesAreExplained == Spec => CrashNeedsOverlap
<1>1. Inv /\ [Next]_vars => [crashed' => Overlap]_vars
  BY CrashIsExplained, InvParts
<1>2. [crashed' => Overlap]_vars =>
      [crashed' =>
          \/ Users' # Users /\ Ranging
          \/ \E c \in Conns : sending[c].shut /\ sending'[c] # sending[c]
          \/ AtPair /\ gone # {}]_vars
  BY DEF Overlap
<1>3. QED
  BY <1>1, <1>2, Invariant, PTL DEF Spec, CrashNeedsOverlap

\* Entries and pion senders agree, however often users log in again, up to the senders
\* that AddAudioTrack gave up.
THEOREM SendersAgree == Spec => []SendersMatchEntries
<1>1. Inv => SendersMatchEntries
  BY DEF Inv
<1>2. QED
  BY <1>1, Invariant, PTL

-----------------------------------------------------------------------------
(* TrackSync implements Membership.                                         *)

\* Nobody is unlisted by a teardown that has not declared its connection dead, and
\* nobody is listed without a login.
Orderly ==
    /\ \A c \in Conns : closer[c] \notin {"none", "die"} => Died[c]
    /\ \A c \in Conns : Users[Owner[c]] = c => conn[c] # "new"

\* What the steps of the pass and of the loops leave alone.
LEMMA OnlyPeople ==
    ASSUME Pass \/ \E c, d \in Conns : Park(c, d) \/ Ask(c, d) \/ Send(c, d) \/ Sent(c)
    PROVE  UNCHANGED <<people, down>>
  BY DEF Pass, SyncBegin, SyncAlive, SyncNext, SyncEnd, SyncUser, SyncPeer, SyncLook, AddAudioTrack,
         AddCheck, AddStore, SyncBuffer, PassFrame, Park, Ask, Send, Sent

LEMMA OrderlyStays ==
    ASSUME TypeOK, OwnListed, Orderly, [Next]_vars
    PROVE  Orderly'
<1>0. /\ conn \in [Conns -> {"new", "up", "lost", "closed"}] /\ Died \in [Conns -> BOOLEAN]
      /\ closer \in [Conns -> {"none", "die", "clear", "delete", "lock", "sweep", "done"}]
      /\ Users \in [UserIds -> Conns \cup {None}] /\ Owner \in [Conns -> UserIds]
      /\ None \notin Conns
  BY TrackSyncAssumption DEF TypeOK
<1>1. ASSUME NEW c \in Conns, Login(c)
      PROVE  Orderly'
  <2>1. conn' = [conn EXCEPT ![c] = "up"] /\ UNCHANGED <<closer, Died>>
    BY <1>1 DEF Login, down
  <2>2. Users' = Users \/ Users' = [Users EXCEPT ![Owner[c]] = c]
    BY <1>1 DEF Login, WriteUsers
  <2> QED BY <1>0, <2>1, <2>2 DEF Orderly
<1>2. ASSUME NEW c \in Conns, \/ Lose(c) \/ Recover(c) \/ OpenChannel(c) \/ CloseChannel(c)
                              \/ TrackStarts(c)
      PROVE  Orderly'
  <2>1. UNCHANGED <<Users, Died>>
    BY <1>2 DEF Lose, Recover, OpenChannel, CloseChannel, TrackStarts
  <2>2. \A e \in Conns : conn'[e] = "new" => conn[e] = "new"
    BY <1>0, <1>2 DEF Lose, Recover, OpenChannel, CloseChannel, TrackStarts
  <2>3. \A e \in Conns : closer'[e] \notin {"none", "die"} => closer'[e] = closer[e]
    BY <1>0, <1>2 DEF Lose, CloseDone, Recover, OpenChannel, CloseChannel, TrackStarts, down
  <2> QED BY <2>1, <2>2, <2>3 DEF Orderly
<1>3. ASSUME NEW c \in Conns, CloseDie(c)
      PROVE  Orderly'
  <2>1. Died' = [Died EXCEPT ![c] = TRUE] /\ closer' = [closer EXCEPT ![c] = "clear"]
    BY <1>3 DEF CloseDie, CloseStep
  <2>2. UNCHANGED <<Users, conn>>
    BY <1>3 DEF CloseDie
  <2> QED BY <1>0, <2>1, <2>2 DEF Orderly
<1>4. ASSUME NEW c \in Conns, CloseClear(c) \/ CloseDelete(c) \/ CloseOut(c) \/ CloseReturn(c)
      PROVE  Orderly'
  <2>1. UNCHANGED <<Died, conn>>
    BY <1>4 DEF CloseClear, CloseDelete, CloseOut, CloseReturn, people
  <2>2. Users' = Users \/ Users' = [Users EXCEPT ![Owner[c]] = None]
    BY <1>4 DEF CloseClear, CloseDelete, CloseOut, CloseReturn, WriteUsers, people
  <2>3. closer[c] \notin {"none", "die"} /\ \A e \in Conns \ {c} : closer'[e] = closer[e]
    BY <1>0, <1>4 DEF CloseClear, CloseDelete, CloseOut, CloseReturn, CloseStep
  <2> QED BY <1>0, <2>1, <2>2, <2>3 DEF Orderly
<1>5. ASSUME NEW c \in Conns, NEW d \in Conns, CloseSweep(c, d)
      PROVE  Orderly'
  BY <1>5 DEF CloseSweep, people, Orderly
<1>6. ASSUME NEW c \in Conns, HbKill(c)
      PROVE  Orderly'
  <2>1. UNCHANGED <<Users, conn, closer>> /\ (Died' = Died \/ Died' = [Died EXCEPT ![c] = TRUE])
    BY <1>6 DEF HbKill
  <2> QED BY <1>0, <2>1 DEF Orderly
<1>7. ASSUME NEW c \in Conns, HbRemove(c)
      PROVE  Orderly'
  <2>1. /\ Users' = [Users EXCEPT ![Owner[c]] = None] /\ conn' = [conn EXCEPT ![c] = "closed"]
        /\ UNCHANGED Died
    BY <1>7 DEF HbRemove, WriteUsers
  <2>2. \A e \in Conns : closer'[e] \notin {"none", "die"} => closer'[e] = closer[e]
    BY <1>0, <1>7 DEF HbRemove, CloseDone
  <2> QED BY <1>0, <2>1, <2>2 DEF Orderly
<1>8. CASE UNCHANGED <<people, down>>
  BY <1>8 DEF Orderly, people, down
<1>9. ASSUME NEW c \in Conns, NEW d \in Conns, Loop(c, d)
      PROVE  Orderly'
  <2>1. CASE Leak(c, d)
    BY <2>1 DEF Leak, Orderly, down
  <2> QED BY <1>8, <1>9, <2>1, OnlyPeople DEF Loop
<1>10. ASSUME NEW c \in Conns, Peer(c) \/ Close(c) \/ HbKill(c) \/ HbRemove(c)
       PROVE  Orderly'
  BY <1>1, <1>2, <1>3, <1>4, <1>5, <1>6, <1>7, <1>10 DEF Peer, Close
<1> QED
  BY <1>8, <1>9, <1>10, OnlyPeople DEF Next, vars

LEMMA InitOrderly == Init => Orderly
  BY TrackSyncAssumption DEF Init, Orderly

LEMMA AlwaysOrderly == Spec => [](Inv /\ Orderly)
<1>1. Inv => TypeOK /\ OwnListed
  BY DEF Inv
<1> QED BY <1>1, InitOrderly, OrderlyStays, Invariant, PTL DEF Spec

\* A login, a death, a leave behind a death, or none of the company's business.
LEMMA StepIsMembership ==
    ASSUME TypeOK, OwnListed, Orderly, [Next]_vars
    PROVE  Company!Next \/ UNCHANGED Company!memberVars
<1> USE TrackSyncAssumption DEF Company!Next, Company!memberVars
<1> DEFINE answered == {c \in Conns : conn[c] # "new"}
           dead == {c \in Conns : Died[c]}
<1>0. /\ Users \in [UserIds -> Conns \cup {None}] /\ Died \in [Conns -> BOOLEAN]
      /\ conn \in [Conns -> {"new", "up", "lost", "closed"}]
  BY DEF TypeOK
<1>1. ASSUME NEW c \in Conns, Login(c)
      PROVE  Company!Answer(c)
  <2>1. c \notin answered /\ answered' = answered \cup {c}
    BY <1>0, <1>1 DEF Login
  <2>2. Users' = [Users EXCEPT ![Owner[c]] = IF @ = None THEN c ELSE @] /\ UNCHANGED Died
    BY <1>0, <1>1 DEF Login, WriteUsers
  <2> QED BY <2>1, <2>2 DEF Company!Answer
<1>2. ASSUME NEW c \in Conns, \/ Lose(c) \/ Recover(c) \/ OpenChannel(c) \/ CloseChannel(c)
                              \/ TrackStarts(c)
      PROVE  UNCHANGED Company!memberVars
  <2>1. UNCHANGED <<Users, Died>>
    BY <1>2 DEF OpenChannel, CloseChannel, TrackStarts, Lose, Recover
  <2>2. \A e \in Conns : (conn'[e] # "new") <=> (conn[e] # "new")
    BY <1>0, <1>2 DEF OpenChannel, CloseChannel, TrackStarts, Lose, Recover
  <2> QED BY <2>1, <2>2
<1>3. ASSUME NEW c \in Conns, CloseDie(c) \/ HbKill(c)
      PROVE  Company!Die(c) \/ UNCHANGED Company!memberVars
  <2>1. UNCHANGED <<Users, conn>> /\ (Died' = Died \/ Died' = [Died EXCEPT ![c] = TRUE])
    BY <1>3 DEF CloseDie, HbKill
  <2>2. dead' = dead \/ dead' = dead \cup {c}
    BY <1>0, <2>1
  <2> QED BY <2>1, <2>2 DEF Company!Die
<1>4. ASSUME NEW c \in Conns, CloseDelete(c) \/ HbRemove(c)
      PROVE  Company!Leave({Owner[c]})
  <2>1. Users' = [u \in UserIds |-> IF u \in {Owner[c]} THEN None ELSE Users[u]]
    <3>1. \/ Users' = [Users EXCEPT ![Owner[c]] = None]
          \/ Users' = Users /\ Users[Owner[c]] = None
      BY <1>4 DEF CloseDelete, HbRemove, WriteUsers
    <3> QED BY <1>0, <3>1
  <2>2. c \in dead /\ dead' = dead
    BY <1>4 DEF CloseDelete, CloseStep, HbRemove, Orderly
  <2>3. answered' = answered
    BY <1>0, <1>4 DEF CloseDelete, HbRemove, Listed, Orderly
  <2> QED BY <2>1, <2>2, <2>3 DEF Company!Leave
<1>5. ASSUME NEW c \in Conns, Close(c)
      PROVE  CloseDie(c) \/ CloseDelete(c) \/ UNCHANGED Company!memberVars
  BY <1>5 DEF Close, CloseClear, CloseOut, CloseReturn, CloseSweep, people
<1>6. CASE UNCHANGED people
  BY <1>6 DEF people
<1>7. ASSUME NEW c \in Conns, NEW d \in Conns, Loop(c, d)
      PROVE  UNCHANGED Company!memberVars
  <2>1. CASE Leak(c, d)
    BY <2>1 DEF Leak
  <2>2. CASE UNCHANGED people
    BY <2>2 DEF people
  <2> QED BY <1>7, <2>1, <2>2, OnlyPeople DEF Loop
<1>8. ASSUME NEW c \in Conns, Peer(c) \/ Close(c) \/ HbKill(c) \/ HbRemove(c)
      PROVE  Company!Next \/ UNCHANGED Company!memberVars
  <2>1. {Owner[c]} \in SUBSET UserIds
    OBVIOUS
  <2> QED BY <1>1, <1>2, <1>3, <1>4, <1>5, <1>8, <2>1 DEF Peer
<1> QED
  BY <1>6, <1>7, <1>8, OnlyPeople DEF Next, vars

\* TrackSync implements Membership, as SessionLifecycle does: the connections the pass
\* picks come and go by the same rules.
THEOREM Refinement == Spec => KeepsMembership
<1>1. Init => Company!Init
  BY DEF Init, Company!Init
<1>2. Inv /\ Orderly /\ [Next]_vars => [Company!Next]_(Company!memberVars)
  BY StepIsMembership DEF Inv
<1> QED BY <1>1, <1>2, AlwaysOrderly, PTL DEF Spec, KeepsMembership, Company!Spec
-----------------------------------------------------------------------------
(* What Membership promises holds of TrackSync.                             *)

Promise ==
    INSTANCE MembershipProofs
    WITH member <- Users, answered <- {c \in Conns : conn[c] # "new"},
         dead <- {c \in Conns : Died[c]}

\* A user who has logged in is listed, by the same or another connection, until a
\* connection of his is dead: the pass leaves out nobody else.
THEOREM LoggedInStayListed ==
    Spec => [](Company!AnsweredArePresent /\ Company!MembersWereAnswered)
<1>1. Promise!Spec => []Promise!MInv
  BY TrackSyncAssumption, Promise!MembershipInvariant
<1>2. Company!Init => Promise!Init
  BY DEF Company!Init, Promise!Init
<1>3. [Company!Next]_(Company!memberVars) => [Promise!Next]_(Promise!memberVars)
  BY DEF Company!Next, Company!Answer, Company!Die, Company!Leave, Company!memberVars,
         Promise!Next, Promise!Answer, Promise!Die, Promise!Leave, Promise!memberVars
<1>4. Company!Spec => Promise!Spec
  BY <1>2, <1>3, PTL DEF Company!Spec, Promise!Spec
<1>5. Promise!MInv => Company!AnsweredArePresent /\ Company!MembersWereAnswered
  BY DEF Promise!MInv, Promise!AnsweredArePresent, Promise!MembersWereAnswered,
         Company!AnsweredArePresent, Company!MembersWereAnswered
<1> QED BY <1>1, <1>4, <1>5, Refinement, PTL DEF KeepsMembership

-----------------------------------------------------------------------------
(* Liveness.  StepsAreTaken stands for Fairness, and for the count of the   *)
(* users a pass has left.  A pass that begins with a track missing does not *)
(* end without it: the two users are ahead of it, until it is at them.      *)

\* Renegotiating does not outlast the pass, and an entry is left half made only
\* between the two steps of the pass that complete it: the pass skips such an entry,
\* and the loops, silent then, would not ask for another one.
InHand ==
    /\ Renegotiating => InPass
    /\ \A d \in Conns, u \in UserIds : entry[d][u] = "track" => sync.at = "buffer" /\ At(d, u)

LEMMA InHandStays ==
    ASSUME TypeOK, PassKnows, InHand, [Next]_vars
    PROVE  InHand'
<1>0. /\ Owner \in [Conns -> UserIds]
      /\ entry \in [Conns -> [UserIds -> {"none", "entry", "track", "buffer"}]]
  BY TrackSyncAssumption DEF TypeOK
<1>1. CASE SyncBegin \/ SyncEnd
  BY <1>1 DEF SyncBegin, SyncEnd, Begun, Resting, InHand, InPass, At, AtPair, tracks
<1>2. ASSUME UNCHANGED <<entry, Renegotiating>>, sync.at # "buffer", InPass => InPass'
      PROVE  InHand'
  BY <1>2 DEF InHand, At
<1>3. CASE SyncAlive \/ SyncNext \/ \E u \in UserIds : SyncUser(u) \/ SyncPeer(u)
  <2>1. UNCHANGED <<entry, Renegotiating>> /\ sync.at # "buffer"
    BY <1>3 DEF SyncAlive, SyncNext, SyncUser, SyncPeer, tracks, flags
  <2>2. CASE SyncAlive
    BY <1>2, <2>1, <2>2 DEF SyncAlive, InPass, TypeOK
  <2>3. CASE SyncNext
    BY <1>2, <2>1, <2>3 DEF SyncNext, InPass, TypeOK
  <2>4. ASSUME NEW u \in UserIds, SyncUser(u) \/ SyncPeer(u)
        PROVE  InHand'
    BY <1>2, <2>1, <2>4 DEF SyncUser, SyncPeer, InPass, TypeOK
  <2> QED BY <1>3, <2>2, <2>3, <2>4
<1>4. CASE SyncLook \/ AddCheck
  <2>1. UNCHANGED <<entry, Renegotiating>> /\ sync.at # "buffer"
    BY <1>4 DEF SyncLook, AddCheck, tracks, flags
  <2>2. InPass'
    BY <1>4, GotoIs DEF SyncLook, AddCheck, InPass
  <2> QED BY <1>2, <2>1, <2>2
<1>5. CASE AddAudioTrack
  <2>1. /\ sync.at = "add" /\ sync.to \in Conns /\ Owner[sync.from] \in UserIds
        /\ UNCHANGED Renegotiating
    BY <1>0, <1>5 DEF AddAudioTrack, PassKnows, AtPair, flags
  <2>2. InPass'
    <3>1. Goto("inner") \/ Goto("check")
      BY <1>5 DEF AddAudioTrack
    <3> QED BY <3>1, GotoIs DEF InPass
  <2>3. \/ UNCHANGED entry
        \/ SetEntry(IF Entry = "none" THEN "entry" ELSE Entry)
    BY <1>5 DEF AddAudioTrack, tracks
  <2>4. \A d \in Conns, u \in UserIds : entry'[d][u] # "track"
    BY <1>0, <2>1, <2>3 DEF SetEntry, Entry, InHand
  <2> QED BY <2>1, <2>2, <2>4 DEF InHand
<1>6. CASE AddStore \/ SyncBuffer
  <2>1. /\ sync.to \in Conns /\ Owner[sync.from] \in UserIds /\ sync.at \in {"store", "buffer"}
        /\ UNCHANGED Renegotiating
    BY <1>0, <1>6 DEF AddStore, SyncBuffer, PassKnows, AtPair, flags
  <2>2. CASE UNCHANGED <<entry, sync>>
    BY <2>1, <2>2 DEF InHand, InPass, At, AtPair
  <2>3. CASE AddStore /\ ~UNCHANGED <<entry, sync>>
    <3>1. /\ sync.at = "store" /\ SetEntry("track") /\ sync'.at = "buffer"
          /\ sync'.to = sync.to /\ sync'.from = sync.from
      BY <2>3, GotoIs DEF AddStore
    <3>2. \A d \in Conns, u \in UserIds :
              entry'[d][u] = "track" => d = sync.to /\ u = Owner[sync.from]
      BY <1>0, <2>1, <3>1 DEF SetEntry, InHand
    <3> QED BY <2>1, <3>1, <3>2 DEF InHand, InPass, At, AtPair
  <2>4. CASE SyncBuffer /\ ~UNCHANGED <<entry, sync>>
    <3>1. SetEntry("buffer") /\ sync'.at = "inner"
      BY <2>4, GotoIs DEF SyncBuffer
    <3>2. \A d \in Conns, u \in UserIds : entry'[d][u] # "track"
      BY <1>0, <2>1, <3>1 DEF SetEntry, InHand, At
    <3> QED BY <2>1, <3>1, <3>2 DEF InHand, InPass
  <2> QED BY <1>6, <2>2, <2>3, <2>4 DEF AddStore, SyncBuffer
<1>7. ASSUME UNCHANGED <<sync, Renegotiating>>,
             \A d \in Conns, u \in UserIds : entry'[d][u] = "track" => entry[d][u] = "track"
      PROVE  InHand'
  BY <1>7 DEF InHand, InPass, At, AtPair
<1>8. ASSUME NEW c \in Conns, Peer(c) \/ Close(c) \/ HbKill(c) \/ HbRemove(c)
      PROVE  InHand'
  <2>1. UNCHANGED <<sync, Renegotiating>>
    BY <1>8 DEF Peer, Login, OpenChannel, CloseChannel, TrackStarts, Lose, Recover, Close, CloseDie,
                CloseClear, CloseDelete, CloseOut, CloseSweep, CloseReturn, HbKill, HbRemove, flags
  <2>2. \/ UNCHANGED entry
        \/ entry' = [entry EXCEPT ![c] = [u \in UserIds |-> "none"]]
        \/ \E d \in Conns : entry' = [entry EXCEPT ![d][Owner[c]] = "none"]
    BY <1>8 DEF Peer, Login, OpenChannel, CloseChannel, TrackStarts, Lose, Recover, Close, CloseDie,
                CloseClear, CloseDelete, CloseOut, CloseSweep, CloseReturn, HbKill, HbRemove, tracks
  <2>3. \A d \in Conns, u \in UserIds : entry'[d][u] = "track" => entry[d][u] = "track"
    BY <1>0, <2>2
  <2> QED BY <1>7, <2>1, <2>3
<1>9. CASE UNCHANGED vars \/ \E c, d \in Conns : Loop(c, d)
  BY <1>7, <1>9 DEF vars, Loop, Leak, Park, Ask, Send, Sent, tracks, flags
<1> QED
  BY <1>1, <1>3, <1>4, <1>5, <1>6, <1>8, <1>9 DEF Next, Pass

LEMMA InitInHand == Init => InHand
  BY DEF Init, InHand, InPass, Resting

LEMMA AlwaysInHand == Spec => [](Inv /\ InHand)
<1>1. Inv => TypeOK /\ PassKnows
  BY DEF Inv
<1> QED BY <1>1, InitInHand, InHandStays, Invariant, PTL DEF Spec

\* d has no buffer for the audio of c, and nothing is in the way of it.
Lacking(c, d) ==
    Together(c, d) /\ entry[d][Owner[c]] # "buffer" /\ ~Blocked /\ ~crashed

\* The pass has the two before it, or is at them.
Coming(c, d) ==
    \/ Owner[d] \in sync.outer
    \/ sync.to = d /\ sync.at = "alive"
    \/ /\ sync.to = d /\ Owner[c] \in sync.inner
       /\ sync.at \in {"inner", "look", "add", "check", "store", "buffer"}
    \/ At(d, Owner[c])

\* The stages.
Unasked(c, d) == Lacking(c, d) /\ ~InPass /\ ~RtpSyncNeeded

Needed(c, d) == Lacking(c, d) /\ ~InPass /\ RtpSyncNeeded

Ahead(c, d) == Lacking(c, d) /\ InPass /\ Coming(c, d)

\* The two stay ahead of the pass until d has its buffer.
LEMMA PassComes ==
    ASSUME TypeOK, PassKnows, InHand, NEW c \in Conns, NEW d \in Conns, Ahead(c, d), [Next]_vars,
           Lacking(c, d)'
    PROVE  Ahead(c, d)'
<1> DEFINE u == Owner[c]
           v == Owner[d]
<1>0. /\ u \in UserIds /\ v \in UserIds /\ u # v /\ Users[u] = c /\ Users[v] = d
      /\ c # None /\ d # None /\ ~Died[d] /\ conn[c] = "up" /\ conn[d] = "up"
      /\ c \in AudioReceiver /\ entry[d][u] # "buffer" /\ ~crashed
  BY TrackSyncAssumption DEF Ahead, Lacking, Together, Reaches, Looping, Listed
<1>1. SUFFICES InPass' /\ Coming(c, d)'
  BY DEF Ahead
<1>2. InPass /\ Coming(c, d)
  BY DEF Ahead
<1>3. CASE UNCHANGED sync
  BY <1>2, <1>3 DEF InPass, Coming, At, AtPair
<1>4. CASE SyncBegin \/ SyncEnd
  BY <1>0, <1>2, <1>4 DEF SyncBegin, SyncEnd, InPass, Coming, At, AtPair
<1>5. ASSUME NEW w \in UserIds, SyncUser(w)
      PROVE  InPass' /\ Coming(c, d)'
  BY <1>0, <1>2, <1>5 DEF SyncUser, TypeOK, InPass, Coming, At, AtPair
<1>6. CASE SyncAlive
  BY <1>0, <1>2, <1>6 DEF SyncAlive, TypeOK, InPass, Coming, At, AtPair
<1>7. ASSUME NEW w \in UserIds, SyncPeer(w)
      PROVE  InPass' /\ Coming(c, d)'
  BY <1>0, <1>2, <1>7 DEF SyncPeer, TypeOK, InPass, Coming, At, AtPair
<1>8. CASE SyncNext
  BY <1>0, <1>2, <1>8 DEF SyncNext, TypeOK, InPass, Coming, At, AtPair
<1>9. CASE SyncLook \/ AddAudioTrack \/ AddCheck \/ AddStore \/ SyncBuffer
  <2>1. \/ UNCHANGED sync
        \/ \E l \in {"inner", "add", "check", "store", "buffer"} : Goto(l)
    BY <1>9 DEF SyncLook, AddAudioTrack, AddCheck, AddStore, SyncBuffer
  <2>2. /\ sync'.to = sync.to /\ sync'.outer = sync.outer /\ sync'.inner = sync.inner
        /\ sync'.from = sync.from /\ InPass'
    BY <1>2, <1>3, <2>1 DEF Goto, TypeOK, InPass
  <2>3. CASE ~At(d, u)
    <3>1. sync.at # "alive" /\ sync'.at \in {"inner", "look", "add", "check", "store", "buffer"}
      BY <1>9, <2>1, GotoIs DEF SyncLook, AddAudioTrack, AddCheck, AddStore, SyncBuffer
    <3> QED BY <1>2, <2>2, <2>3, <3>1 DEF Coming
  <2>4. CASE At(d, u)
    <3>1. Source = c /\ Entry = entry[d][u] /\ sync.to = d
      BY <1>0, <2>4 DEF At, Source, Entry
    <3>2. AtPair'
      <4>1. CASE SyncLook
        <5>1. Entry \in {"none", "entry"}
          BY <1>0, <3>1, <4>1 DEF SyncLook, InHand, TypeOK
        <5> QED BY <1>0, <3>1, <4>1, <5>1, GotoIs DEF SyncLook, AtPair
      <4>2. CASE AddAudioTrack
        BY <1>0, <3>1, <4>2, GotoIs DEF AddAudioTrack, AtPair
      <4>3. CASE AddCheck
        BY <1>0, <3>1, <4>3, GotoIs DEF AddCheck, AtPair
      <4>4. CASE AddStore
        BY <4>4, GotoIs DEF AddStore, AtPair
      <4>5. CASE SyncBuffer
        <5>1. Entry # "none" => entry'[d][u] = "buffer"
          BY <1>0, <2>4, <3>1, <4>5 DEF SyncBuffer, SetEntry, At, TypeOK
        <5>2. entry'[d][u] # "buffer"
          BY DEF Lacking
        <5> QED BY <4>5, <5>1, <5>2 DEF SyncBuffer, AtPair
      <4> QED BY <1>9, <4>1, <4>2, <4>3, <4>4, <4>5
    <3> QED BY <2>2, <2>4, <3>2 DEF Coming, At
  <2> QED BY <2>2, <2>3, <2>4
<1>10. CASE ~Pass
  BY <1>3, <1>10 DEF Next, vars, Peer, Login, OpenChannel, CloseChannel, TrackStarts, Lose, Recover,
         Close, CloseDie, CloseClear, CloseDelete, CloseOut, CloseSweep, CloseReturn, HbKill,
         HbRemove, Loop, Leak, Park, Ask, Send, Sent
<1> QED BY <1>4, <1>5, <1>6, <1>7, <1>8, <1>9, <1>10 DEF Pass

\* Nothing but a pass, for which it takes a request, ends the rest.
LEMMA RestLasts ==
    ASSUME [Next]_vars, ~InPass
    PROVE  /\ InPass' => SyncBegin
           /\ RtpSyncNeeded => RtpSyncNeeded'
<1>1. CASE Pass
  <2>1. SyncBegin
    BY <1>1 DEF Pass, SyncEnd, SyncUser, SyncAlive, SyncPeer, SyncNext, SyncLook, AddAudioTrack,
                AddCheck, AddStore, SyncBuffer, InPass
  <2> QED BY <2>1 DEF SyncBegin
<1>2. CASE ~Pass
  <2>1. UNCHANGED sync /\ (RtpSyncNeeded' = TRUE \/ UNCHANGED RtpSyncNeeded)
    BY <1>2 DEF Next, vars, flags, Peer, Login, OpenChannel, CloseChannel, TrackStarts, Lose,
                Recover, Close, CloseDie, CloseClear, CloseDelete, CloseOut, CloseSweep,
                CloseReturn, HbKill, HbRemove, Loop, Leak, Park, Ask, Send, Sent
  <2> QED BY <2>1 DEF InPass
<1> QED BY <1>1, <1>2

LEMMA BeginHelps ==
    ASSUME NEW c \in Conns, NEW d \in Conns, SyncBegin
    PROVE  RtpSyncNeeded /\ (Lacking(c, d)' => Ahead(c, d)')
  BY TrackSyncAssumption DEF SyncBegin, Begun, Resting, Ahead, InPass, Coming

\* Two users who stay get each other's tracks, for any number of users who come, go and
\* log in again meanwhile, if passes that do not wait for ever end.
THEOREM TracksGetThere == Spec /\ StepsAreTaken => TracksAreSynced
<1> SUFFICES ASSUME NEW c \in Conns, NEW d \in Conns \ {c}
             PROVE  Spec /\ StepsAreTaken =>
                (Together(c, d) ~>
                    entry[d][Owner[c]] = "buffer" \/ ~Together(c, d) \/ Blocked \/ crashed)
  BY DEF TracksAreSynced
<1>2. Inv /\ InHand /\ Inv' /\ Ahead(c, d) /\ [Next]_vars => Ahead(c, d)' \/ ~Lacking(c, d)'
  BY PassComes DEF Inv
<1>3. Ahead(c, d) => ~(crashed \/ ~InPass \/ Blocked)
  BY DEF Ahead, Lacking
<1>4. Spec /\ StepsAreTaken => (Ahead(c, d) ~> ~Lacking(c, d))
  BY <1>2, <1>3, AlwaysInHand, PTL DEF Spec, StepsAreTaken, PassesEnd
<1>5. Spec /\ StepsAreTaken => (Needed(c, d) ~> Ahead(c, d) \/ ~Lacking(c, d))
  <2>1. InHand /\ Needed(c, d) => ~(crashed \/ InPass \/ ~RtpSyncNeeded \/ Renegotiating)
    BY DEF InHand, Needed, Lacking
  <2>2. Needed(c, d) /\ [Next]_vars => Needed(c, d)' \/ Ahead(c, d)' \/ ~Lacking(c, d)'
    BY RestLasts, BeginHelps DEF Needed
  <2>3. <<SyncBegin>>_vars => Ahead(c, d)' \/ ~Lacking(c, d)'
    BY BeginHelps
  <2> QED BY <2>1, <2>2, <2>3, AlwaysInHand, PTL DEF Spec, StepsAreTaken, PassesBegin
<1>6. Spec /\ StepsAreTaken => (Unasked(c, d) ~> Needed(c, d) \/ ~Lacking(c, d))
  <2>1. Inv /\ InHand /\ Unasked(c, d) => ~(crashed \/ RtpSyncNeeded \/ ~Missing(c, d))
    BY TrackSyncAssumption DEF InHand, Inv, TypeOK, Unasked, Lacking, Together, Missing, InPass
  <2>2. Unasked(c, d) /\ [Next]_vars => Unasked(c, d)' \/ Needed(c, d)' \/ ~Lacking(c, d)'
    BY RestLasts, BeginHelps DEF Unasked, Needed
  <2>3. Unasked(c, d) /\ <<Ask(c, d)>>_vars => Needed(c, d)' \/ ~Lacking(c, d)'
    BY DEF Ask, Unasked, Needed, InPass
  <2>4. StepsAreTaken => Asked(c, d)
    BY DEF StepsAreTaken
  <2> QED BY <2>1, <2>2, <2>3, <2>4, AlwaysInHand, PTL DEF Spec, Asked
<1>7. Lacking(c, d) /\ ~InPass => Unasked(c, d) \/ Needed(c, d)
  BY DEF Unasked, Needed
<1>8. crashed \/ Blocked => ~Lacking(c, d)
  BY DEF Lacking
<1>9. Spec /\ StepsAreTaken => (Lacking(c, d) ~> ~Lacking(c, d))
  BY <1>4, <1>5, <1>6, <1>7, <1>8, PTL DEF StepsAreTaken, PassesEnd
<1>10. ~Lacking(c, d) => entry[d][Owner[c]] = "buffer" \/ ~Together(c, d) \/ Blocked \/ crashed
  BY DEF Lacking
<1> QED BY <1>9, <1>10, PTL

=============================================================================
