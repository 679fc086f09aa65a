# A TLA+ model of the Go media server

This directory models the selective forwarding unit (SFU) in this repository:
`server.go`, `models/`, `media_orchestration/` and `hystersisloadmanagement/`.
Users of a company log in over HTTP with an SDP offer, get a pion
`PeerConnection`, open a data channel, and from then on the server copies their
RTP packets to the colleagues they choose, or to rooms.

The models are about what is hard to see in that code: a handful of goroutines
per connection and per company that meet at four mutexes and two maps.

## The system

| Part | State | Operations | Hard behaviour |
|---|---|---|---|
| Login handler, `server.go` `auth_handler` | `UserConnections`, `CompanySFUs`, the labels between its lock sections | check for an existing connection, create the company, answer, publish, store rooms, start the orchestrator, list | six critical sections instead of one; two logins of one user; a teardown that overtakes the listing |
| Orchestrator, `orchestrator_router_logic.go` `SingleOrchestrator` | one `sync.Once` | callbacks for the data channel, the state of the connection; `closeDone` | the state is looked at once, before the callback is registered |
| Teardown, `close_connection` | `Died`, `MemberTracks`, `Users`, `OutgoingDataChannel` | seven lock sections in a fixed order | everything after a lock that is never free is never done |
| Data-channel goroutine, `server.go:229` | a read lock, the queue | sends queued messages | keeps the read lock as long as the channel is open |
| Heartbeat, `heartbeat_company_sfu.go` | `Died`, `Offline`, `OfflineSince` | every 2 s: send "h", mark, remove | takes a connection's lock inside the company's |
| Online status, same file | none | every 3 s, on open, on teardown | takes one read lock twice |
| Media loops, `rtp_track_syncronizer_and_orchestraction.go` `Sync_track` | pipe flags, room map, buffers | copy a packet to each receiver | unlocked maps, a forgotten `RUnlock`, non-blocking sends |
| Media requests, `OnMessage` | the same, and the outgoing queues | `audio_route`, `audio_route_room` and their video forms, `route_to`, `answer` | sets, then tells; full queues drop |
| Renegotiation pass, `sysc_user_tracks_and_renegotiate` | `MemberTracks`, `RtpSyncNeeded`, `Renegotiating` | every 500 ms: add missing tracks | ranges over the live map, looks everything up again at each use, `Died` read once |
| Offers, `re_negotiator.go` | `RenegotiateMutex`, signaling state | offer, answer | the handler comes late, the mutex is replaced while in use, answers meet other offers than their own |
| System monitor, `system_monitor.go` | consumption figures | polls, posts analytics | nests a company's lock in the global one |

They interact through shared memory only. A login starts the orchestrator and,
by the data channel's callbacks, the data-channel goroutine; pion calls the
state-change handler, which tears the connection down; the company's tickers
range over the same `Users`.

`static/` (demonstration pages), `temp/` and `empty_webrtc/` (superseded
programs) are not part of the server. `RemoveUser`, `Destroy`, `UniqueUsers`
and `Renegotiate_no_waitgroup` are never called.

At this commit the source does not compile: in `orchestrator_router_logic.go` the
brace that closes `SingleOrchestrator` is missing after `<-done`, before
`close_connection` begins at line 400. The models read the file as if it were there.

What makes each part correct:

* **Login**: a user has one live connection; a login ends; an accepted user is
  in both maps for as long as it lives.
* **Teardown**: it ends, removes what the user left behind, removes nobody
  else's entry, and a connection that has gone down stays down.
* **Locks**: no map is changed under a goroutine that ranges over it with the
  map's lock; no deadlock; no `RUnlock` without an `RLock`.
* **Heartbeat**: who is marked dead has been away for the time stated.
* **Routing**: media goes where the speaker sent it and nowhere else, once;
  events reach a user once; what a browser was told is true.
* **Renegotiation pass**: it survives whoever leaves under it, adds a track once,
  and in the end every user who stays has the tracks of the others.
* **Offers**: one at a time; each change of the tracks reaches the browser; the
  signaling state does not stay unstable.

## Modules

| Module | What it models |
|---|---|
| `GoRWMutex` | Go's `sync.RWMutex`: readers that park behind an announced writer, recursive read locks, `RUnlock` calls in excess (external code, modelled from its use and documentation) |
| `SessionLifecycle` | logins, orchestrators, teardown, sender, heartbeat, status broadcasts and the renegotiation pass of one company, with every call on the locks as a step of its own |
| `SessionInvariant` | the inductive invariant of `SessionLifecycle` |
| `SessionFrames`, `SessionLifecycleProofs` | its proofs |
| `Membership`, `MembershipProofs` | the abstract specification of a company's members, and what it promises |
| `SessionRefinement` | `SessionLifecycle` implements `Membership` (that `TrackSync` does, too, is in `TrackSyncProofs`) |
| `MCSession` | the instances of `SessionLifecycle` for TLC |
| `HeartbeatClock`, `HeartbeatClockProofs` | the seconds of `Heartbeat`, and the proofs about them |
| `MediaRouting`, `MediaRoutingProofs`, `MCMediaRouting` | the audio loop, its requests and events, the data-channel goroutines |
| `TrackSync`, `TrackSyncProofs`, `MCTrackSync` | the renegotiation pass against logins, teardowns and the heartbeat |
| `Negotiation`, `NegotiationProofs`, `MCNegotiation` | offers and answers of one connection |

`SessionLifecycle` has the locks of a company and the maps they guard; the
other modules take one part of it, drop the locks and keep the interleavings:
`TrackSync` what the pass and the teardown do to tracks, `MediaRouting` what
runs while everybody is connected, `Negotiation` what follows on one connection
when its tracks change. `TrackSync` relies on one result of `Negotiation`,
`SilenceEnds`, for its fairness.

### State and code

In `SessionLifecycle` a member of `Conns` is one login request and the
`FullConnectionDetails` it creates; `Owner` is its user. `at[role][x]` is the
place in the code of a goroutine: `auth`, `orch`, `closer` and `sender` per
connection, `status` per connection (the `OnOpen` callback) and for the ticker
(`None`), `hb` for the company. Action names begin with the role: `AuthPublish`
is `server.go:191-209`, `CloseOut` is `orchestrator_router_logic.go:416-421`.
`PROJECT.json` has the lines of every definition. `companyMu` and `connMu[c]`
are records of `GoRWMutex`. `UserConnectionsMutex` and the process-wide
`CompanySFUsMutex` are plain locks held at certain labels only, so the labels
stand for them.

Read sections that neither block inside nor change anything are one step, with
the guard that no writer is announced. Sections that block inside, or during
which other goroutines' steps matter, are several. Simplifications:

* `OnDataChannel` and `OnOpen` are one step, `OpenChannel`. The heartbeat treats a
  data channel that is still connecting like none. The media loops do not: they leave
  the read lock behind there as well, so `MediaLeak` takes a channel as present
  (`HasChannel`) from the time a browser may have created it.
* The room broadcasts of `OnMessage` lock as `SendOnlineStatus` does (two
  read locks, nested), so `SendOnlineStatus` stands for them.
* The exit of the sender's range loop is not an action: the invariant shows
  that the channel is never closed while it ranges.
* After an `RUnlock` in excess the Go runtime lets in fewer parked readers than
  `Unlock` of the model does; properties of the lock are stated for a balanced
  lock, and the crash itself is modelled.
* Data races of fields (`Died` is read under three different locks or none) are
  interleavings of whole reads and writes. The "concurrent map" errors of reads
  without a lock, and the panic of a send on a channel that is being closed,
  are not modelled; a `crashed` that follows from the lock counter is.

`HeartbeatClock` treats one user and one pass as a step, and keeps what
`SessionLifecycle` leaves out: `Offline`, `OfflineSince` and the time.

`MediaRouting` takes all users as logged in and connected. `member[y][x]` is how
far y's `MemberTracks` entry for x has come (`none`, `entry` without a track,
`track`, `buffer`), since the loop behaves differently at each stage.
`loop[x]` is the `OnTrack` goroutine, with the value of `should_pipe` it has
read; `hand[x]` is the `OnMessage` callback, which pion runs for one message at
a time. `heard` is what the browsers were told. Because the audio loop ranges
over `AudioRoomsMap` without its lock, a write meanwhile may stop the process
(`RoomSwitch`); the video loop copies the map, otherwise the two are alike.
The pass takes the pairs in any order, the code one receiver after the other.
`senders[y]` is the number of goroutines that range over `OutgoingDataChannel`:
`OnOpen` starts one for every data channel the browser opens. Each takes an event
off the queue and sends it in its own time, so with two of them one event can
overtake another (`Deliver(y, i)`); events that are taken and not sent are still
counted in `out`.

`TrackSync` has connection objects (`Conns`) and users apart, because the pass
keeps a connection in its hand while `Users` moves on. `sync` is the pass: `at`
is its place in the code, `to` the connection that is to get tracks, `from` the
one whose tracks it gets, `outer` and `inner` what its two ranges have left.
`entry[d][u]` is how far d's `MemberTracks` entry for u has come and
`senders[d][u]` how many tracks pion sends for u at d. A range over a map that is
written to, a nil that is used and a send on a closed channel set `crashed`. The
locks are left out, but for what stays locked for ever. A loop that comes to a channel
which is there but not open leaves a read lock behind (`Leak`; `dc` is `leaked`), and
a data-channel goroutine keeps one anyway. Once a writer, the teardown or the
heartbeat (`hb`), waits for such a connection it is `Pinned`: it stops the pass and
every loop that comes to it (`Park`, `stuck`), and a heartbeat that waits for it stops
every writer of `Users`. The heartbeat may kill any connection whose channel is not
open when it looks. Two histories serve the properties: `gone` says which of the two
users that the pass is at has gone since it came to them, and `orphans` counts the
senders that `AddAudioTrack` added and then gave up.

`Negotiation` is one connection. `tracks` are the users whose tracks it carries,
`current` and `answered` the two descriptions, `pending` the offer that makes the
signaling state unstable; `flag` and `check` are pion's negotiation-needed flag
and its queued evaluation. A job is a goroutine in `renegotiate`; `waiting`
counts those that wait for `RenegotiateMutex`, whose state is `locked`. The
history `unfinished` says that `OnOpen` has replaced the mutex while a
renegotiation was waiting, running or pending. The browser may open a further channel
while the first is open: the code sends by the new one from then on, but the first's
`OnMessage` still runs, so the messages under way there (`older`) come in any order
or are lost (`OlderMessage`). `SetLocal` leaves open whether
pion takes a new offer over a pending one. The other users are an environment
that adds and removes tracks.

`Membership` has three variables, `member`, `answered` and `dead`, and three
actions: `Answer`, `Die`, `Leave`. The refinement mapping (`Company` in
`SessionInvariant`) is `member <- Users`, `answered <-` the connections whose
login handler is at its end, `dead <-` the published connections with `Died`.
`TrackSync` implements it as well (`Company` there): `answered` are the connections
that are no longer `new`, `dead` those with `Died`. So the users whom the pass finds,
a map without locks there, come and go by the rules that the locks give.

## Runs

| Run | Instance | Shows |
|---|---|---|
| `two_users` | 2 users; c1 opens a channel and leaves, c2 sends media; heartbeat | `TypeOK`, `ReaderPinsTeardown`, `LoneSessionListed`, `OnlyTwoDeadlocks`, `GoesOnSteps` |
| `relogin` | 1 user, 2 logins, c1 opens a channel; heartbeat; fair scheduling | `KeepsMembership` (the refinement), `LoginEnds`, `FreezeIsPermanent`, `ExclusiveUpdates` |
| `third_party` | 3 users, one leaves; renegotiation | `StrayNeedsThree`, `TornDownStaysDown` |
| `second_session` | 1 user, 2 logins | violated: `SingleLiveConnection` |
| `departed_tracks` | 2 users, one after the other; renegotiation; fair scheduling | violated: `DepartedLeaveNoTracks` |
| `heartbeat_clock` | 2 s, 20 s, 30 s of time | `TypeOK`, `FailuresAloneSpare` |
| `heartbeat_comment` | the same | violated: `FailingIsMarkedDead` |
| `routing` | 2 users, one speaks and sends requests, the other opens a second data channel; 2 packets, 2 rooms, 2 requests, capacities 2 | `TypeOK`, `BrowserKnowsRoute`, `NoSecondCopy`, `NoMediaUnasked`, `OneMessagePerUser` |
| `room_media` | 1 speaker, 1 room whose list changes | violated: `RoomMediaStaysInRoom` |
| `negotiation` | tracks of 2 users, 4 events (tracks that change, data channels that are opened), 2 jobs; fair scheduling | `TypeOK`, `OneAtATime`, `RestIsNegotiated`, `TracksArrive`, `SilenceEnds`, and `Progress`, on which the proofs of the two rest |
| `missing_tracks` | the same, 3 events | violated: `AllTracksArrive` |
| `track_sync` | 2 users, one of whom may go down and recover; fair scheduling | `TypeOK`, `CrashNeedsOverlap`, `SendersMatchEntries`, `TracksAreSynced`, `KeepsMembership` (the refinement), and `StepsAreTaken`, on which the proof of `TracksAreSynced` rests |

**Bounds.** Two connections are enough for every race between two logins, a
login and a teardown, or a teardown and a ticker; the `RUnlock` in excess needs
three (`StrayNeedsThree` says so for any number), hence `third_party`.
`Openers`, `Leavers`, `Talkers` and `Timers` say who may open a channel, go
down, send, and which tickers run; each run allows what its question needs, and
between them they allow everything. A connection opens one data channel and
stores one room. 30 seconds leave room for a user that fails and
fails again more than 20 seconds later, with and without successes between.
In `relogin` nobody leaves of his own accord: the heartbeat finds a data channel
that has not opened and closes the connection, and its teardown runs.
`departed_tracks` has a `CONSTRAINT`: c1 logs in when c2 is connected. It shows a
violation, which a bound cannot invent. A speaker's first packet only makes the
renegotiation pass start, or the pass of a user who has left is still wanted
(`Init` allows both), so one of two packets is routed, and with a route and two
rooms up to three copies of it meet a buffer of two. Two requests queue up to
two events, and a third finds the queue full; two events are enough for one to
overtake the other. `RoomSymmetry` is sound: `TwoRooms` does not tell the rooms
apart.

Four events in `negotiation` are three changes of the tracks and a data channel, or
two and two, or one change and three channels. Three changes let one come before the
channel opens, one while an offer is pending and one later; a second channel is
what replaces the mutex, and a third leaves messages of two earlier ones under way. A
further channel comes only when the one it replaces has opened. Two jobs are enough
for two goroutines in `renegotiate` at a time; more wait outside (`waiting` is not
bounded by `Jobs`).

In `track_sync` `MaxSenders = 2` keeps a user who loses and regains the
connection from collecting senders without end; it lets the failing path of
`AddAudioTrack` leave a sender behind and a later pass add another. A user who is
still listed when he logs in again needs a third connection: TLC is too slow for
that instance here, the proofs cover it. c1 alone may lose its connection
(`Leavers`); the heartbeat may kill either.

In `routing` the two rooms' lists have the same members. With lists that differ the
instance is too large; that a request is told once however the lists change is the
theorem `EventsAreSingle`.

`CHECK_DEADLOCK FALSE`: the bounded environment runs out of things to do, and
the deadlocks of the code are properties here.

**Fairness** is used by `relogin`, `departed_tracks`, `negotiation`,
`missing_tracks` and `track_sync`. Goroutines that can go on do (`WF`); a
goroutine that can take a lock again and again gets it (`SF`), because Go's
mutexes hand over to a waiter that has starved for a millisecond and an
`RWMutex` lets waiting readers in at each `Unlock`. Of browsers, the network,
requests and tickers nothing is assumed, with these exceptions:

* `Negotiation`: the browser answers an offer it gets on an open channel; a message
  of an earlier channel comes through or is lost. That is
  the protocol of `re_negotiator.go`; the client that speaks it is not in this
  repository (`static/index.html` opens a data channel and no more). Nothing is
  assumed of the opening and closing of channels.
* `TrackSync`: the ticker calls the pass again and again
  (`Start_instant_renegotiator_caller` is an endless loop), and a browser whose track has
  started keeps sending, so that the loop that finds no track asks for a pass.
  The loop skips a user whose signaling state is not stable; that it finds it
  stable in the end is `SilenceEnds`.

## What the runs say about the code

* `second_session`: the check for an existing connection and the publication of
  the new one are separate critical sections, with the ICE gathering between
  them. Two logins of one user at a time are both accepted; `Users` has one of
  them.
* `departed_tracks`: the data-channel goroutine holds the connection's read lock
  until `OutgoingDataChannel` is closed; `close_connection` waits for the lock
  to close it. So the teardown of every connection whose channel was opened
  stops there: its tracks stay with the others, and its entry in
  `UserConnections` stays, too.
* `heartbeat_comment`: the comment says 3 seconds. The
  code has 20, and dates each failure anew, so that repeated failures never
  count (`FailuresAloneSpare`). Since a success clears nothing, a failure after
  one failure and a long good time does count, at once.
* `room_media`: the room check looks for the speaker on the access list instead
  of the receiver, so a room's media goes to everybody in the company.
* `missing_tracks`: the handler of `OnNegotiationNeeded` is set when the data
  channel opens, but the pass adds tracks from the login on. What pion fired
  before was heard by nobody, and `OnOpen` makes no offer of its own. The browser
  gets those tracks only with the next change. With the channel opened before the
  track is added, `TracksArrive` holds.
* `OneAtATime`, `RestIsNegotiated`, `TracksArrive` and `SilenceEnds` all carry the
  condition that `OnOpen` has not run over an unfinished negotiation. Without it
  none is true: the new mutex is unlocked by the old one's holder, which stops the
  process, and an offer that was set while there was no channel is never answered.
* `ExclusiveUpdates` is about the goroutines that range over `Users` with the
  company's lock: there the lock does its work, as long as no `RUnlock` was in excess.
  The audio loop, the pass and the PLI sender range over the same map without it, and
  every insertion and deletion may stop the process under them: that is no property
  but a step of `TrackSync` (`WriteUsers`).
* `CrashNeedsOverlap` holds and names the three ways in which the process ends in
  `TrackSync`: that one; a send to a buffer that was closed after the loop had looked
  it up; and a pass that is at two users of whom one has gone since it came to them.
  These the code has. Dead users who are still listed, half-made entries and what
  somebody left behind before are no danger by themselves.
* `SendersMatchEntries` holds with one exception that it counts: `AddAudioTrack`
  adds a sender before it looks whether the user is still connected, and nobody
  removes it if he is not (`orphans`).
* `BrowserKnowsRoute` excludes the events that a full queue dropped and those that a
  second channel's goroutine overtook (`missed`): the code has both, and a browser
  then goes on showing an old route. What it says is that nothing else makes a
  browser wrong. `NoSecondCopy` accepts what the code does with a user of several rooms, a
  copy for each.
* `TracksAreSynced` holds although the end of a pass forgets requests, because the
  loops repeat them with each packet; and it stops for good at a pinned connection.
* `FreezeIsPermanent`, `OnlyTwoDeadlocks` and `LoginEnds` hold, and describe two
  deadlocks: a broadcast of the online status that meets a login or a teardown
  freezes the company for good, and a connection that is pinned by a reader
  freezes it as soon as the heartbeat wants that connection's lock. There is no
  third: the other nestings of the four kinds of locks (a connection's lock inside
  `UserConnectionsMutex`, the company's inside the process-wide one, a
  connection's inside the company's) form no cycle. `OnlyTwoDeadlocks` says that
  somebody goes on as long as anybody has something to do; `LoginEnds`, that a
  login then gets its turn.

## Proofs

`SessionLifecycleProofs` proves for every set of connections, users and tickers:
`TypeOK`, `ReaderPinsTeardown`, `TornDownStaysDown`, `LoneSessionListed`,
`StrayNeedsThree`, `OnlyTwoDeadlocks` (invariants), `ExclusiveUpdates`, `FreezeIsPermanent` and
`OnlyDeadAreUnlisted` (action properties; the last follows from the refinement as
well, and no run checks it by itself). The assumption is
`ConstantsAssumption`: `Owner` is a function, `Conns` is finite, `None` is
neither a connection nor a user.

The invariants are not inductive. `IInv` (in `SessionInvariant`; the theorem
`Invariant`, which no run needs to check) adds:

* `LabelInv`: labels of different goroutines of a connection agree, e.g. a
  teardown runs only after the orchestrator has started;
* `CompanyLockInv`: a goroutine at a label inside a read section has its token,
  and only one at a label behind an `RLock` may be parked. From it follows that
  a granted writer excludes those that range over `Users` with the lock;
* `CompanyWaitInv`: conversely, every token and the announced writer are those of
  a goroutine at a label inside that section, and readers are parked behind a
  writer only;
* `SenderInv`, `ConnWaitInv`: the same two for the connections' locks. A ranging
  sender has its token, and a token keeps a teardown before `CloseOut`; the writer
  is the connection's teardown or the heartbeat, which kills one at a time;
* `LookInv`: a login that looks into the earlier connection finds it in the map;
* `MapInv`, `LoneInv`: whose connections the two maps hold, and where the lone
  one's are;
* `TrackInv`, `TodoInv`, `DownInv`: what tracks, loops and torn-down connections
  refer to;
* `FiniteInv`: the sets whose sizes are compared are finite.

`OnlyTwoDeadlocks` follows by looking for whom each waits. The writer of a
connection's lock is let in unless a reader is inside (`WaitsForReader`): the leaked
token or a draining sender pin the connection, a sender about to drain goes on
(`ConnWriterWaits`). The writer of the company's lock is let in unless a reader is
inside, which goes on, waits for its second `RLock` (`Frozen`), or is the heartbeat
waiting for a connection (`ReaderGoesOn`, `CompanyWriterWaits`). If nobody waits to
write, nobody is parked, and whoever is in the middle of something can go on or
waits for one of the two mutexes, whose holder can (`OthersGoOn`). The prover
does not treat `ENABLED`, so the theorem is about the conditions of the steps, written
out (`SomebodyGoesOn`); TLC checks that they are enough (`GoesOnSteps`).

`SessionFrames` has one lemma per group of variables, on the actions that change
it, so that the step proofs treat only those.

`SessionRefinement` proves `Spec => KeepsMembership` with the same invariant: of
the steps of `SessionLifecycle`, `AuthInsert` is `Answer`; `CloseDie`, `HbExpire`
and `HbKill` are `Die`; `CloseDelete` and `HbRemove` are `Leave`, because
`DownInv` and `MapInv` say that somebody of this user has died; all others change
nothing of the three. `MembershipProofs` proves what `Membership` promises, and
`AnsweredStayListed` carries it over.

`NegotiationProofs` proves `TypeOK`, `OneAtATime` and `RestIsNegotiated` for any
users, jobs and bounds (`NegotiationAssumption`: `None` is neither a job nor a
set of users). The invariant follows a change of the tracks on its way: when the
state is stable and something is needed, the flag is up or its evaluation queued
(`Queued`); a raised flag has a renegotiation waiting or at work, and a pending
offer has a message on its way or a job about to send it (`UnderWay`). At rest
none of these is left, so nothing is needed and nothing pending. `Exclusive` is
the mutual exclusion, and that the job at work has made the last offer.

It proves `SilenceEnds` and `TracksArrive` as well. The prover has no `ENABLED`, so
the theorems start from `Progress` instead of `Fairness`:

* `StepsAreTaken` says what the fairness conditions come to, with the guards written
  out and the jobs taken together: again and again there is nothing to do, or it is
  done. Nothing is assumed of who is first, or of the order.
* `StaleOnesPass(x)`: while the track of x stays, the messages that were on their way
  without it get through. There are only so many, and counting them is induction over
  data.

TLC checks on `negotiation` that the fairness implies `Progress`; the proofs show
that nothing else is needed, for any users, jobs, changes and reconnections. They go
by stages. A stage lasts until the next one comes (`PendingMoves`, `WantingMoves`,
`FreshMoves`, `KeptMoves`, one step per action), and the step that `Progress` promises
brings it (`PendingHelped`, `FreshHelped`, `OldHelped`):

1. `PendingOffersAreAnswered`: a pending offer is to be sent, at the browser, or
   answered (`UnderWay` says that there is no fourth place).
2. `WantedIsFresh`: when a track is added, a job may be making an offer without it,
   which then may be pending for a while; afterwards every offer has it.
3. `FreshIsOffered`: the evaluation is queued, the flag goes up, the goroutine waits
   for the one inside, enters, and makes an offer. Here `Queued` and `UnderWay` are
   what keeps the chain from breaking.
4. `OfferedIsKept`: an answer makes it current. It may be the answer to an earlier
   offer, one without the track: `AddedTracksAreOffered` is as far as this goes.
5. `AddedTracksArrive`: then the track is needed again, so all from 3. on is gone
   through again, and when no message without the track is left (`ClearMoves`: none
   is sent any more, and those of earlier channels only get fewer), the answer is right
   (`AnswerIsRight`).

`TrackSyncProofs` proves `TypeOK`, `CrashNeedsOverlap` and `SendersMatchEntries`
for any users, connections and re-logins. What the pass will find depends on what
it has seen: for each label of the pass, `SourceStands` and `EntryStands` say what
still holds of the user and the entry as long as nothing of the pair has gone,
`SendersMatchEntries` itself how many senders go with the entry, and `SendersSuffice`
that a teardown removes no sender that is not there. A connection the pass picks is open
(`TargetStands`), because a closed one is never listed (`ClosedAreGone`).

`Refinement` there is `Spec => KeepsMembership`, with `Orderly` (who is being torn
down is dead, who is listed has logged in) besides `Inv`, and `LoggedInStayListed`
carries the promises of `Membership` over.

`TracksGetThere` is `TracksAreSynced`, from `StepsAreTaken`: a pass that is needed
begins (`PassesBegin`), a loop that misses a track asks for one (`Asked`), and a pass
ends or waits for ever at a pinned connection (`PassesEnd`). The last one stands for
counting the users the pass has still to visit, which is induction over data; TLC
checks on `track_sync` that the fairness implies all three. The invariant is
`InHand`: `Renegotiating` is set during a pass only, so that a pass that returns at
once is not the rule; and an entry that has a track but no buffer is the one in the
hand of the pass, so that a pair that lacks a track is seen as such by the loop, and
not skipped by the pass. Of two users who stay, a pass that has begun has the pair
ahead of it (`Ahead`, `PassComes`) until the track is there. A request may be cleared
unheard at the end of a pass: then the pair is `Unasked` again, and the loop asks.

`HeartbeatClockProofs` proves `TypeOK` and `FailuresAloneSpare` for every
period, grace time and bound. Its strengthening says that as long as no send
has succeeded since the first failure, `OfflineSince` is the time of the last
pass.

`MediaRoutingProofs` proves `TypeOK`, `BrowserKnowsRoute`, `NoSecondCopy`
(invariants), `NoMediaUnasked` and `OneMessagePerUser` (action properties) for any
users, rooms, speakers and bounds. The assumption is `RoutingAssumption`: the
bounds are numbers, and `None` is not a user, a room or a set of users. None of
the five is inductive. `Inv` adds, besides the types and where each loop and
handler is (`Places`):

* `WishesKept`, for `NoMediaUnasked`: whom x's flags and rooms direct its audio to
  now, they have directed it to since its packet was read; and the flag the loop
  holds, which may be stale by then, was set at some time since. `ReadRTP` forgets
  older wishes, so a flag is never stale by more than a packet.
* `Copies`, for `NoSecondCopy`: a buffer has a copy of the packet the loop holds
  only for a user the loop has been at, or is at in the room part, and there by
  rooms it has been through. So the buffer being full for the route, which
  makes the loop fall through to the rooms, does no harm.
* `ToldOnce` and `Handled`, for `OneMessagePerUser`: what was queued about the
  request at hand went to those marked as sent to, none of whom is among the
  members of the room that is open, and the numbers of requests only grow. The
  access lists may change at every step: nothing in the argument needs them, but that
  a room which was stored stays so (`AcceptedAreStored`).
* `LastWord`, for `BrowserKnowsRoute`: the flag is what the handler is about to tell,
  or the last event about this route in the queue, or, if there is none, what the
  browser has heard. `Deliver` takes events out of the middle; either an event
  that is not about this route, or the first that is, or the pair is `missed`.

Only model-checked:

* `LoginEnds`: how long a goroutine waits for a mutex depends on who else waits, and
  to count them is induction over data;
* `GoesOnSteps`, which is about `ENABLED`;
* that `FairSpec` implies `Progress` and `StepsAreTaken`: the same two reasons.

Every other property of the passing runs is a theorem. The proofs were made with
TLAPS 1.4.5, with Z3, Zenon and LS4.

## Not modelled, and the plan

Done: the session's life and its locks, and that it implements `Membership`; the
heartbeat's clock; audio routing; the renegotiation pass with its failing paths;
offers and answers; proofs of all their safety properties, and of the liveness of the
last two. Next, in this order:

1. `OutgoingQueue`: the channel that is closed and set to nil under a lock its
   senders do not take;
2. `ServerLocks`: several companies, the monitor's nested read locks, and how a
   freeze spreads by the process-wide mutex.

Not modelled, and why:

* The video forms of requests, loop and pass: line for line those for audio, with
  two differences. The video loop copies the room map before it ranges over it,
  and `AddVideoTrack` does not look at the connection state after `AddTrack`. A
  second set of actions would double the states and say nothing new.
* `route_to`: forwards one message, with no state but the queue's.
* The payload of the online status, and its asynchronous sends.
* Events that are taken from the queue while a new channel is still connecting
  are lost (`server.go:232`): a channel that is not open drops what it is given.
* The picture-loss requests at the end of a renegotiation take the company's lock
  for a moment; they have no state of their own.
* SDP, ICE and codecs (pion), CPU and memory figures, the analytics POST, payload
  formats, logging.
