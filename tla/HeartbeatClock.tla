--------------------------- MODULE HeartbeatClock ---------------------------
(***************************************************************************)
(* The clock of Heartbeat (heartbeat_company_sfu.go): when a user whose    *)
(* data channel is open but refuses "h" is marked dead.  SessionLifecycle  *)
(* leaves the time out and has the locks; here a pass over the one user is *)
(* one step, and the time is in seconds, as Unix() gives it.               *)
(*                                                                         *)
(* The ticker ticks every Period seconds and holds one tick back; a pass   *)
(* may start late, because Heartbeat waits for locks.  Bound: MaxTime.     *)
(***************************************************************************)
EXTENDS Integers

CONSTANTS
    Period,    \* the ticker's period, 2
    Grace,     \* the seconds compared with, 20
    MaxTime    \* bound on the clock

ASSUME ClockAssumption == Period \in Nat \ {0} /\ Grace \in Nat /\ MaxTime \in Nat

Never == -1

VARIABLES
    now,           \* time.Now().Unix(), from the start of the company
    due,           \* a tick waits in ticker.C
    channel,       \* the user's data channel
    listed,        \* the user is in company_sfu.Users
    Died, Offline, OfflineSince,
    failing,       \* history: the first failed send since the last successful one
    steady,        \* history: no send has succeeded since the first failed one
    lastPass,      \* history: the last pass that looked at the user
    longestGap     \* history: the longest time between two such passes

fields  == <<Died, Offline, OfflineSince>>
history == <<failing, steady, lastPass, longestGap>>
vars    == <<now, due, channel, listed, fields, history>>

Init ==
    /\ now = 0 /\ due = FALSE
    /\ channel = "opening" /\ listed = FALSE
    /\ Died = FALSE /\ Offline = FALSE /\ OfflineSince = 0
    /\ failing = Never /\ steady = TRUE /\ lastPass = Never /\ longestGap = 0

Tick ==
    /\ now < MaxTime
    /\ now' = now + 1
    /\ due' = (due \/ now' % Period = 0)
    /\ UNCHANGED <<channel, listed, fields, history>>

\* The login handler lists the user.
List ==
    /\ ~listed /\ ~Died
    /\ listed' = TRUE
    /\ UNCHANGED <<now, due, channel, fields, history>>

\* The browser's data channel opens and closes.
MoveChannel ==
    /\ \/ (channel = "opening" /\ channel' = "open")
       \/ (channel = "open" /\ channel' = "closed")
    /\ UNCHANGED <<now, due, listed, fields, history>>

\* close_connection marks the connection dead as well.
Teardown ==
    /\ listed /\ ~Died
    /\ Died' = TRUE
    /\ UNCHANGED <<now, due, channel, listed, Offline, OfflineSince, history>>

-----------------------------------------------------------------------------
(* Heartbeat: a look at the user, and the removal of the dead after it.     *)

Pass ==
    /\ due /\ listed
    /\ due' = FALSE
    /\ lastPass' = now
    /\ longestGap' = IF lastPass # Never /\ now - lastPass > longestGap
                     THEN now - lastPass ELSE longestGap
    /\ listed' = ~Died'
    /\ channel' = IF Died' THEN "closed" ELSE channel
    /\ UNCHANGED now

\* No user to look at.
HeartbeatEmpty ==
    /\ due /\ ~listed
    /\ due' = FALSE
    /\ UNCHANGED <<now, channel, listed, fields, history>>

\* Dead already.
HeartbeatDead ==
    /\ Died
    /\ UNCHANGED <<fields, failing, steady>>
    /\ Pass

\* "h" goes out.  Offline and OfflineSince stay as they are.
HeartbeatSent ==
    /\ ~Died /\ channel = "open"
    /\ UNCHANGED fields
    /\ failing' = Never
    /\ steady' = (steady /\ ~Offline)
    /\ Pass

\* (Mutant: only the first failure sets OfflineSince.)
HeartbeatFailedKeeping ==
    /\ ~Died /\ channel = "open"
    /\ Died' = (Offline /\ now - OfflineSince > Grace)
    /\ Offline' = TRUE
    /\ OfflineSince' = IF Offline THEN OfflineSince ELSE now
    /\ failing' = IF failing = Never THEN now ELSE failing
    /\ UNCHANGED steady
    /\ Pass

\* (Mutant: OfflineSince is in milliseconds.)
HeartbeatFailedMillis ==
    /\ ~Died /\ channel = "open"
    /\ Died' = (Offline /\ now - OfflineSince > Grace)
    /\ Offline' = TRUE /\ OfflineSince' = 1000 * now
    /\ failing' = IF failing = Never THEN now ELSE failing
    /\ UNCHANGED steady
    /\ Pass

\* SendText fails.  Every failure sets OfflineSince again.
HeartbeatFailed ==
    /\ ~Died /\ channel = "open"
    /\ Died' = (Offline /\ now - OfflineSince > Grace)
    /\ Offline' = TRUE /\ OfflineSince' = now
    /\ failing' = IF failing = Never THEN now ELSE failing
    /\ UNCHANGED steady
    /\ Pass

\* No open data channel: dead at once, also when it has not opened yet.
HeartbeatNoChannel ==
    /\ ~Died /\ channel # "open"
    /\ Died' = TRUE
    /\ UNCHANGED <<Offline, OfflineSince, failing, steady>>
    /\ Pass

Heartbeat ==
    \/ HeartbeatEmpty \/ HeartbeatDead \/ HeartbeatSent
    \/ HeartbeatFailed \/ HeartbeatNoChannel

Next == Tick \/ List \/ MoveChannel \/ Teardown \/ Heartbeat

Spec == Init /\ [][Next]_vars

-----------------------------------------------------------------------------
(* Properties.                                                              *)

\* The values the variables range over; nothing is dated in the future.
TypeOK ==
    /\ now \in 0 .. MaxTime
    /\ due \in BOOLEAN /\ listed \in BOOLEAN
    /\ channel \in {"opening", "open", "closed"}
    /\ Died \in BOOLEAN /\ Offline \in BOOLEAN /\ steady \in BOOLEAN
    /\ OfflineSince \in 0 .. now
    /\ failing \in {Never} \cup 0 .. now
    /\ lastPass \in {Never} \cup 0 .. now
    /\ longestGap \in 0 .. now

\* A pass marks the user dead, although its data channel is open.
Expires == due /\ ~due' /\ ~Died /\ Died' /\ channel = "open"

\* A user whose heartbeat fails time and again is not removed for it, however
\* long that lasts: as OfflineSince is set by every failure, the comparison
\* succeeds only if Heartbeat itself did not run for more than Grace seconds.
FailuresAloneSpare == [][Expires /\ steady => longestGap' > Grace]_vars

\* heartbeat_company_sfu.go:57, "the heartbeat has failed for more than 3
\* seconds, we mark the user as dead".
FailingIsMarkedDead ==
    [][due /\ ~due' /\ ~Died /\ failing' # Never /\ now - failing' > 3 => Died']_vars

=============================================================================
