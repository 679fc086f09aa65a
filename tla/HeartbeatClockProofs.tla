------------------------ MODULE HeartbeatClockProofs ------------------------
(***************************************************************************)
(* HeartbeatClock for every period, grace period and bound on the time.    *)
(***************************************************************************)
EXTENDS HeartbeatClock, TLAPS

\* While no send has succeeded since the first failure, OfflineSince is the
\* time of the last pass.
SinceInv == Offline /\ steady /\ ~Died => OfflineSince = lastPass /\ lastPass # Never

HInv == TypeOK /\ SinceInv

\* A user that is not listed yet is not offline.
LEMMA HInit == ASSUME Init PROVE HInv
<1>1. SinceInv
  BY DEF Init, SinceInv
<1>2. due \in BOOLEAN /\ listed \in BOOLEAN /\ Died \in BOOLEAN /\ Offline \in BOOLEAN
      /\ steady \in BOOLEAN
  BY DEF Init
<1>3. /\ now \in 0 .. MaxTime /\ channel \in {"opening", "open", "closed"}
      /\ OfflineSince \in 0 .. now /\ failing \in {Never} \cup 0 .. now
      /\ lastPass \in {Never} \cup 0 .. now /\ longestGap \in 0 .. now
  BY ClockAssumption DEF Init
<1> QED BY <1>1, <1>2, <1>3 DEF HInv, TypeOK

\* A pass dates itself and measures the time since the one before.
LEMMA PassTimes ==
  ASSUME TypeOK, Pass
  PROVE  /\ now' = now /\ lastPass' = now /\ longestGap' \in 0 .. now
         /\ lastPass # Never => now - lastPass <= longestGap'
  BY ClockAssumption DEF TypeOK, Pass, Never

\* Every step keeps the types, and OfflineSince in step with the passes.
LEMMA HNext == ASSUME HInv, Next PROVE HInv'
<1> USE ClockAssumption DEF HInv, TypeOK, SinceInv, fields, history
<1>1. CASE Tick
  <2>1. due' \in BOOLEAN
    BY <1>1 DEF Tick
  <2>2. now' = now + 1 /\ now' <= MaxTime
    BY <1>1 DEF Tick
  <2>3. UNCHANGED <<channel, listed, fields, history>>
    BY <1>1 DEF Tick
  <2> QED BY <2>1, <2>2, <2>3
<1>2. CASE List
  <2>1. listed' \in BOOLEAN
    BY <1>2 DEF List
  <2>2. UNCHANGED <<now, due, channel, fields, history>>
    BY <1>2 DEF List
  <2> QED BY <2>1, <2>2
<1>3. CASE MoveChannel
  BY <1>3 DEF MoveChannel
<1>4. CASE Teardown
  <2>1. Died' \in BOOLEAN /\ Died'
    BY <1>4 DEF Teardown
  <2>2. UNCHANGED <<now, due, channel, listed, Offline, OfflineSince, history>>
    BY <1>4 DEF Teardown
  <2> QED BY <2>1, <2>2
<1>5. CASE HeartbeatEmpty
  BY <1>5 DEF HeartbeatEmpty
<1>6. ASSUME Pass, Died' \in BOOLEAN
      PROVE  /\ now' = now /\ lastPass' = now /\ longestGap' \in 0 .. now
             /\ due' \in BOOLEAN /\ listed' \in BOOLEAN
             /\ channel' \in {"opening", "open", "closed"}
  BY <1>6, PassTimes DEF Pass
<1>7. CASE HeartbeatDead
  BY <1>6, <1>7 DEF HeartbeatDead
<1>8. CASE HeartbeatSent
  BY <1>6, <1>8 DEF HeartbeatSent
<1>9. CASE HeartbeatFailed
  BY <1>6, <1>9 DEF HeartbeatFailed, Never
<1>10. CASE HeartbeatNoChannel
  BY <1>6, <1>10 DEF HeartbeatNoChannel
<1> QED BY <1>1, <1>2, <1>3, <1>4, <1>5, <1>7, <1>8, <1>9, <1>10 DEF Next, Heartbeat

\* The invariant above holds in every run.
THEOREM HeartbeatInvariant == Spec => []HInv
<1>1. HInv /\ UNCHANGED vars => HInv'
  BY DEF HInv, TypeOK, SinceInv, vars, fields, history
<1> QED BY <1>1, HInit, HNext, PTL DEF Spec

\* The clock's variables keep their types, and nothing is dated in the future.
THEOREM HeartbeatTypes == Spec => []TypeOK
<1>1. HInv => TypeOK
  BY DEF HInv
<1> QED BY <1>1, HeartbeatInvariant, PTL

\* Failed heartbeats alone never get a user with an open data channel removed:
\* Heartbeat itself must have been away for more than Grace seconds.
THEOREM FailuresNeedAGap == Spec => FailuresAloneSpare
<1>1. ASSUME HInv, Next, Expires, steady PROVE longestGap' > Grace
  <2>1. HeartbeatFailed
    BY <1>1 DEF Expires, Next, Heartbeat, Tick, List, MoveChannel, Teardown, HeartbeatEmpty,
         HeartbeatDead, HeartbeatSent, HeartbeatNoChannel, fields
  <2>2. Offline /\ now - OfflineSince > Grace /\ Pass
    BY <1>1, <2>1 DEF Expires, HeartbeatFailed
  <2>3. OfflineSince = lastPass /\ lastPass # Never
    BY <1>1, <2>2 DEF HInv, SinceInv, Expires
  <2>4. now - lastPass <= longestGap' /\ longestGap' \in Int /\ lastPass \in Int /\ now \in Int
    BY <1>1, <2>2, <2>3, PassTimes DEF HInv, TypeOK
  <2> QED BY <2>2, <2>3, <2>4, ClockAssumption
<1>2. HInv /\ [Next]_vars => [Expires /\ steady => longestGap' > Grace]_vars
  BY <1>1
<1> QED BY <1>2, HeartbeatInvariant, PTL DEF Spec, FailuresAloneSpare

=============================================================================
