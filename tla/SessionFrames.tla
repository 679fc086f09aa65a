---------------------------- MODULE SessionFrames ----------------------------
(***************************************************************************)
(* What the steps of SessionLifecycle touch: where the goroutines go,      *)
(* and which actions change which variables.                               *)
(***************************************************************************)
EXTENDS SessionInvariant, TLAPS

(* Where the goroutines go.                                                 *)

TornDown == {c \in Conns : at.closer[c] \notin {"none", "die"}}

Deleted == {c \in Conns : at.closer[c] \in PastDelete}

\* A step keeps the labels well formed, the four sets only grow, each by one
\* action, and the loop of close_connection is left at its end.
LabelsMove ==
    /\ at' \in Labels /\ LabelInv'
    /\ Published \subseteq Published' /\ \A c \in Published' \ Published : AuthPublish(c)
    /\ Answered \subseteq Answered' /\ \A c \in Answered' \ Answered : AuthInsert(c)
    /\ TornDown \subseteq TornDown' /\ \A c \in TornDown' \ TornDown : CloseDie(c)
    /\ Deleted \subseteq Deleted' /\ \A c \in Deleted' \ Deleted : CloseDelete(c)
    /\ \A c \in Conns : (at.closer[c] = "sweep" => (at'.closer[c] = "sweep" \/ CloseReturn(c)))
    /\ \A c \in Conns : (at'.auth[c] = "looking" => (at.auth[c] = "looking" \/ AuthLook(c)))

\* Every goroutine of the login, teardown and heartbeat code goes from one of
\* its labels to another, and the sets above only grow.
LEMMA LabelsStep ==
  ASSUME at \in Labels, LabelInv, Next
  PROVE  LabelsMove
<1> USE DEF Labels, LabelsMove, LabelInv, TornDown, Deleted, PastDelete, PastOut, Answered, Published
<1>1. ASSUME NEW c \in Conns, AuthBegin(c) \/ AuthStep(c) PROVE LabelsMove
  <2> USE DEF Step, AuthLabels
  <2>1. CASE AuthBegin(c)
    BY <2>1 DEF AuthBegin
  <2>2. CASE AuthLook(c) \/ AuthCheckExisting(c) \/ AuthCreateAnswer(c)
    <3>1. PICK k \in {"checking", "looking", "answer"},
               l \in {"create", "looking", "refused", "publish", "failed"} :
             /\ at.auth[c] = k /\ at' = [at EXCEPT !.auth[c] = l]
             /\ l = "looking" => AuthLook(c)
      BY <2>2 DEF AuthLook, AuthCheckExisting, AuthCreateAnswer
    <3>2. at' \in Labels
      BY <3>1
    <3>3. at'.auth = [at.auth EXCEPT ![c] = l] /\ at'.orch = at.orch /\ at'.closer = at.closer
      BY <3>1
    <3> HIDE DEF Labels
    <3>4. at.auth \in [Conns -> AuthLabels]
      BY DEF Labels
    <3>5. /\ k \notin {"register", "insert", "inserting", "done"}
          /\ \A d \in Conns : d # c => at'.auth[d] = at.auth[d]
          /\ at.auth[c] = k /\ at'.auth[c] = l
      BY <3>1, <3>3, <3>4
    <3>6. LabelInv'
      BY <3>3, <3>5
    <3>7. Published' = Published /\ Answered' = Answered
      BY <3>1, <3>5
    <3>8. TornDown' = TornDown /\ Deleted' = Deleted /\ at'.closer = at.closer
      BY <3>3
    <3>9. \A d \in Conns : at'.auth[d] = "looking" => at.auth[d] = "looking" \/ AuthLook(d)
      BY <3>1, <3>5
    <3> HIDE DEF LabelInv, Published, Answered, TornDown, Deleted
    <3> QED BY <3>2, <3>6, <3>7, <3>8, <3>9
  <2>3. CASE AuthCreateCompany(c) \/ AuthPublish(c)
    BY <2>3 DEF AuthCreateCompany, AuthPublish
  <2>4. CASE AuthRoomGlobal(c) \/ AuthRoomLock(c)
    BY <2>4 DEF AuthRoomGlobal, AuthRoomLock
  <2>5. CASE AuthRoomsDone(c)
    <3>1. at' = [at EXCEPT !.auth[c] = "register", !.orch[c] = "started"]
          /\ at.auth[c] \in {"rooms", "storing"}
      BY <2>5 DEF AuthRoomsDone, StartOrchestrator
    <3>2. at' \in Labels
      BY <3>1
    <3>3. /\ at'.auth = [at.auth EXCEPT ![c] = "register"]
          /\ at'.orch = [at.orch EXCEPT ![c] = "started"]
          /\ at'.closer = at.closer
      BY <3>1
    <3> HIDE DEF Labels
    <3>4. at.auth \in [Conns -> AuthLabels] /\ DOMAIN at.orch = Conns
      BY DEF Labels
    <3> QED BY <3>1, <3>2, <3>3, <3>4
  <2>6. CASE AuthRegister(c) \/ AuthInsertLock(c) \/ AuthInsert(c)
    BY <2>6 DEF AuthRegister, AuthInsertLock, AuthInsert
  <2> QED BY <1>1, <2>1, <2>2, <2>3, <2>4, <2>5, <2>6 DEF AuthStep
<1>2. ASSUME NEW c \in Conns, PeerStep(c) \/ OrchStep(c) PROVE LabelsMove
  <2> USE DEF Step, CloserLabels
  <2>1. CASE PeerDown(c)
    <3>1. \/ at' = at
          \/ (at.orch[c] = "registered" /\ at' = [at EXCEPT !.closer[c] = CloseDone(c)])
      BY <2>1 DEF PeerDown
    <3> QED BY <3>1 DEF CloseDone
  <2>2. CASE OrchCheck(c)
    <3>1. \E l \in {"die", at.closer[c]} :
             /\ l # at.closer[c] => at.closer[c] = "none"
             /\ at' = [at EXCEPT !.orch[c] = "checked", !.closer[c] = l]
             /\ at.orch[c] = "started"
             /\ l \in CloserLabels
      BY <2>2 DEF OrchCheck, CloseDone
    <3> DEFINE a == [at EXCEPT !.orch[c] = "checked"]
    <3>2. a \in Labels
      OBVIOUS
    <3>3. \A l \in CloserLabels : [a EXCEPT !.closer[c] = l] \in Labels
      <4> HIDE DEF a, LabelInv, Published, TornDown, Deleted, Answered
      <4> QED BY <3>2
    <3>4. at' \in Labels
      <4>1. \E l \in CloserLabels : at' = [a EXCEPT !.closer[c] = l]
        BY <3>1
      <4> HIDE DEF a, Labels, LabelInv
      <4> QED BY <3>3, <4>1
    <3>5. LabelInv'
      BY <3>1
    <3>6. /\ at'.auth = at.auth
          /\ \A d \in Conns : \/ at'.closer[d] = at.closer[d]
                             \/ (at.closer[d] = "none" /\ at'.closer[d] = "die")
      <4>1. PICK l \in {"die", at.closer[c]} :
               /\ l # at.closer[c] => at.closer[c] = "none"
               /\ at' = [at EXCEPT !.orch[c] = "checked", !.closer[c] = l]
        BY <3>1
      <4>2. at'.auth = at.auth /\ at'.closer = [at.closer EXCEPT ![c] = l]
        BY <4>1
      <4>3. at.closer \in [Conns -> CloserLabels]
        OBVIOUS
      <4> HIDE DEF Labels, LabelInv
      <4> QED BY <4>1, <4>2, <4>3
    <3> HIDE DEF Labels, LabelInv
    <3> QED BY <3>4, <3>5, <3>6
  <2>3. CASE Connect(c) \/ CloseChannel(c)
    BY <2>3 DEF Connect, CloseChannel
  <2>4. CASE OpenChannel(c)
    BY <2>4 DEF OpenChannel
  <2>5. CASE OrchRegister(c)
    BY <2>5 DEF OrchRegister
  <2>6. CASE SenderLock(c) \/ SenderRange(c)
    BY <2>6 DEF SenderLock, SenderRange
  <2> QED BY <1>2, <2>1, <2>2, <2>3, <2>4, <2>5, <2>6 DEF PeerStep, OrchStep
<1>3. ASSUME NEW x \in Conns \cup {None}, StatusOuter(x) \/ StatusStep(x) PROVE LabelsMove
  BY <1>3 DEF StatusOuter, StatusStep, StatusInner, StatusEnd, Step
<1>4. ASSUME NEW c \in Conns, CloserStep(c) PROVE LabelsMove
  <2> USE DEF Step, CloserLabels
  <2>1. CASE StatusInner("closer", c) \/ StatusEnd("closer", c, "delete")
    BY <2>1 DEF StatusInner, StatusEnd
  <2>2. CASE CloseDie(c) \/ CloseDeleteLock(c) \/ CloseDelete(c)
    BY <2>2 DEF CloseDie, CloseDeleteLock, CloseDelete
  <2>6. CASE CloseClear(c) \/ CloseStatus(c)
    BY <2>6 DEF CloseClear, CloseStatus
  <2>3. CASE CloseOutLock(c) \/ CloseOut(c) \/ CloseScan(c)
    BY <2>3 DEF CloseOutLock, CloseOut, CloseScan
  <2>4. CASE CloseList(c) \/ CloseReturn(c) \/ CloseForget(c)
    BY <2>4 DEF CloseList, CloseReturn, CloseForget
  <2>5. CASE \E d \in Conns : CloseSweep(c, d)
    BY <2>5 DEF CloseSweep
  <2> QED BY <1>4, <2>1, <2>2, <2>3, <2>4, <2>5, <2>6 DEF CloserStep
<1>6. ASSUME NEW c \in Conns, NEW d \in Conns, MediaLeak(c, d) PROVE LabelsMove
  BY <1>6 DEF MediaLeak
<1>7. CASE SyncStep
  BY <1>7 DEF SyncStep, SyncUser, SyncPick, SyncStore, SyncLeave
<1>5. CASE HbStart \/ HbStep
  <2> USE DEF Step
  <2>1. CASE HbStart \/ HbList
    BY <2>1 DEF HbStart, HbList
  <2>2. CASE HbRelease \/ HbRemoveLock
    BY <2>2 DEF HbRelease, HbRemoveLock
  <2>3. ASSUME NEW c \in Conns, HbPass(c) \/ HbExpire(c) \/ HbKillLock(c) \/ HbKill(c)
        PROVE  LabelsMove
    BY <2>3 DEF HbPass, HbExpire, HbKillLock, HbKill
  <2>4. CASE HbRemove
    <3> DEFINE dead == {e \in Listed : Died[e]}
               told == {e \in dead : pc[e] # "closed" /\ at.orch[e] = "registered"}
               f == [e \in Conns |-> IF e \in told THEN CloseDone(e) ELSE at.closer[e]]
    <3>1. at' = [at EXCEPT !.hb[None] = "idle", !.closer = f]
      BY <2>4 DEF HbRemove
    <3>2. \A e \in Conns :
             \/ f[e] = at.closer[e]
             \/ (f[e] = "die" /\ at.closer[e] = "none" /\ at.orch[e] = "registered")
      BY DEF CloseDone, CloserLabels
    <3>3. f \in [Conns -> CloserLabels]
      BY <3>2 DEF CloserLabels
    <3> HIDE DEF f
    <3>4. at' \in Labels
      BY <3>1, <3>3
    <3>5. at'.auth = at.auth /\ at'.orch = at.orch /\ at'.closer = f
      BY <3>1
    <3> HIDE DEF Labels
    <3> QED BY <3>2, <3>4, <3>5
  <2> QED BY <1>5, <2>1, <2>2, <2>3, <2>4 DEF HbStep
<1> QED BY <1>1, <1>2, <1>3, <1>4, <1>5, <1>6, <1>7 DEF Next, Environment, Goroutines

-----------------------------------------------------------------------------
(* Which actions change which variables.                                    *)

\* Users and UserConnections are written at six places of the code.
LEMMA MapsChange ==
  ASSUME Next
  PROVE  \/ UNCHANGED maps
         \/ \E c \in Conns : AuthPublish(c) \/ AuthInsert(c) \/ CloseDelete(c) \/ CloseForget(c)
         \/ HbRemove
  BY ZenonT(60) DEF Next, Environment, Goroutines, AuthStep, PeerStep, OrchStep, CloserStep,
         HbStep, StatusStep, SyncStep, maps, AuthBegin, AuthLook, AuthCheckExisting,
         AuthCreateCompany, AuthCreateAnswer, AuthRoomGlobal, AuthRoomLock,
         AuthRoomsDone, AuthRegister, AuthInsertLock, Connect, PeerDown, OpenChannel,
         CloseChannel, OrchCheck, OrchRegister, SenderLock, SenderRange, SyncUser,
         SyncPick, SyncStore, SyncLeave, MediaLeak, StatusOuter, StatusInner, StatusEnd,
         CloseDie, CloseClear, CloseStatus, CloseDeleteLock, CloseOutLock, CloseOut,
         CloseScan, CloseList, CloseReturn, CloseSweep, HbStart, HbList, HbPass,
         HbExpire, HbKillLock, HbKill, HbRelease, HbRemoveLock

\* Died and MemberTracks are written at seven places of the code.
LEMMA TracksChange ==
  ASSUME Next
  PROVE  \/ UNCHANGED <<Died, MemberTracks>>
         \/ \E c \in Conns : \/ AuthPublish(c) \/ CloseDie(c) \/ CloseClear(c)
                             \/ HbExpire(c) \/ HbKill(c) \/ \E d \in Conns : CloseSweep(c, d)
         \/ SyncStore
  BY ZenonT(60) DEF Next, Environment, Goroutines, AuthStep, PeerStep, OrchStep, CloserStep,
         HbStep, StatusStep, SyncStep, peers, AuthBegin, AuthLook, AuthCheckExisting,
         AuthCreateCompany, AuthCreateAnswer, AuthRoomGlobal, AuthRoomLock,
         AuthRoomsDone, AuthRegister, AuthInsertLock, AuthInsert, Connect, PeerDown,
         OpenChannel, CloseChannel, OrchCheck, OrchRegister, SenderLock, SenderRange,
         SyncUser, SyncPick, SyncLeave, MediaLeak, StatusOuter, StatusInner, StatusEnd,
         CloseStatus, CloseDeleteLock, CloseDelete, CloseOutLock, CloseOut, CloseScan,
         CloseList, CloseReturn, CloseForget, HbStart, HbList, HbPass, HbKillLock,
         HbRelease, HbRemoveLock, HbRemove

\* The states of the peer connection and the data channel change by the network,
\* the browser and the heartbeat's Close only.
LEMMA PeersChange ==
  ASSUME Next
  PROVE  \/ UNCHANGED <<pc, dc>>
         \/ \E c \in Conns : Connect(c) \/ PeerDown(c) \/ OpenChannel(c) \/ CloseChannel(c)
         \/ HbRemove
  BY ZenonT(60) DEF Next, Environment, Goroutines, AuthStep, PeerStep, OrchStep, CloserStep,
         HbStep, StatusStep, SyncStep, peers, AuthBegin, AuthLook, AuthCheckExisting,
         AuthCreateCompany, AuthCreateAnswer, AuthPublish, AuthRoomGlobal, AuthRoomLock,
         AuthRoomsDone, AuthRegister, AuthInsertLock, AuthInsert, OrchCheck,
         OrchRegister, SenderLock, SenderRange, SyncUser, SyncPick, SyncStore,
         SyncLeave, MediaLeak, StatusOuter, StatusInner, StatusEnd, CloseDie,
         CloseClear, CloseStatus, CloseDeleteLock, CloseDelete, CloseOutLock, CloseOut,
         CloseScan, CloseList, CloseReturn, CloseSweep, CloseForget, HbStart, HbList,
         HbPass, HbExpire, HbKillLock, HbKill, HbRelease, HbRemoveLock

\* The loops over the listed connections advance in the teardown, the heartbeat
\* and the renegotiation pass only.
LEMMA TodoChange ==
  ASSUME Next
  PROVE  \/ UNCHANGED todo
         \/ \E c \in Conns : \/ CloseList(c) \/ HbPass(c) \/ HbExpire(c) \/ HbKill(c)
                             \/ SyncUser(c) \/ SyncPick(c) \/ \E d \in Conns : CloseSweep(c, d)
         \/ HbList \/ SyncStore \/ SyncLeave
  BY ZenonT(60) DEF Next, Environment, Goroutines, AuthStep, PeerStep, OrchStep, CloserStep,
         HbStep, StatusStep, SyncStep, AuthBegin, AuthLook, AuthCheckExisting,
         AuthCreateCompany, AuthCreateAnswer, AuthPublish, AuthRoomGlobal, AuthRoomLock,
         AuthRoomsDone, AuthRegister, AuthInsertLock, AuthInsert, Connect, PeerDown,
         OpenChannel, CloseChannel, OrchCheck, OrchRegister, SenderLock, SenderRange,
         MediaLeak, StatusOuter, StatusInner, StatusEnd, CloseDie, CloseClear,
         CloseStatus, CloseDeleteLock, CloseDelete, CloseOutLock, CloseOut, CloseScan,
         CloseReturn, CloseForget, HbStart, HbKillLock, HbRelease, HbRemoveLock,
         HbRemove

\* FullConnectionDetailsRWLock and OutgoingDataChannel change in the
\* data-channel goroutine, the media loops, the teardown and the heartbeat's kill.
LEMMA ConnMuChange ==
  ASSUME Next
  PROVE  \/ UNCHANGED <<connMu, out>>
         \/ \E c \in Conns : \/ SenderLock(c) \/ CloseOutLock(c) \/ CloseOut(c)
                             \/ HbKillLock(c) \/ HbKill(c) \/ \E d \in Conns : MediaLeak(c, d)
  BY ZenonT(60) DEF Next, Environment, Goroutines, AuthStep, PeerStep, OrchStep, CloserStep,
         HbStep, StatusStep, SyncStep, peers, locks, TakeRead, DropRead, TakeWrite,
         DropWrite, AuthBegin, AuthLook, AuthCheckExisting, AuthCreateCompany,
         AuthCreateAnswer, AuthPublish, AuthRoomGlobal, AuthRoomLock, AuthRoomsDone,
         AuthRegister, AuthInsertLock, AuthInsert, Connect, PeerDown, OpenChannel,
         CloseChannel, OrchCheck, OrchRegister, SenderRange, SyncUser, SyncPick,
         SyncStore, SyncLeave, StatusOuter, StatusInner, StatusEnd, CloseDie,
         CloseClear, CloseStatus, CloseDeleteLock, CloseDelete, CloseScan, CloseList,
         CloseReturn, CloseSweep, CloseForget, HbStart, HbList, HbPass, HbExpire,
         HbRelease, HbRemoveLock, HbRemove

\* An RUnlock of somebody who is inside.
Leave(r, x, is) ==
    DropRead(r, x, is) /\ \A i \in is : <<r, x, i>> \notin companyMu.parked

\* A call of goroutine <<r, x>> on the company's lock.
LockCall(r, x) ==
    \/ (TakeWrite(r, x) /\ r # "status")
    \/ DropWrite(r, x)
    \/ \E i \in {"outer", "inner"} : (TakeRead(r, x, i) /\ r # "auth")
    \/ Leave(r, x, {"outer"}) \/ Leave(r, x, {"outer", "inner"})

CompanyMuMove ==
    \/ UNCHANGED <<companyMu, crashed>>
    \/ \E r \in {"auth", "closer", "status", "hb"}, x \in Conns \cup {None} : LockCall(r, x)
    \/ \E c, d \in Conns : CloseSweep(c, d)

\* Every use of the company's lock is one of the calls above or the stray RUnlock
\* of the teardown's loop; the RUnlock calls are made by readers that are inside.
LEMMA CompanyMuChange == ASSUME CompanyLockInv, Next PROVE CompanyMuMove
<1>1. ASSUME NEW c \in Conns, StatusEnd("closer", c, "delete") PROVE CompanyMuMove
  <2>1. Leave("closer", c, {"outer", "inner"})
    BY <1>1 DEF StatusEnd, Leave, CompanyLockInv, Step, HasRead, Reading, Inside
  <2> QED BY <2>1 DEF CompanyMuMove, LockCall
<1>2. ASSUME NEW x \in Conns \cup {None}, StatusEnd("status", x, "idle") PROVE CompanyMuMove
  <2>1. Leave("status", x, {"outer", "inner"})
    BY <1>2 DEF StatusEnd, Leave, CompanyLockInv, Step, HasRead, Reading, Inside
  <2> QED BY <2>1 DEF CompanyMuMove, LockCall
<1>3. ASSUME NEW c \in Conns, CloseReturn(c) PROVE CompanyMuMove
  <2>1. Leave("closer", c, {"outer"})
    BY <1>3 DEF CloseReturn, Leave, CompanyLockInv, Step
  <2> QED BY <2>1 DEF CompanyMuMove, LockCall
<1>4. ASSUME HbRelease PROVE CompanyMuMove
  <2>1. Leave("hb", None, {"outer"})
    BY <1>4 DEF HbRelease, Leave, CompanyLockInv, Step
  <2> QED BY <2>1 DEF CompanyMuMove, LockCall
<1> QED
  BY <1>1, <1>2, <1>3, <1>4, ZenonT(60) DEF Next, Environment, Goroutines, AuthStep,
         PeerStep, OrchStep, CloserStep, HbStep, StatusStep, SyncStep, CompanyMuMove, LockCall, locks, AuthBegin,
         AuthLook, AuthCheckExisting, AuthCreateCompany, AuthCreateAnswer, AuthPublish,
         AuthRoomGlobal, AuthRoomLock, AuthRoomsDone, AuthRegister, AuthInsertLock,
         AuthInsert, Connect, PeerDown, OpenChannel, CloseChannel, OrchCheck,
         OrchRegister, SenderLock, SenderRange, SyncUser, SyncPick, SyncStore,
         SyncLeave, MediaLeak, StatusOuter, StatusInner, CloseDie, CloseClear,
         CloseStatus, CloseDeleteLock, CloseDelete, CloseOutLock, CloseOut, CloseScan,
         CloseList, CloseForget, HbStart, HbList, HbPass, HbExpire, HbKillLock, HbKill,
         HbRemoveLock, HbRemove

\* The steps of the goroutines that stay inside FullConnectionDetailsRWLock or
\* write under it.
ConnMuUse(c) ==
    OpenChannel(c) \/ SenderLock(c) \/ SenderRange(c) \/ CloseOutLock(c) \/ CloseOut(c)
    \/ HbKillLock(c) \/ HbKill(c)

\* No other step moves the data-channel goroutine, takes a teardown to the close of
\* OutgoingDataChannel or past it, or the heartbeat to or from its kill.
NoConnMuUse ==
    /\ at'.sender = at.sender
    /\ \A c \in Conns : /\ at'.closer[c] \in PastOut <=> at.closer[c] \in PastOut
                        /\ at'.closer[c] = "closing" <=> at.closer[c] = "closing"
    /\ at'.hb[None] = "killing" <=> at.hb[None] = "killing"

LEMMA ConnMuUsers ==
  ASSUME at \in Labels, Next
  PROVE  NoConnMuUse \/ \E c \in Conns : ConnMuUse(c)
<1> USE DEF Labels, Step, NoConnMuUse
<1>1. ASSUME NEW c \in Conns, AuthBegin(c) \/ AuthStep(c) PROVE NoConnMuUse
  <2>1. CASE AuthLook(c) \/ AuthCheckExisting(c) \/ AuthCreateAnswer(c)
    <3>1. \E k, l \in {"create", "looking", "refused", "publish", "failed", "checking", "answer"} :
             Step("auth", c, k, l)
      BY <2>1 DEF AuthLook, AuthCheckExisting, AuthCreateAnswer
    <3> QED BY <3>1
  <2>2. CASE AuthRoomsDone(c)
    <3>1. at' = [at EXCEPT !.auth[c] = "register", !.orch[c] = "started"]
      BY <2>2 DEF AuthRoomsDone, StartOrchestrator
    <3> QED BY <3>1
  <2>3. CASE ~(AuthLook(c) \/ AuthCheckExisting(c) \/ AuthCreateAnswer(c) \/ AuthRoomsDone(c))
    <3>1. \E k, l \in AuthLabels : Step("auth", c, k, l)
      BY <1>1, <2>3 DEF AuthStep, AuthBegin, AuthCreateCompany, AuthPublish, AuthRoomGlobal,
           AuthRoomLock, AuthRegister, AuthInsertLock, AuthInsert, AuthLabels
    <3> QED BY <3>1
  <2> QED BY <2>1, <2>2, <2>3
<1>2. ASSUME NEW c \in Conns, PeerStep(c) \/ OrchStep(c), ~ConnMuUse(c) PROVE NoConnMuUse
  <2>1. CASE PeerDown(c)
    <3>1. at' = at \/ at' = [at EXCEPT !.closer[c] = CloseDone(c)]
      BY <2>1 DEF PeerDown
    <3> QED BY <3>1 DEF CloseDone, PastOut
  <2>2. CASE OrchCheck(c)
    <3>1. \E l \in {"die", at.closer[c]} :
             /\ at' = [at EXCEPT !.orch[c] = "checked", !.closer[c] = l]
             /\ l # at.closer[c] => at.closer[c] = "none"
      BY <2>2 DEF OrchCheck, CloseDone
    <3> QED BY <3>1 DEF PastOut
  <2>3. CASE Connect(c) \/ CloseChannel(c)
    BY <2>3 DEF Connect, CloseChannel
  <2>4. CASE OrchRegister(c)
    BY <2>4 DEF OrchRegister
  <2> QED BY <1>2, <2>1, <2>2, <2>3, <2>4 DEF PeerStep, OrchStep, ConnMuUse
<1>3. ASSUME NEW x \in Conns \cup {None}, StatusOuter(x) \/ StatusStep(x) PROVE NoConnMuUse
  BY <1>3 DEF StatusOuter, StatusStep, StatusInner, StatusEnd
<1>4. ASSUME NEW c \in Conns, CloserStep(c), ~ConnMuUse(c) PROVE NoConnMuUse
  <2>1. CASE StatusInner("closer", c) \/ StatusEnd("closer", c, "delete")
    BY <2>1 DEF StatusInner, StatusEnd, PastOut
  <2>2. CASE CloseDie(c) \/ CloseDeleteLock(c) \/ CloseDelete(c)
    BY <2>2 DEF CloseDie, CloseDeleteLock, CloseDelete, PastOut
  <2>5. CASE CloseClear(c) \/ CloseStatus(c)
    BY <2>5 DEF CloseClear, CloseStatus, PastOut
  <2>3. CASE CloseScan(c) \/ CloseList(c) \/ CloseReturn(c) \/ CloseForget(c)
    BY <2>3 DEF CloseScan, CloseList, CloseReturn, CloseForget, PastOut
  <2>4. CASE \E d \in Conns : CloseSweep(c, d)
    BY <2>4 DEF CloseSweep
  <2> QED BY <1>4, <2>1, <2>2, <2>3, <2>4, <2>5 DEF CloserStep, ConnMuUse
<1>6. ASSUME NEW c \in Conns, NEW d \in Conns, MediaLeak(c, d) PROVE NoConnMuUse
  BY <1>6 DEF MediaLeak
<1>7. CASE SyncStep
  BY <1>7 DEF SyncStep, SyncUser, SyncPick, SyncStore, SyncLeave
<1>5. ASSUME HbStart \/ HbStep, ~\E c \in Conns : ConnMuUse(c) PROVE NoConnMuUse
  <2>1. CASE HbStart \/ HbList \/ HbRelease \/ HbRemoveLock
    BY <2>1 DEF HbStart, HbList, HbRelease, HbRemoveLock
  <2>2. ASSUME NEW c \in Conns, HbPass(c) \/ HbExpire(c) PROVE NoConnMuUse
    BY <2>2 DEF HbPass, HbExpire
  <2>3. CASE HbRemove
    <3> DEFINE told == {e \in Listed : Died[e] /\ pc[e] # "closed" /\ at.orch[e] = "registered"}
               f == [e \in Conns |-> IF e \in told THEN CloseDone(e) ELSE at.closer[e]]
    <3>1. \A e \in Conns : f[e] = at.closer[e] \/ (f[e] = "die" /\ at.closer[e] = "none")
      BY DEF CloseDone
    <3>2. at' = [at EXCEPT !.hb[None] = "idle", !.closer = f] /\ at.hb[None] = "removing"
      BY <2>3 DEF HbRemove
    <3> HIDE DEF f
    <3> QED BY <3>1, <3>2 DEF PastOut
  <2>4. \A c \in Conns : ~HbKillLock(c) /\ ~HbKill(c)
    BY <1>5 DEF ConnMuUse
  <2> HIDE DEF Labels, Step, NoConnMuUse
  <2> QED BY <1>5, <2>1, <2>2, <2>3, <2>4 DEF HbStep
<1> QED BY <1>1, <1>2, <1>3, <1>4, <1>5, <1>6, <1>7 DEF Next, Environment, Goroutines, ConnMuUse

=============================================================================
