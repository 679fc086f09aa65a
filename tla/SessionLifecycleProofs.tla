----------------------- MODULE SessionLifecycleProofs -----------------------
(***************************************************************************)
(* The invariant of SessionInvariant is inductive, and the properties of   *)
(* SessionLifecycle follow from it, for every set of users and connections *)
(* and every choice of Openers, Leavers, Talkers and Timers.               *)
(***************************************************************************)
EXTENDS SessionFrames, FiniteSetTheorems

(* Type correctness.                                                        *)

\* The lock operators keep a mutex a mutex.
LEMMA MutexOps ==
  ASSUME NEW tokens, NEW m \in Mutexes(tokens)
  PROVE  /\ \A k \in tokens : RLock(m, k) \in Mutexes(tokens)
         /\ \A ks : ks \cap m.parked = {} => RUnlock(m, ks) \in Mutexes(tokens)
         /\ \A r \in {"auth", "closer", "hb"}, x \in Conns \cup {None} :
               Announce(m, <<r, x>>) \in Mutexes(tokens)
         /\ Unlock(m) \in Mutexes(tokens)
         /\ \A n \in Nat : StrayRUnlock(m, n) \in Mutexes(tokens)
<1>1. \A k \in tokens : RLock(m, k) \in Mutexes(tokens)
  BY DEF Mutexes, RLock
<1>2. ASSUME NEW ks, ks \cap m.parked = {} PROVE RUnlock(m, ks) \in Mutexes(tokens)
  BY <1>2 DEF Mutexes, RUnlock
<1>3. ASSUME NEW r \in {"auth", "closer", "hb"}, NEW x \in Conns \cup {None}
      PROVE  Announce(m, <<r, x>>) \in Mutexes(tokens)
  BY DEF Mutexes, Announce
<1>4. Unlock(m) \in Mutexes(tokens)
  BY DEF Mutexes, Unlock
<1>5. \A n \in Nat : StrayRUnlock(m, n) \in Mutexes(tokens)
  BY DEF Mutexes, StrayRUnlock
<1> QED BY <1>1, <1>2, <1>3, <1>4, <1>5

\* The teardown's loop passes a natural number of member ids, and passes one only
\* if the receiver carries the tracks of somebody else.
LEMMA PassedNat ==
  ASSUME TrackInv, NEW c \in Conns, NEW d \in Conns, NEW n \in Passed(c, d)
  PROVE  n \in Nat /\ (n > 0 => \E u \in MemberTracks[d] : u # Owner[c])
<1> DEFINE T == MemberTracks[d]
<1>1. IsFiniteSet(T) /\ Cardinality(T) \in Nat
  BY FS_CardinalityType DEF TrackInv
<1>2. CASE \E u \in T : u # Owner[c]
  BY <1>1, <1>2 DEF Passed
<1>3. CASE \A u \in T : u = Owner[c]
  <2>1. T = {} \/ T = {Owner[c]}
    BY <1>3
  <2>2. CASE T = {}
    BY <2>2, FS_EmptySet DEF Passed
  <2>3. CASE T = {Owner[c]}
    <3>1. Cardinality(T) = 1
      BY <2>3, FS_Singleton
    <3> QED BY <3>1, <2>3 DEF Passed
  <2> QED BY <2>1, <2>2, <2>3
<1> QED BY <1>2, <1>3

\* The company's lock stays a mutex.
LEMMA CompanyMuType ==
  ASSUME TypeOK, CompanyLockInv, TrackInv, Next
  PROVE  companyMu' \in Mutexes(CompanyTokens) /\ crashed' \in BOOLEAN
<1>0. companyMu \in Mutexes(CompanyTokens) /\ crashed \in BOOLEAN
  BY DEF TypeOK
<1>1. CASE UNCHANGED <<companyMu, crashed>>
  BY <1>0, <1>1
<1>2. ASSUME NEW r \in {"auth", "closer", "status", "hb"}, NEW x \in Conns \cup {None},
             LockCall(r, x)
      PROVE  companyMu' \in Mutexes(CompanyTokens) /\ crashed' \in BOOLEAN
  <2>1. CASE TakeWrite(r, x) /\ r # "status"
    BY <1>0, <2>1, MutexOps DEF TakeWrite
  <2>2. CASE DropWrite(r, x)
    BY <1>0, <2>2, MutexOps DEF DropWrite
  <2>3. ASSUME NEW i \in {"outer", "inner"}, TakeRead(r, x, i), r # "auth"
        PROVE  companyMu' \in Mutexes(CompanyTokens) /\ crashed' \in BOOLEAN
    <3>1. <<r, x, i>> \in CompanyTokens
      BY <2>3 DEF CompanyTokens
    <3> QED BY <1>0, <2>3, <3>1, MutexOps DEF TakeRead
  <2>4. ASSUME NEW is, Leave(r, x, is)
        PROVE  companyMu' \in Mutexes(CompanyTokens) /\ crashed' \in BOOLEAN
    <3>1. {<<r, x, i>> : i \in is} \cap companyMu.parked = {}
      BY <2>4 DEF Leave
    <3> QED BY <1>0, <2>4, <3>1, MutexOps DEF Leave, DropRead, Unbalanced
  <2> QED BY <1>2, <2>1, <2>2, <2>3, <2>4 DEF LockCall
<1>3. ASSUME NEW c \in Conns, NEW d \in Conns, CloseSweep(c, d)
      PROVE  companyMu' \in Mutexes(CompanyTokens) /\ crashed' \in BOOLEAN
  <2>1. PICK n \in Passed(c, d) : companyMu' = StrayRUnlock(companyMu, n)
    BY <1>3 DEF CloseSweep
  <2>2. crashed' \in BOOLEAN
    BY <1>3 DEF CloseSweep, Unbalanced
  <2> QED BY <1>0, <2>1, <2>2, PassedNat, MutexOps
<1> QED BY <1>1, <1>2, <1>3, CompanyMuChange DEF CompanyMuMove

\* The lock of every connection stays a mutex.
LEMMA ConnMuType ==
  ASSUME TypeOK, Next
  PROVE  connMu' \in [Conns -> Mutexes({SenderToken, LeakToken})] /\ out' \in [Conns -> {"open", "closed"}]
<1>0. connMu \in [Conns -> Mutexes({SenderToken, LeakToken})] /\ out \in [Conns -> {"open", "closed"}]
  BY DEF TypeOK
<1>1. CASE UNCHANGED <<connMu, out>>
  BY <1>0, <1>1
<1>2. ASSUME NEW c \in Conns, SenderLock(c)
      PROVE  connMu' \in [Conns -> Mutexes({SenderToken, LeakToken})] /\ UNCHANGED out
  BY <1>0, <1>2, MutexOps DEF SenderLock, peers
<1>3. ASSUME NEW c \in Conns, CloseOutLock(c) \/ HbKillLock(c)
      PROVE  connMu' \in [Conns -> Mutexes({SenderToken, LeakToken})] /\ UNCHANGED out
  <2>1. /\ Announce(connMu[c], <<"closer", c>>) \in Mutexes({SenderToken, LeakToken})
        /\ Announce(connMu[c], <<"hb", None>>) \in Mutexes({SenderToken, LeakToken})
    BY <1>0, MutexOps
  <2> QED BY <1>0, <1>3, <2>1 DEF CloseOutLock, HbKillLock, peers
<1>4. ASSUME NEW c \in Conns, CloseOut(c) \/ HbKill(c)
      PROVE  /\ connMu' \in [Conns -> Mutexes({SenderToken, LeakToken})]
             /\ out' = out \/ out' = [out EXCEPT ![c] = "closed"]
  <2>1. Unlock(connMu[c]) \in Mutexes({SenderToken, LeakToken})
    BY <1>0, MutexOps
  <2>2. CASE CloseOut(c)
    BY <1>0, <2>1, <2>2 DEF CloseOut
  <2>3. CASE HbKill(c)
    BY <1>0, <2>1, <2>3 DEF HbKill
  <2> QED BY <1>4, <2>2, <2>3
<1>5. ASSUME NEW c \in Conns, NEW d \in Conns, MediaLeak(c, d)
      PROVE  connMu' \in [Conns -> Mutexes({SenderToken, LeakToken})] /\ UNCHANGED out
  <2>1. RLock(connMu[d], LeakToken) \in Mutexes({SenderToken, LeakToken})
    BY <1>0, MutexOps
  <2> QED BY <1>0, <1>5, <2>1 DEF MediaLeak, peers
<1> QED BY <1>0, <1>1, <1>2, <1>3, <1>4, <1>5, ConnMuChange

\* The two maps keep their types.
LEMMA MapsType ==
  ASSUME TypeOK, Next
  PROVE  /\ Users' \in [UserIds -> Conns \cup {None}]
         /\ UserConnections' \in [UserIds -> Conns \cup {None}]
<1> USE DEF TypeOK, maps
<1>1. ASSUME NEW c \in Conns, AuthPublish(c) \/ AuthInsert(c) \/ CloseDelete(c) \/ CloseForget(c)
      PROVE  /\ Users' \in [UserIds -> Conns \cup {None}]
             /\ UserConnections' \in [UserIds -> Conns \cup {None}]
  BY <1>1 DEF AuthPublish, AuthInsert, CloseDelete, CloseForget
<1>2. CASE HbRemove
  BY <1>2 DEF HbRemove
<1> QED BY <1>1, <1>2, MapsChange

\* Died and MemberTracks keep their types.
LEMMA TracksType ==
  ASSUME TypeOK, Next
  PROVE  Died' \in [Conns -> BOOLEAN] /\ MemberTracks' \in [Conns -> SUBSET UserIds]
<1> USE ConstantsAssumption DEF TypeOK
<1>1. ASSUME NEW c \in Conns,
             AuthPublish(c) \/ CloseDie(c) \/ CloseClear(c) \/ HbExpire(c) \/ HbKill(c)
      PROVE  Died' \in [Conns -> BOOLEAN] /\ MemberTracks' \in [Conns -> SUBSET UserIds]
  <2>1. CASE AuthPublish(c)
    BY <2>1 DEF AuthPublish
  <2>2. CASE CloseDie(c)
    BY <2>2 DEF CloseDie
  <2>3. CASE CloseClear(c)
    BY <2>3 DEF CloseClear
  <2>4. CASE HbExpire(c)
    BY <2>4 DEF HbExpire
  <2>5. CASE HbKill(c)
    BY <2>5 DEF HbKill
  <2> QED BY <1>1, <2>1, <2>2, <2>3, <2>4, <2>5
<1>2. ASSUME NEW c \in Conns, NEW d \in Conns, CloseSweep(c, d)
      PROVE  Died' \in [Conns -> BOOLEAN] /\ MemberTracks' \in [Conns -> SUBSET UserIds]
  BY <1>2 DEF CloseSweep
<1>3. CASE SyncStore
  <2>1. Owner[todo.sync.from] \in UserIds
    BY <1>3 DEF SyncStore
  <2>2. /\ MemberTracks' = [MemberTracks EXCEPT ![todo.sync.to] = @ \cup {Owner[todo.sync.from]}]
        /\ Died' = Died
    BY <1>3 DEF SyncStore
  <2>3. MemberTracks \in [Conns -> SUBSET UserIds] /\ Died \in [Conns -> BOOLEAN]
    OBVIOUS
  <2> HIDE DEF TypeOK
  <2> QED BY <2>1, <2>2, <2>3
<1> QED BY <1>1, <1>2, <1>3, TracksChange

\* The states of the peer connections and data channels keep their types.
LEMMA PeersType ==
  ASSUME TypeOK, Next
  PROVE  /\ pc' \in [Conns -> {"new", "connected"} \cup Down]
         /\ dc' \in [Conns -> {"none", "open", "closed"}]
<1> USE DEF TypeOK, Down
<1>1. ASSUME NEW c \in Conns, Connect(c) \/ PeerDown(c) \/ OpenChannel(c) \/ CloseChannel(c)
      PROVE  /\ pc' \in [Conns -> {"new", "connected"} \cup Down]
             /\ dc' \in [Conns -> {"none", "open", "closed"}]
  BY <1>1 DEF Connect, PeerDown, OpenChannel, CloseChannel
<1>2. CASE HbRemove
  BY <1>2 DEF HbRemove
<1> QED BY <1>1, <1>2, PeersChange

\* The loops keep their types.
LEMMA TodoType ==
  ASSUME TypeOK, Next
  PROVE  todo' \in [closer : [Conns -> SUBSET Conns], hb : [{None} -> SUBSET Conns],
                    sync : [to : Conns \cup {None}, from : Conns \cup {None}]]
<1> DEFINE T == [closer : [Conns -> SUBSET Conns], hb : [{None} -> SUBSET Conns],
                 sync : [to : Conns \cup {None}, from : Conns \cup {None}]]
<1>0. todo \in T
  BY DEF TypeOK
<1>1. ASSUME NEW c \in Conns, CloseList(c) PROVE todo' \in T
  BY <1>0, <1>1 DEF CloseList, Listed
<1>2. ASSUME NEW c \in Conns, HbPass(c) \/ HbExpire(c) \/ HbKill(c) PROVE todo' \in T
  BY <1>0, <1>2 DEF HbPass, HbExpire, HbKill, HbDoneWith
<1>3. ASSUME NEW c \in Conns, NEW d \in Conns, CloseSweep(c, d) PROVE todo' \in T
  BY <1>0, <1>3 DEF CloseSweep
<1>4. CASE HbList
  BY <1>0, <1>4 DEF HbList, Listed
<1>5. ASSUME NEW c \in Conns, SyncUser(c) \/ SyncPick(c) PROVE todo' \in T
  BY <1>0, <1>5 DEF SyncUser, SyncPick
<1>6. CASE SyncStore \/ SyncLeave
  BY <1>0, <1>6 DEF SyncStore, SyncLeave
<1> QED BY <1>0, <1>1, <1>2, <1>3, <1>4, <1>5, <1>6, TodoChange

\* Every step of the program keeps the type invariant.
LEMMA TypeStep ==
  ASSUME TypeOK, LabelInv, CompanyLockInv, TrackInv, Next
  PROVE  TypeOK'
<1>1. at' \in Labels
  BY LabelsStep DEF TypeOK, LabelsMove
<1> QED BY <1>1, CompanyMuType, ConnMuType, MapsType, TracksType, PeersType, TodoType DEF TypeOK

-----------------------------------------------------------------------------
(* The locks.                                                               *)

\* Readers of the company's lock own their tokens at the labels of their read
\* sections, whatever the others do.
LEMMA CompanyLockStep ==
  ASSUME at \in Labels, companyMu \in Mutexes(CompanyTokens), CompanyLockInv, Next
  PROVE  CompanyLockInv'
<1> USE DEF Labels, CompanyLockInv, Step
<1>0. None \notin Conns
  BY ConstantsAssumption
<1>1. ASSUME NEW c \in Conns, AuthBegin(c) \/ AuthStep(c) PROVE CompanyLockInv'
  <2>1. CASE AuthRoomLock(c) \/ AuthInsertLock(c)
    BY <1>0, <2>1 DEF AuthRoomLock, AuthInsertLock, TakeWrite, Announce, Mutexes
  <2>2. CASE AuthRoomsDone(c)
    <3>1. /\ at' = [at EXCEPT !.auth[c] = "register", !.orch[c] = "started"]
          /\ companyMu' = companyMu \/ companyMu' = Unlock(companyMu)
      BY <2>2 DEF AuthRoomsDone, StartOrchestrator, DropWrite, locks
    <3>2. at'.hb = at.hb /\ at'.status = at.status /\ at'.closer = at.closer
      BY <3>1
    <3>3. CASE companyMu' = companyMu
      BY <3>2, <3>3
    <3>4. CASE companyMu' = Unlock(companyMu)
      <4>1. companyMu'.held = companyMu.held /\ companyMu'.parked = {}
        <5> HIDE DEF CompanyLockInv
        <5> QED BY <3>4 DEF Unlock, Mutexes
      <4> QED BY <3>2, <4>1
    <3> QED BY <3>1, <3>3, <3>4
  <2>4. CASE AuthInsert(c)
    BY <1>0, <2>4 DEF AuthInsert, DropWrite, Unlock, Mutexes
  <2>3. CASE ~(AuthRoomLock(c) \/ AuthInsertLock(c) \/ AuthRoomsDone(c) \/ AuthInsert(c))
    BY <1>0, <1>1, <2>3
    DEF AuthStep, AuthBegin, AuthLook, AuthCheckExisting, AuthCreateCompany, AuthCreateAnswer,
        AuthPublish, AuthRoomGlobal, AuthRegister, locks
  <2> QED BY <2>1, <2>2, <2>3, <2>4
<1>2. ASSUME NEW c \in Conns, PeerStep(c) \/ OrchStep(c) PROVE CompanyLockInv'
  <2>1. CASE PeerDown(c) \/ OrchCheck(c)
    <3>1. /\ UNCHANGED companyMu
          /\ at'.hb = at.hb /\ at'.status = at.status
          /\ \A d \in Conns : at'.closer[d] = at.closer[d]
                              \/ (at.closer[d] = "none" /\ at'.closer[d] = "die")
      <4>1. CASE PeerDown(c)
        <5>1. at' = at \/ at' = [at EXCEPT !.closer[c] = CloseDone(c)]
          BY <4>1 DEF PeerDown
        <5>2. UNCHANGED companyMu
          BY <4>1 DEF PeerDown, locks
        <5> QED BY <5>1, <5>2 DEF CloseDone
      <4>2. CASE OrchCheck(c)
        <5>1. \E l \in {"die", at.closer[c]} :
                 /\ l # at.closer[c] => at.closer[c] = "none"
                 /\ at' = [at EXCEPT !.orch[c] = "checked", !.closer[c] = l]
          BY <4>2 DEF OrchCheck, CloseDone
        <5>2. UNCHANGED companyMu
          BY <4>2 DEF OrchCheck, locks
        <5> QED BY <5>1, <5>2
      <4> QED BY <2>1, <4>1, <4>2
    <3> QED BY <3>1
  <2>2. CASE ~(PeerDown(c) \/ OrchCheck(c))
    BY <1>0, <1>2, <2>2
    DEF PeerStep, OrchStep, Connect, OpenChannel, CloseChannel, OrchRegister, SenderLock,
        SenderRange, locks
  <2> QED BY <2>1, <2>2
<1>3. ASSUME NEW x \in Conns \cup {None}, StatusOuter(x) \/ StatusStep(x)
      PROVE  CompanyLockInv'
  <2>1. CASE StatusOuter(x)
    BY <1>0, <2>1 DEF StatusOuter, TakeRead, RLock, Mutexes
  <2>3. CASE StatusInner("status", x)
    BY <1>0, <2>3 DEF StatusInner, TakeRead, RLock, HasRead, Reading, Inside, Mutexes
  <2>2. CASE StatusEnd("status", x, "idle")
    BY <1>0, <2>2 DEF StatusEnd, DropRead, RUnlock, HasRead, Reading, Inside, Mutexes
  <2> QED BY <1>3, <2>1, <2>2, <2>3 DEF StatusStep
<1>4. ASSUME NEW c \in Conns, CloserStep(c) PROVE CompanyLockInv'
  <2>1. CASE StatusInner("closer", c)
    BY <1>0, <2>1 DEF StatusInner, TakeRead, RLock, HasRead, Reading, Inside, Mutexes
  <2>8. CASE CloseStatus(c)
    BY <1>0, <2>8 DEF CloseStatus, TakeRead, RLock, Mutexes
  <2>10. CASE CloseDie(c) \/ CloseClear(c)
    BY <1>0, <2>10 DEF CloseDie, CloseClear, locks
  <2>9. CASE CloseScan(c)
    BY <1>0, <2>9 DEF CloseScan, TakeRead, RLock, Mutexes
  <2>2. CASE StatusEnd("closer", c, "delete")
    BY <1>0, <2>2 DEF StatusEnd, DropRead, RUnlock, HasRead, Reading, Inside, Mutexes
  <2>7. CASE CloseReturn(c)
    BY <1>0, <2>7 DEF CloseReturn, DropRead, RUnlock, Mutexes
  <2>3. CASE CloseDeleteLock(c)
    BY <1>0, <2>3 DEF CloseDeleteLock, TakeWrite, Announce, Mutexes
  <2>4. CASE CloseDelete(c)
    BY <1>0, <2>4 DEF CloseDelete, DropWrite, Unlock, Mutexes
  <2>5. CASE CloseOutLock(c) \/ CloseOut(c) \/ CloseForget(c) \/ CloseList(c)
    BY <1>0, <2>5 DEF CloseOutLock, CloseOut, CloseForget, CloseList, HasRead, Reading, Inside, locks
  <2>6. CASE \E d \in Conns : CloseSweep(c, d)
    BY <1>0, <2>6 DEF CloseSweep, StrayRUnlock, Mutexes
  <2> QED BY <1>4, <2>1, <2>2, <2>3, <2>4, <2>5, <2>6, <2>7, <2>8, <2>9, <2>10 DEF CloserStep
<1>5. CASE HbStart \/ HbStep
  <2>1. CASE HbStart
    BY <1>0, <2>1 DEF HbStart, TakeRead, RLock, Mutexes
  <2>2. CASE HbList
    BY <1>0, <2>2 DEF HbList, HasRead, Reading, Inside, locks
  <2>3. CASE HbRelease
    BY <1>0, <2>3 DEF HbRelease, DropRead, RUnlock, Mutexes
  <2>4. CASE HbRemoveLock
    BY <1>0, <2>4 DEF HbRemoveLock, TakeWrite, Announce, Mutexes
  <2>5. CASE HbRemove
    <3>1. /\ companyMu' = Unlock(companyMu)
          /\ at'.hb = [at.hb EXCEPT ![None] = "idle"] /\ at'.status = at.status
          /\ \A d \in Conns : at'.closer[d] = at.closer[d]
                              \/ (at.closer[d] = "none" /\ at'.closer[d] = "die")
      <4> DEFINE told == {e \in Listed : Died[e] /\ pc[e] # "closed" /\ at.orch[e] = "registered"}
                 f == [e \in Conns |-> IF e \in told THEN CloseDone(e) ELSE at.closer[e]]
      <4>1. \A e \in Conns : f[e] = at.closer[e] \/ (at.closer[e] = "none" /\ f[e] = "die")
        <5> HIDE DEF told, CompanyLockInv, Labels
        <5> QED BY DEF CloseDone
      <4>2. at' = [at EXCEPT !.hb[None] = "idle", !.closer = f]
        BY <2>5 DEF HbRemove
      <4>3. companyMu' = Unlock(companyMu)
        BY <2>5 DEF HbRemove, DropWrite
      <4> HIDE DEF f
      <4> QED BY <4>1, <4>2, <4>3
    <3> QED BY <1>0, <3>1 DEF Unlock, Mutexes
  <2>6. ASSUME NEW c \in Conns, HbPass(c) \/ HbExpire(c) \/ HbKillLock(c) \/ HbKill(c)
        PROVE  CompanyLockInv'
    BY <1>0, <2>6 DEF HbPass, HbExpire, HbKillLock, HbKill, locks
  <2> QED BY <1>5, <2>1, <2>2, <2>3, <2>4, <2>5, <2>6 DEF HbStep
<1>6. CASE SyncStep \/ \E c, d \in Conns : MediaLeak(c, d)
  BY <1>6 DEF SyncStep, SyncUser, SyncPick, SyncStore, SyncLeave, MediaLeak, locks
<1> QED BY <1>1, <1>2, <1>3, <1>4, <1>5, <1>6 DEF Next, Environment, Goroutines

\* Finitely many readers hold each lock.
LEMMA FiniteStep ==
  ASSUME TypeOK, CompanyLockInv, FiniteInv, Next
  PROVE  FiniteInv'
<1>1. IsFiniteSet(companyMu'.held)
  <2>0. IsFiniteSet(companyMu.held) /\ companyMu \in Mutexes(CompanyTokens)
    BY DEF FiniteInv, TypeOK
  <2>1. CASE UNCHANGED <<companyMu, crashed>>
    BY <2>0, <2>1
  <2>2. ASSUME NEW r, NEW x, LockCall(r, x) PROVE IsFiniteSet(companyMu'.held)
    <3>1. CASE TakeWrite(r, x) \/ DropWrite(r, x)
      BY <2>0, <3>1 DEF TakeWrite, DropWrite, Announce, Unlock, Mutexes
    <3>2. ASSUME NEW i, TakeRead(r, x, i) PROVE IsFiniteSet(companyMu'.held)
      <4>1. companyMu'.held = companyMu.held \cup {<<r, x, i>>}
        BY <2>0, <3>2 DEF TakeRead, RLock, Mutexes
      <4> QED BY <2>0, <4>1, FS_AddElement
    <3>3. ASSUME NEW is, Leave(r, x, is) PROVE IsFiniteSet(companyMu'.held)
      <4>1. companyMu'.held \subseteq companyMu.held
        BY <2>0, <3>3 DEF Leave, DropRead, RUnlock, Mutexes
      <4> QED BY <2>0, <4>1, FS_Subset
    <3> QED BY <2>2, <3>1, <3>2, <3>3 DEF LockCall
  <2>3. ASSUME NEW c \in Conns, NEW d \in Conns, CloseSweep(c, d)
        PROVE  IsFiniteSet(companyMu'.held)
    BY <2>0, <2>3 DEF CloseSweep, StrayRUnlock, Mutexes
  <2> QED BY <2>1, <2>2, <2>3, CompanyMuChange DEF CompanyMuMove
<1>2. \A c \in Conns : IsFiniteSet(connMu'[c].held)
  <2>1. \A c \in Conns : connMu'[c].held \subseteq {SenderToken, LeakToken}
    BY ConnMuType DEF Mutexes
  <2>2. IsFiniteSet({SenderToken}) /\ {SenderToken, LeakToken} = {SenderToken} \cup {LeakToken}
    BY FS_Singleton
  <2>3. IsFiniteSet({SenderToken, LeakToken})
    BY <2>2, FS_AddElement
  <2> QED BY <2>1, <2>3, FS_Subset
<1> QED BY <1>1, <1>2 DEF FiniteInv

\* An empty read side is what lets a writer in as long as nobody left too often.
LEMMA GrantedEmpty ==
  ASSUME NEW tokens, NEW m \in Mutexes(tokens), IsFiniteSet(m.held), m.extra = 0,
         NEW t, Granted(m, t)
  PROVE  Inside(m) = {}
<1>1. IsFiniteSet(Inside(m))
  BY FS_Subset DEF Inside
<1>2. Cardinality(Inside(m)) = 0
  BY <1>1, FS_CardinalityType DEF Granted
<1> QED BY <1>1, <1>2, FS_EmptySet

\* Who stays inside the lock of a connection and the close of OutgoingDataChannel
\* exclude each other.
LEMMA SenderStep ==
  ASSUME TypeOK, FiniteInv, SenderInv, DownInv, Next
  PROVE  SenderInv'
<1> USE DEF SenderInv
<1>0. /\ at \in Labels /\ out \in [Conns -> {"open", "closed"}]
      /\ connMu \in [Conns -> Mutexes({SenderToken, LeakToken})]
      /\ SenderToken # LeakToken
  BY DEF TypeOK, SenderToken, LeakToken
<1>1. ASSUME NEW c \in Conns, SenderLock(c) PROVE SenderInv'
  BY <1>0, <1>1 DEF SenderLock, RLock, Mutexes, Step, Labels, peers
<1>2. ASSUME NEW c \in Conns, SenderRange(c) PROVE SenderInv'
  BY <1>0, <1>2 DEF SenderRange, Reading, Inside, Step, Labels, peers, locks
<1>3. ASSUME NEW c \in Conns, OpenChannel(c) PROVE SenderInv'
  BY <1>0, <1>3 DEF OpenChannel, Step, Labels, locks
<1>4. ASSUME NEW c \in Conns, CloseOutLock(c) PROVE SenderInv'
  BY <1>0, <1>4 DEF CloseOutLock, Announce, Mutexes, Step, Labels, peers, PastOut
<1>5. ASSUME NEW c \in Conns, CloseOut(c) PROVE SenderInv'
  <2>1. Inside(connMu[c]) = {}
    BY <1>0, <1>5, GrantedEmpty DEF CloseOut, FiniteInv
  <2>2. at.sender[c] # "draining" /\ LeakToken \notin connMu[c].held
    BY <1>0, <2>1 DEF Inside
  <2> QED BY <1>0, <1>5, <2>2 DEF CloseOut, Unlock, Mutexes, Step, Labels, PastOut
<1>6. ASSUME NEW c \in Conns, HbKillLock(c) PROVE SenderInv'
  BY <1>0, <1>6 DEF HbKillLock, Announce, Mutexes, Step, Labels, peers
<1>8. ASSUME NEW c \in Conns, HbKill(c) PROVE SenderInv'
  BY <1>0, <1>8 DEF HbKill, Unlock, Mutexes, Step, Labels
<1>9. ASSUME NEW c \in Conns, NEW d \in Conns, MediaLeak(c, d) PROVE SenderInv'
  <2>1. out[d] = "open" /\ connMu[d].writer = NoThread
    BY <1>0, <1>9 DEF MediaLeak, CanRead, DownInv, PastOut
  <2>2. at' = at /\ out' = out /\ connMu' = [connMu EXCEPT ![d] = RLock(@, LeakToken)]
    BY <1>9 DEF MediaLeak, peers
  <2> QED BY <1>0, <2>1, <2>2 DEF RLock, Mutexes
<1>7. CASE UNCHANGED <<connMu, out>> /\ NoConnMuUse
  BY <1>7 DEF NoConnMuUse
<1> QED
  BY <1>0, <1>1, <1>2, <1>3, <1>4, <1>5, <1>6, <1>7, <1>8, <1>9, ConnMuUsers, ConnMuChange
  DEF ConnMuUse

-----------------------------------------------------------------------------
(* The maps and the tracks.                                                 *)

\* The maps hold connections of the right user that got as far as the insertion.
LEMMA MapStep ==
  ASSUME TypeOK, LabelInv, MapInv, Next
  PROVE  MapInv'
<1>1. LabelsMove /\ Users \in [UserIds -> Conns \cup {None}]
      /\ UserConnections \in [UserIds -> Conns \cup {None}]
      /\ Owner \in [Conns -> UserIds] /\ None \notin Conns
  BY LabelsStep, ConstantsAssumption DEF TypeOK
<1>2. /\ \A c \in Published : c \in Published'
      /\ \A c \in Conns : at.auth[c] = "done" => at'.auth[c] = "done"
      /\ \A c \in Conns : AuthInsert(c) => at'.auth[c] = "done"
      /\ \A c \in Conns : AuthPublish(c) => c \in Published'
  <2>1. \A c \in Conns : AuthInsert(c) => at'.auth[c] = "done"
    BY DEF AuthInsert, Step, TypeOK, Labels
  <2>2. \A c \in Conns : AuthPublish(c) => c \in Published'
    BY DEF AuthPublish, Step, TypeOK, Labels, Published
  <2> QED BY <1>1, <2>1, <2>2 DEF LabelsMove, Answered
<1>3. CASE UNCHANGED maps
  BY <1>1, <1>2, <1>3 DEF MapInv, maps
<1>4. ASSUME NEW c \in Conns, AuthPublish(c) PROVE MapInv'
  <2>1. /\ Users' = Users
        /\ \A u \in UserIds : UserConnections'[u] = IF u = Owner[c] THEN c ELSE UserConnections[u]
    BY <1>1, <1>4 DEF AuthPublish
  <2> QED BY <1>1, <1>2, <1>4, <2>1 DEF MapInv
<1>5. ASSUME NEW c \in Conns, AuthInsert(c) PROVE MapInv'
  <2>1. /\ UserConnections' = UserConnections
        /\ \A u \in UserIds : (Users'[u] = c /\ u = Owner[c]) \/ Users'[u] = Users[u]
    BY <1>1, <1>5 DEF AuthInsert
  <2> QED BY <1>1, <1>2, <1>5, <2>1 DEF MapInv
<1>6. ASSUME NEW c \in Conns, CloseDelete(c) PROVE MapInv'
  BY <1>1, <1>2, <1>6 DEF CloseDelete, MapInv
<1>7. ASSUME NEW c \in Conns, CloseForget(c) PROVE MapInv'
  BY <1>1, <1>2, <1>7 DEF CloseForget, MapInv
<1>8. CASE HbRemove
  BY <1>1, <1>2, <1>8 DEF HbRemove, MapInv
<1> QED BY <1>3, <1>4, <1>5, <1>6, <1>7, <1>8, MapsChange

\* A connection in teardown stays dead: it was published before, so the login
\* handler does not revive it.
LEMMA DiedStep ==
  ASSUME TypeOK, LabelInv, DownInv, Next
  PROVE  \A c \in TornDown' : Died'[c]
<1>1. LabelsMove /\ Died \in [Conns -> BOOLEAN]
  BY LabelsStep DEF TypeOK
<1>2. \A c \in TornDown : Died[c]
  BY DEF DownInv, TornDown
<1>3. ASSUME NEW c \in Conns, CloseDie(c), NEW d \in TornDown \cup {c} PROVE Died'[d]
  BY <1>1, <1>2, <1>3 DEF CloseDie, TornDown
<1>4. ASSUME NEW c \in Conns, AuthPublish(c), NEW d \in TornDown PROVE Died'[d]
  <2>1. c \notin TornDown
    BY <1>4 DEF AuthPublish, Step, LabelInv, TornDown
  <2> QED BY <1>1, <1>2, <1>4, <2>1 DEF AuthPublish, TornDown
<1>5. ASSUME NEW c \in Conns, HbExpire(c) \/ HbKill(c), NEW d \in TornDown PROVE Died'[d]
  BY <1>1, <1>2, <1>5 DEF HbExpire, HbKill, TornDown
<1>6. ASSUME NEW c \in Conns, CloseClear(c) PROVE Died' = Died
  BY <1>6 DEF CloseClear
<1>7. ASSUME NEW c \in Conns, NEW d \in Conns, CloseSweep(c, d) PROVE Died' = Died
  BY <1>7 DEF CloseSweep
<1> SUFFICES ASSUME NEW d \in TornDown' PROVE Died'[d]
  OBVIOUS
<1>9. CASE CloseDie(d)
  BY <1>3, <1>9 DEF TornDown
<1>10. CASE d \in TornDown
  BY <1>2, <1>3, <1>4, <1>5, <1>6, <1>7, <1>10, TracksChange DEF SyncStore
<1> QED BY <1>1, <1>9, <1>10 DEF LabelsMove

\* A step lists a connection by its own login handler only.
LEMMA ListedStep ==
  ASSUME TypeOK, Next, NEW x \in Conns, x \in Listed'
  PROVE  x \in Listed \/ AuthInsert(x)
<1>1. PICK u \in UserIds : Users'[u] = x
  BY DEF Listed
<1>2. Users \in [UserIds -> Conns \cup {None}] /\ None \notin Conns
  BY ConstantsAssumption DEF TypeOK
<1> SUFFICES Users[u] = x \/ AuthInsert(x)
  BY DEF Listed
<1>3. CASE UNCHANGED maps
  BY <1>1, <1>3 DEF maps
<1>4. ASSUME NEW c \in Conns, AuthPublish(c) \/ CloseDelete(c) \/ CloseForget(c)
      PROVE  Users[u] = x
  BY <1>1, <1>2, <1>4 DEF AuthPublish, CloseDelete, CloseForget
<1>5. ASSUME NEW c \in Conns, AuthInsert(c) PROVE Users[u] = x \/ AuthInsert(x)
  <2>1. Users'[u] = Users[u] \/ Users'[u] = c
    BY <1>2, <1>5 DEF AuthInsert
  <2> QED BY <1>1, <1>5, <2>1
<1>6. CASE HbRemove
  BY <1>1, <1>2, <1>6 DEF HbRemove
<1> QED BY <1>3, <1>4, <1>5, <1>6, MapsChange

\* A connection that is unlisted by its own teardown is empty if it is listed
\* after that, and the renegotiation pass does not turn to the dead.
LEMMA DownStep ==
  ASSUME TypeOK, LabelInv, MapInv, TrackInv, TodoInv, DownInv, Next
  PROVE  DownInv'
<1>0. /\ LabelsMove /\ MemberTracks \in [Conns -> SUBSET UserIds]
      /\ todo \in [closer : [Conns -> SUBSET Conns], hb : [{None} -> SUBSET Conns],
                   sync : [to : Conns \cup {None}, from : Conns \cup {None}]]
      /\ at \in Labels /\ None \notin Conns /\ Owner \in [Conns -> UserIds]
      /\ Users \in [UserIds -> Conns \cup {None}]
  BY LabelsStep, ConstantsAssumption DEF TypeOK
<1> SUFFICES ASSUME NEW x \in Conns, x \in Deleted', x \in Listed' \/ x \in todo'.closer[x]
             PROVE  MemberTracks'[x] = {} /\ todo'.sync.to # x
  BY DiedStep DEF DownInv, TornDown, Deleted
<1>1. x \in Deleted
  <2>1. ASSUME CloseDelete(x) PROVE FALSE
    <3>1. x \notin Listed'
      <4> SUFFICES ASSUME NEW u \in UserIds, Users'[u] = x PROVE FALSE
        BY DEF Listed
      <4> QED BY <1>0, <2>1 DEF CloseDelete, MapInv
    <3>2. todo'.closer[x] = {}
      BY <2>1 DEF CloseDelete, Step, TodoInv
    <3> QED BY <3>1, <3>2
  <2> QED BY <1>0, <2>1 DEF LabelsMove
<1>2. Died[x]
  BY <1>1 DEF DownInv, Deleted, PastDelete, PastOut
<1>3. ASSUME NEW c \in Conns, CloseList(c)
      PROVE  \/ todo'.closer[x] = todo.closer[x]
             \/ todo'.closer[x] = Listed
  BY <1>0, <1>3 DEF CloseList
<1>4. x \in todo'.closer[x] => (x \in todo.closer[x] \/ x \in Listed)
  <2>1. CASE UNCHANGED todo
    BY <2>1
  <2>2. ASSUME NEW c \in Conns, HbPass(c) \/ HbExpire(c) \/ HbKill(c)
        PROVE  todo'.closer = todo.closer
    BY <1>0, <2>2 DEF HbPass, HbExpire, HbKill, HbDoneWith
  <2>3. ASSUME NEW c \in Conns, SyncUser(c) \/ SyncPick(c) PROVE todo'.closer = todo.closer
    BY <1>0, <2>3 DEF SyncUser, SyncPick
  <2>4. CASE SyncStore \/ SyncLeave \/ HbList
    BY <1>0, <2>4 DEF SyncStore, SyncLeave, HbList
  <2>5. ASSUME NEW c \in Conns, NEW d \in Conns, CloseSweep(c, d)
        PROVE  todo'.closer[x] \subseteq todo.closer[x]
    BY <1>0, <2>5 DEF CloseSweep
  <2> QED BY <1>3, <2>1, <2>2, <2>3, <2>4, <2>5, TodoChange
<1>5. CASE AuthInsert(x)
  <2>1. at.auth[x] = "inserting"
    BY <1>5 DEF AuthInsert, Step
  <2>2. MemberTracks[x] = {} /\ todo.sync.to # x
    BY <1>0, <2>1 DEF TrackInv, TodoInv
  <2> QED BY <1>5, <2>2 DEF AuthInsert, peers
<1>6. CASE x \in Listed \/ x \in todo.closer[x]
  <2>1. MemberTracks[x] = {} /\ todo.sync.to # x
    BY <1>1, <1>6 DEF DownInv, Deleted
  <2>2. MemberTracks'[x] = {}
    <3>1. CASE UNCHANGED <<Died, MemberTracks>>
      BY <2>1, <3>1
    <3>2. ASSUME NEW c \in Conns,
                 AuthPublish(c) \/ CloseDie(c) \/ CloseClear(c) \/ HbExpire(c) \/ HbKill(c)
          PROVE  MemberTracks'[x] = {}
      BY <1>0, <2>1, <3>2 DEF AuthPublish, CloseDie, CloseClear, HbExpire, HbKill
    <3>3. ASSUME NEW c \in Conns, NEW d \in Conns, CloseSweep(c, d)
          PROVE  MemberTracks'[x] = {}
      BY <1>0, <2>1, <3>3 DEF CloseSweep
    <3>4. CASE SyncStore
      BY <1>0, <2>1, <3>4 DEF SyncStore
    <3> QED BY <3>1, <3>2, <3>3, <3>4, TracksChange
  <2>3. todo'.sync.to # x
    <3>1. CASE UNCHANGED todo
      BY <2>1, <3>1
    <3>2. ASSUME NEW c \in Conns, HbPass(c) \/ HbExpire(c) \/ HbKill(c) \/ CloseList(c)
          PROVE  todo'.sync = todo.sync
      BY <1>0, <3>2 DEF HbPass, HbExpire, HbKill, HbDoneWith, CloseList
    <3>3. ASSUME NEW c \in Conns, SyncUser(c) PROVE todo'.sync.to # x
      BY <1>0, <1>2, <3>3 DEF SyncUser
    <3>4. ASSUME NEW c \in Conns, SyncPick(c) PROVE todo'.sync.to = todo.sync.to
      BY <1>0, <3>4 DEF SyncPick
    <3>5. CASE SyncStore \/ HbList
      BY <1>0, <2>1, <3>5 DEF SyncStore, HbList
    <3>6. CASE SyncLeave
      BY <1>0, <3>6 DEF SyncLeave
    <3>7. ASSUME NEW c \in Conns, NEW d \in Conns, CloseSweep(c, d)
          PROVE  todo'.sync = todo.sync
      BY <1>0, <3>7 DEF CloseSweep
    <3> QED BY <2>1, <3>1, <3>2, <3>3, <3>4, <3>5, <3>6, <3>7, TodoChange
  <2> QED BY <2>2, <2>3
<1> QED BY <1>4, <1>5, <1>6, ListedStep

\* A user's only login stays in both maps while it is alive: the deletions by
\* user id need a teardown of this user, hence a death.
LEMMA LoneStep ==
  ASSUME TypeOK, LabelInv, MapInv, DownInv, LoneInv, Next
  PROVE  LoneInv'
<1>1. /\ LabelsMove /\ Died \in [Conns -> BOOLEAN]
      /\ Users \in [UserIds -> Conns \cup {None}]
      /\ UserConnections \in [UserIds -> Conns \cup {None}]
      /\ Owner \in [Conns -> UserIds] /\ None \notin Conns
  BY LabelsStep, ConstantsAssumption DEF TypeOK
<1> SUFFICES ASSUME NEW c \in Published', ~Died'[c],
                    \A d \in Published' : Owner[d] = Owner[c] => d = c
             PROVE  /\ UserConnections'[Owner[c]] = c
                    /\ at'.auth[c] = "done" => Users'[Owner[c]] = c
  BY DEF LoneInv
<1>2. CASE AuthPublish(c)
  <2>1. c \in Conns /\ Owner[c] \in UserIds
    BY <1>1 DEF Published
  <2>2. at'.auth[c] = "rooms"
    BY <1>2, <2>1 DEF AuthPublish, Step, TypeOK, Labels
  <2>3. UserConnections'[Owner[c]] = c
    BY <1>1, <1>2, <2>1 DEF AuthPublish
  <2> QED BY <2>2, <2>3
<1>3. CASE c \in Published
  <2>1. \A d \in Published : Owner[d] = Owner[c] => d = c
    BY <1>1 DEF LabelsMove
  <2>2. ~Died[c]
    <3>1. CASE UNCHANGED <<Died, MemberTracks>>
      BY <3>1
    <3>2. ASSUME NEW e \in Conns, AuthPublish(e) PROVE ~Died[c]
      BY <1>1, <1>3, <3>2 DEF AuthPublish, Step, Published
    <3>3. ASSUME NEW e \in Conns, CloseDie(e) \/ HbExpire(e) \/ HbKill(e) PROVE ~Died[c]
      BY <1>1, <3>3 DEF CloseDie, HbExpire, HbKill, Published
    <3>4. ASSUME NEW e \in Conns, NEW d \in Conns, CloseSweep(e, d) \/ CloseClear(e)
          PROVE  ~Died[c]
      BY <3>4 DEF CloseClear, CloseSweep
    <3>5. CASE SyncStore
      BY <3>5 DEF SyncStore
    <3> QED BY <3>1, <3>2, <3>3, <3>4, <3>5, TracksChange
  <2>3. /\ UserConnections[Owner[c]] = c
        /\ at.auth[c] = "done" => Users[Owner[c]] = c
    BY <1>3, <2>1, <2>2 DEF LoneInv
  <2>4. at'.auth[c] = "done" => at.auth[c] = "done" \/ AuthInsert(c)
    BY <1>1 DEF LabelsMove, Answered, Published
  <2>5. \A e \in Conns : at.closer[e] \notin {"none", "die"} =>
           e \in Published /\ Died[e] /\ Owner[e] # Owner[c]
    BY <2>1, <2>2 DEF DownInv, LabelInv, Published
  <2>6. CASE AuthInsert(c)
    <3>1. UserConnections' = UserConnections
          /\ Users'[Owner[c]] = IF Users[Owner[c]] = None THEN c ELSE Users[Owner[c]]
      BY <1>1, <2>6 DEF AuthInsert, Published
    <3>2. Users[Owner[c]] # None => Users[Owner[c]] = c
      BY <1>1, <2>1 DEF MapInv, Published
    <3> QED BY <2>3, <3>1, <3>2
  <2>7. ASSUME ~AuthInsert(c), UserConnections'[Owner[c]] = UserConnections[Owner[c]],
               at.auth[c] = "done" => Users'[Owner[c]] = Users[Owner[c]]
        PROVE  /\ UserConnections'[Owner[c]] = c
               /\ at'.auth[c] = "done" => Users'[Owner[c]] = c
    BY <2>3, <2>4, <2>7
  <2>8. ASSUME NEW e \in Conns, AuthPublish(e) \/ AuthInsert(e), e # c
        PROVE  /\ UserConnections'[Owner[c]] = UserConnections[Owner[c]]
               /\ Users'[Owner[c]] = Users[Owner[c]]
    <3>1. Owner[e] # Owner[c]
      <4>1. AuthPublish(e) => e \in Published'
        BY DEF AuthPublish, Step, TypeOK, Labels, Published
      <4>2. AuthInsert(e) => e \in Published
        BY DEF AuthInsert, Step, Published
      <4> QED BY <2>1, <2>8, <4>1, <4>2
    <3>2. Owner[e] \in UserIds /\ Owner[c] \in UserIds
      BY <1>1 DEF Published
    <3>3. CASE AuthPublish(e)
      BY <1>1, <3>1, <3>2, <3>3 DEF AuthPublish
    <3>4. CASE AuthInsert(e)
      BY <1>1, <3>1, <3>2, <3>4 DEF AuthInsert
    <3> QED BY <2>8, <3>3, <3>4
  <2>9. ASSUME NEW e \in Conns, CloseDelete(e) \/ CloseForget(e)
        PROVE  /\ UserConnections'[Owner[c]] = UserConnections[Owner[c]]
               /\ Users'[Owner[c]] = Users[Owner[c]]
    <3>1. at.closer[e] \in {"deleting", "forget"}
      BY <2>9 DEF CloseDelete, CloseForget, Step
    <3>2. Owner[e] # Owner[c]
      BY <2>5, <3>1
    <3> QED BY <1>1, <2>9, <3>2 DEF CloseDelete, CloseForget, Published
  <2>10. CASE HbRemove
    <3>1. at.auth[c] = "done" => Users'[Owner[c]] = Users[Owner[c]]
      BY <1>1, <2>2, <2>3, <2>10 DEF HbRemove, Published
    <3> QED BY <2>7, <2>6, <2>10, <3>1 DEF HbRemove
  <2>11. ~AuthPublish(c)
    BY <1>3 DEF Published, AuthPublish, Step
  <2>12. CASE UNCHANGED maps
    BY <2>6, <2>7, <2>12 DEF maps
  <2> QED BY <2>6, <2>7, <2>8, <2>9, <2>10, <2>11, <2>12, MapsChange
<1> QED BY <1>1, <1>2, <1>3 DEF LabelsMove

\* A listed connection has been answered by its login handler.
LEMMA ListedAnswered ==
  ASSUME TypeOK, MapInv PROVE Listed \subseteq Answered /\ Answered \subseteq Published
<1>1. ASSUME NEW c \in Conns, NEW u \in UserIds, Users[u] = c PROVE c \in Answered
  <2>1. Users[u] # None
    BY <1>1, ConstantsAssumption
  <2> QED BY <1>1, <2>1 DEF MapInv, Answered
<1> QED BY <1>1 DEF Listed, Answered, Published

\* Tracks come from published connections of other users.
LEMMA TrackStep ==
  ASSUME TypeOK, LabelInv, TrackInv, TodoInv, Next
  PROVE  TrackInv'
<1>1. /\ Published \subseteq Published' /\ Answered \subseteq Answered'
      /\ MemberTracks \in [Conns -> SUBSET UserIds] /\ None \notin Conns
      /\ todo.sync \in [to : Conns \cup {None}, from : Conns \cup {None}]
  BY LabelsStep, ConstantsAssumption DEF TypeOK, LabelsMove
<1> SUFFICES ASSUME NEW x \in Conns
             PROVE  /\ IsFiniteSet(MemberTracks'[x])
                    /\ \A u \in MemberTracks'[x] :
                          /\ x \in Answered /\ u # Owner[x]
                          /\ \E e \in Published : Owner[e] = u
  BY <1>1 DEF TrackInv, Answered
<1>2. CASE MemberTracks'[x] \subseteq MemberTracks[x]
  BY <1>2, FS_Subset DEF TrackInv, Answered
<1>3. ASSUME NEW c \in Conns, AuthPublish(c) \/ CloseDie(c) \/ HbExpire(c) \/ HbKill(c)
      PROVE  MemberTracks'[x] \subseteq MemberTracks[x]
  BY <1>3 DEF AuthPublish, CloseDie, HbExpire, HbKill
<1>4. ASSUME NEW c \in Conns, CloseClear(c) PROVE MemberTracks'[x] \subseteq MemberTracks[x]
  BY <1>1, <1>4 DEF CloseClear
<1>5. ASSUME NEW c \in Conns, NEW d \in Conns, CloseSweep(c, d)
      PROVE  MemberTracks'[x] \subseteq MemberTracks[x]
  BY <1>1, <1>5 DEF CloseSweep
<1>6. CASE SyncStore
  <2> DEFINE d == todo.sync.from
  <2>1. CASE todo.sync.to # x
    BY <1>1, <1>2, <1>6, <2>1 DEF SyncStore
  <2>2. CASE todo.sync.to = x
    <3>1. MemberTracks'[x] = MemberTracks[x] \cup {Owner[d]}
      BY <1>1, <1>6, <2>2 DEF SyncStore
    <3>2. x \in Answered /\ d \in Published /\ Owner[d] # Owner[x]
      BY <1>1, <1>6, <2>2 DEF SyncStore, TodoInv, Answered
    <3>3. IsFiniteSet(MemberTracks[x])
      BY DEF TrackInv
    <3>4. IsFiniteSet(MemberTracks'[x])
      BY <3>1, <3>3, FS_AddElement
    <3>5. \A u \in MemberTracks[x] : u # Owner[x] /\ \E e \in Published : Owner[e] = u
      BY DEF TrackInv
    <3> QED BY <3>1, <3>2, <3>4, <3>5
  <2> QED BY <2>1, <2>2
<1> QED BY <1>2, <1>3, <1>4, <1>5, <1>6, TracksChange

\* What the loops range over, and the pair the renegotiation pass is at.
LEMMA TodoStep ==
  ASSUME TypeOK, LabelInv, MapInv, TodoInv, Next
  PROVE  TodoInv'
<1>1. /\ LabelsMove /\ None \notin Conns
      /\ todo \in [closer : [Conns -> SUBSET Conns], hb : [{None} -> SUBSET Conns],
                   sync : [to : Conns \cup {None}, from : Conns \cup {None}]]
      /\ at \in Labels
  BY LabelsStep, ConstantsAssumption DEF TypeOK
<1>2. \A c \in Conns : todo'.closer[c] # {} => at'.closer[c] = "sweep"
  <2> SUFFICES ASSUME NEW x \in Conns, todo'.closer[x] # {} PROVE at'.closer[x] = "sweep"
    OBVIOUS
  <2>1. todo'.closer[x] \subseteq todo.closer[x] \/ CloseList(x)
    <3>1. CASE UNCHANGED todo
      BY <3>1
    <3>2. ASSUME NEW c \in Conns, HbPass(c) \/ HbExpire(c) \/ HbKill(c)
          PROVE  todo'.closer = todo.closer
      BY <1>1, <3>2 DEF HbPass, HbExpire, HbKill, HbDoneWith
    <3>3. ASSUME NEW c \in Conns, SyncUser(c) \/ SyncPick(c) PROVE todo'.closer = todo.closer
      BY <1>1, <3>3 DEF SyncUser, SyncPick
    <3>4. CASE SyncStore \/ SyncLeave \/ HbList
      BY <1>1, <3>4 DEF SyncStore, SyncLeave, HbList
    <3>5. ASSUME NEW c \in Conns, NEW d \in Conns, CloseSweep(c, d)
          PROVE  todo'.closer[x] \subseteq todo.closer[x]
      BY <1>1, <3>5 DEF CloseSweep
    <3>6. ASSUME NEW c \in Conns, CloseList(c), c # x PROVE todo'.closer[x] = todo.closer[x]
      BY <1>1, <3>6 DEF CloseList
    <3> QED BY <3>1, <3>2, <3>3, <3>4, <3>5, <3>6, TodoChange
  <2>2. CASE CloseList(x)
    BY <1>1, <2>2 DEF CloseList, Step, Labels
  <2>3. CASE todo.closer[x] # {}
    <3>1. at.closer[x] = "sweep"
      BY <2>3 DEF TodoInv
    <3>2. ASSUME CloseReturn(x) PROVE FALSE
      BY <2>3, <3>2 DEF CloseReturn
    <3> QED BY <1>1, <3>1, <3>2 DEF LabelsMove
  <2> QED BY <2>1, <2>2, <2>3
<1> DEFINE Pair == /\ todo'.sync.to # None => todo'.sync.to \in Answered
                   /\ todo'.sync.from # None =>
                         /\ todo'.sync.to # None
                         /\ Owner[todo'.sync.from] # Owner[todo'.sync.to]
                         /\ todo'.sync.from \in Published
<1>3. Pair
  <2>0. /\ todo.sync.to # None => todo.sync.to \in Answered
        /\ todo.sync.from # None =>
              /\ todo.sync.to # None
              /\ Owner[todo.sync.from] # Owner[todo.sync.to]
              /\ todo.sync.from \in Published
    BY <1>1 DEF TodoInv, Answered
  <2>1. CASE todo'.sync = todo.sync
    BY <2>0, <2>1
  <2>2. ASSUME NEW c \in Conns, HbPass(c) \/ HbExpire(c) \/ HbKill(c) \/ CloseList(c)
        PROVE  todo'.sync = todo.sync
    BY <1>1, <2>2 DEF HbPass, HbExpire, HbKill, HbDoneWith, CloseList
  <2>3. ASSUME NEW c \in Conns, SyncUser(c) PROVE Pair
    <3>1. todo'.sync.to = c /\ todo'.sync.from = None
      BY <1>1, <2>3 DEF SyncUser
    <3>2. c \in Answered
      BY <2>3, ListedAnswered DEF SyncUser
    <3> QED BY <3>1, <3>2
  <2>4. ASSUME NEW d \in Conns, SyncPick(d) PROVE Pair
    <3>1. todo'.sync.to = todo.sync.to /\ todo'.sync.from = d
      BY <1>1, <2>4 DEF SyncPick
    <3>2. d \in Published /\ todo.sync.to # None /\ Owner[d] # Owner[todo.sync.to]
      BY <2>4, ListedAnswered DEF SyncPick
    <3> QED BY <2>0, <3>1, <3>2
  <2>5. CASE SyncStore
    <3>1. todo'.sync.to = todo.sync.to /\ todo'.sync.from = None
      BY <1>1, <2>5 DEF SyncStore
    <3> QED BY <2>0, <3>1
  <2>6. CASE SyncLeave
    <3>1. todo'.sync.to = None /\ todo'.sync.from = None
      BY <1>1, <2>6 DEF SyncLeave
    <3> QED BY <3>1
  <2>7. CASE HbList
    BY <1>1, <2>1, <2>7 DEF HbList
  <2>8. ASSUME NEW c \in Conns, NEW d \in Conns, CloseSweep(c, d)
        PROVE  todo'.sync = todo.sync
    BY <1>1, <2>8 DEF CloseSweep
  <2> HIDE DEF Pair
  <2> QED BY <2>1, <2>2, <2>3, <2>4, <2>5, <2>6, <2>7, <2>8, TodoChange
<1> QED BY <1>1, <1>2, <1>3 DEF TodoInv, LabelsMove, Answered

\* An RUnlock in excess takes three connections.
LEMMA StrayStep ==
  ASSUME TypeOK, LabelInv, CompanyLockInv, FiniteInv, TrackInv, TodoInv, DownInv,
         StrayNeedsThree, FiniteInv', TypeOK', Next
  PROVE  StrayNeedsThree'
<1> DEFINE Three == \E c, d, e \in Published : c # d /\ d # e /\ c # e
<1>1. Published \subseteq Published'
  BY LabelsStep DEF TypeOK, LabelsMove
<1>2. CASE Three
  BY <1>1, <1>2 DEF StrayNeedsThree
<1>3. CASE companyMu.extra = 0 /\ ~crashed
  <2>1. companyMu \in Mutexes(CompanyTokens) /\ companyMu' \in Mutexes(CompanyTokens)
    BY DEF TypeOK
  <2>2. Cardinality(companyMu'.held) \in Nat
    BY FS_CardinalityType DEF FiniteInv
  <2>3. CASE UNCHANGED <<companyMu, crashed>>
    BY <1>3, <2>3 DEF StrayNeedsThree
  <2>4. ASSUME NEW r, NEW x, LockCall(r, x) PROVE companyMu'.extra = 0 /\ ~crashed'
    <3>1. CASE TakeWrite(r, x)
      BY <1>3, <2>1, <3>1 DEF TakeWrite, Announce, Mutexes
    <3>4. CASE DropWrite(r, x)
      BY <1>3, <2>1, <3>4 DEF DropWrite, Unlock, Mutexes
    <3>2. ASSUME NEW i, TakeRead(r, x, i) PROVE companyMu'.extra = 0 /\ ~crashed'
      BY <1>3, <2>1, <3>2 DEF TakeRead, RLock, Mutexes
    <3>3. ASSUME NEW is, DropRead(r, x, is) PROVE companyMu'.extra = 0 /\ ~crashed'
      <4>1. companyMu'.extra = 0
        BY <1>3, <2>1, <3>3 DEF DropRead, RUnlock, Mutexes
      <4>2. ~Unbalanced(companyMu')
        BY <2>2, <4>1 DEF Unbalanced
      <4> QED BY <3>3, <4>1, <4>2 DEF DropRead
    <3> QED BY <2>4, <3>1, <3>2, <3>3, <3>4 DEF LockCall, Leave
  <2>5. ASSUME NEW c \in Conns, NEW d \in Conns, CloseSweep(c, d)
        PROVE  Three \/ (companyMu'.extra = 0 /\ ~crashed')
    <3>1. PICK n \in Passed(c, d) : companyMu' = StrayRUnlock(companyMu, n)
      BY <2>5 DEF CloseSweep
    <3>2. n \in Nat /\ companyMu'.extra = n
      BY <1>3, <2>1, <3>1, PassedNat DEF StrayRUnlock, Mutexes
    <3>3. CASE n = 0
      <4>1. ~Unbalanced(companyMu')
        BY <2>2, <3>2, <3>3 DEF Unbalanced
      <4> QED BY <2>5, <3>2, <3>3, <4>1 DEF CloseSweep
    <3>4. CASE n > 0
      <4>1. PICK u \in MemberTracks[d] : u # Owner[c]
        BY <3>4, PassedNat
      <4>2. PICK e \in Published : Owner[e] = u
        BY <4>1 DEF TrackInv
      <4>3. d \in Published /\ e # d
        BY <4>1, <4>2 DEF TrackInv, Published
      <4>4. c \in Published
        BY <2>5 DEF CloseSweep, LabelInv, Published
      <4>5. c # d
        BY <2>5, <4>1 DEF CloseSweep, DownInv, PastDelete, PastOut
      <4> QED BY <4>1, <4>2, <4>3, <4>4, <4>5
    <3> QED BY <3>2, <3>3, <3>4
  <2> QED BY <1>1, <2>3, <2>4, <2>5, CompanyMuChange DEF CompanyMuMove, StrayNeedsThree
<1>4. companyMu.extra \in Nat
  BY DEF TypeOK, Mutexes
<1> QED BY <1>2, <1>3, <1>4 DEF StrayNeedsThree

-----------------------------------------------------------------------------
(* Who waits at the locks.                                                  *)

\* Of the goroutines that call the company's lock only <<r, x>> moves, and other
\* teardowns begin.
GoesTo(r, x, to) ==
    /\ x \in DOMAIN at[r] /\ at'[r][x] = to
    /\ \A s \in LockRoles : DOMAIN at'[s] = DOMAIN at[s]
    /\ \A s \in LockRoles : \A y \in DOMAIN at[s] :
          \/ s = r /\ y = x
          \/ at'[s][y] = at[s][y]
          \/ s = "closer" /\ at[s][y] = "none" /\ at'[s][y] = "die"

\* None of them moves, except that teardowns begin.
NoneGoes ==
    /\ \A s \in LockRoles : DOMAIN at'[s] = DOMAIN at[s]
    /\ \A s \in LockRoles : \A y \in DOMAIN at[s] :
          \/ at'[s][y] = at[s][y]
          \/ s = "closer" /\ at[s][y] = "none" /\ at'[s][y] = "die"

\* A step of one of these goroutines.
LEMMA StepGoes ==
  ASSUME at \in Labels, NEW r \in LockRoles, NEW x \in DOMAIN at[r], NEW from, NEW to, 
           Step(r, x, from, to)
    PROVE  at[r][x] = from /\ GoesTo(r, x, to)
<1>1. CASE r = "auth"
  BY <1>1 DEF Step, GoesTo, LockRoles, Labels
<1>2. CASE r = "closer"
  BY <1>2 DEF Step, GoesTo, LockRoles, Labels
<1>3. CASE r = "status"
  BY <1>3 DEF Step, GoesTo, LockRoles, Labels
<1>4. CASE r = "hb"
  BY <1>4 DEF Step, GoesTo, LockRoles, Labels
<1> QED BY <1>1, <1>2, <1>3, <1>4 DEF LockRoles

\* Who waits at the company's lock does not change if nobody calls it.
LEMMA WaitNone ==
  ASSUME CompanyWaitInv, NoneGoes, companyMu' = companyMu
    PROVE  CompanyWaitInv'
<1>1. \A r \in LockRoles, i \in {"outer", "inner"} :
         Readers(at', r, i) = Readers(at, r, i) /\ Writers(at', r) = Writers(at, r)
  BY DEF NoneGoes, Readers, Writers, ReadLabels, WriteLabels, LockRoles
<1> QED BY <1>1 DEF CompanyWaitInv

\* How a call of the lock keeps tokens and labels together.
LEMMA WaitMoves ==
  ASSUME NEW r \in LockRoles, NEW x, NEW to, GoesTo(r, x, to)
    PROVE  /\ \A s \in LockRoles, y \in Conns \cup {None}, i \in {"outer", "inner"} :
                 ~(s = r /\ y = x) =>
                    /\ y \in Readers(at', s, i) <=> y \in Readers(at, s, i)
                    /\ y \in Writers(at', s) <=> y \in Writers(at, s)
           /\ \A i \in {"outer", "inner"} : x \in Readers(at', r, i) <=> to \in ReadLabels[r][i]
           /\ x \in Writers(at', r) <=> to \in WriteLabels[r]
<1>1. ASSUME NEW s \in LockRoles, NEW y, ~(s = r /\ y = x), NEW i \in {"outer", "inner"}
      PROVE  /\ y \in Readers(at', s, i) <=> y \in Readers(at, s, i)
             /\ y \in Writers(at', s) <=> y \in Writers(at, s)
  BY <1>1 DEF GoesTo, Readers, Writers, ReadLabels, WriteLabels, LockRoles
<1>2. /\ \A i \in {"outer", "inner"} : x \in Readers(at', r, i) <=> to \in ReadLabels[r][i]
      /\ x \in Writers(at', r) <=> to \in WriteLabels[r]
  BY DEF GoesTo, Readers, Writers
<1> QED BY <1>1, <1>2

\* A goroutine goes on without a call of the lock.
LEMMA WaitGoes ==
  ASSUME CompanyWaitInv, NEW r \in LockRoles, NEW x \in Conns \cup {None}, NEW to, GoesTo(r, x, to),
           companyMu' = companyMu,
           \A i \in {"outer", "inner"} : at[r][x] \in ReadLabels[r][i] => to \in ReadLabels[r][i],
           at[r][x] \in WriteLabels[r] <=> to \in WriteLabels[r]
    PROVE  CompanyWaitInv'
<1>1. x \in DOMAIN at[r]
  BY DEF GoesTo
<1> QED BY <1>1, WaitMoves DEF CompanyWaitInv, Readers, Writers

\* It calls RLock and owns the token from then on.
LEMMA WaitTakeRead ==
  ASSUME companyMu \in Mutexes(CompanyTokens), CompanyWaitInv,
           NEW r \in LockRoles, NEW x \in Conns \cup {None}, NEW to, GoesTo(r, x, to),
           NEW i \in {"outer", "inner"}, TakeRead(r, x, i), to \in ReadLabels[r][i],
           \A j \in {"outer", "inner"} : at[r][x] \in ReadLabels[r][j] => to \in ReadLabels[r][j],
           at[r][x] \notin WriteLabels[r], to \notin WriteLabels[r]
    PROVE  CompanyWaitInv'
<1>1. x \in DOMAIN at[r]
  BY DEF GoesTo
<1>2. /\ companyMu'.held = companyMu.held \cup {<<r, x, i>>} /\ companyMu'.writer = companyMu.writer
      /\ companyMu'.parked # companyMu.parked => companyMu.writer # NoThread
  BY DEF TakeRead, RLock, Mutexes
<1>3. ASSUME NEW s \in LockRoles, NEW y \in Conns \cup {None}, NEW j \in {"outer", "inner"},
             <<s, y, j>> \in companyMu'.held
      PROVE  y \in Readers(at', s, j)
  <2>1. CASE s = r /\ y = x
    <3>1. <<r, x, j>> \in companyMu.held \/ j = i
      BY <1>2, <1>3, <2>1
    <3>2. to \in ReadLabels[r][j]
      BY <3>1 DEF CompanyWaitInv, Readers, Writers
    <3> QED BY <2>1, <3>2, WaitMoves
  <2>2. CASE ~(s = r /\ y = x)
    <3>1. <<s, y, j>> \in companyMu.held
      BY <1>2, <1>3, <2>2
    <3> QED BY <2>2, <3>1, WaitMoves DEF CompanyWaitInv
  <2> QED BY <2>1, <2>2
<1>4. ASSUME NEW s \in LockRoles, NEW y \in Conns \cup {None}
      PROVE  companyMu'.writer = <<s, y>> <=> y \in Writers(at', s)
  <2>1. y \in Writers(at', s) <=> y \in Writers(at, s)
    <3>1. CASE s = r /\ y = x
      BY <1>1, <3>1, WaitMoves DEF Writers
    <3>2. CASE ~(s = r /\ y = x)
      BY <3>2, WaitMoves
    <3> QED BY <3>1, <3>2
  <2> QED BY <1>2, <2>1 DEF CompanyWaitInv
<1> QED BY <1>2, <1>3, <1>4 DEF CompanyWaitInv

\* It calls RUnlock for every token it owns.
LEMMA WaitDropRead ==
  ASSUME companyMu \in Mutexes(CompanyTokens), CompanyWaitInv,
           NEW r \in LockRoles, NEW x \in Conns \cup {None}, NEW to, GoesTo(r, x, to),
           NEW is \in SUBSET {"outer", "inner"}, DropRead(r, x, is),
           \A j \in {"outer", "inner"} \ is : at[r][x] \notin ReadLabels[r][j],
           at[r][x] \notin WriteLabels[r], to \notin WriteLabels[r]
    PROVE  CompanyWaitInv'
<1>1. x \in DOMAIN at[r]
  BY DEF GoesTo
<1>2. /\ companyMu'.held = companyMu.held \ {<<r, x, i>> : i \in is}
      /\ companyMu'.writer = companyMu.writer /\ companyMu'.parked = companyMu.parked
  BY DEF DropRead, RUnlock, Mutexes
<1>3. ASSUME NEW s \in LockRoles, NEW y \in Conns \cup {None}, NEW j \in {"outer", "inner"},
             <<s, y, j>> \in companyMu'.held
      PROVE  y \in Readers(at', s, j)
  <2>1. <<s, y, j>> \in companyMu.held /\ ~(s = r /\ y = x /\ j \in is)
    BY <1>2, <1>3
  <2>2. ~(s = r /\ y = x)
    BY <2>1 DEF CompanyWaitInv, Readers, Writers
  <2> QED BY <2>1, <2>2, WaitMoves DEF CompanyWaitInv
<1>4. ASSUME NEW s \in LockRoles, NEW y \in Conns \cup {None}
      PROVE  companyMu'.writer = <<s, y>> <=> y \in Writers(at', s)
  <2>1. y \in Writers(at', s) <=> y \in Writers(at, s)
    <3>1. CASE s = r /\ y = x
      BY <1>1, <3>1, WaitMoves DEF Writers
    <3>2. CASE ~(s = r /\ y = x)
      BY <3>2, WaitMoves
    <3> QED BY <3>1, <3>2
  <2> QED BY <1>2, <2>1 DEF CompanyWaitInv
<1> QED BY <1>2, <1>3, <1>4 DEF CompanyWaitInv

\* It calls Lock and is the announced writer from then on.
LEMMA WaitTakeWrite ==
  ASSUME companyMu \in Mutexes(CompanyTokens), CompanyWaitInv,
           NEW r \in LockRoles, NEW x \in Conns \cup {None}, NEW to, GoesTo(r, x, to),
           TakeWrite(r, x), to \in WriteLabels[r],
           \A j \in {"outer", "inner"} : at[r][x] \notin ReadLabels[r][j]
    PROVE  CompanyWaitInv'
<1>1. x \in DOMAIN at[r]
  BY DEF GoesTo
<1>2. /\ companyMu'.held = companyMu.held /\ companyMu'.parked = companyMu.parked
      /\ companyMu.writer = NoThread /\ companyMu'.writer = <<r, x>>
  BY DEF TakeWrite, CanAnnounce, Announce, Mutexes
<1>3. ASSUME NEW s \in LockRoles, NEW y \in Conns \cup {None}, NEW j \in {"outer", "inner"},
             <<s, y, j>> \in companyMu'.held
      PROVE  y \in Readers(at', s, j)
  <2>1. <<s, y, j>> \in companyMu.held
    BY <1>2, <1>3
  <2>2. ~(s = r /\ y = x)
    BY <2>1 DEF CompanyWaitInv, Readers, Writers
  <2> QED BY <2>1, <2>2, WaitMoves DEF CompanyWaitInv
<1>4. ASSUME NEW s \in LockRoles, NEW y \in Conns \cup {None}
      PROVE  companyMu'.writer = <<s, y>> <=> y \in Writers(at', s)
  <2>1. CASE s = r /\ y = x
    BY <1>2, <2>1, WaitMoves
  <2>2. CASE ~(s = r /\ y = x)
    <3>1. companyMu.writer # <<s, y>> /\ companyMu'.writer # <<s, y>>
      BY <1>2, <2>2 DEF NoThread, LockRoles
    <3> QED BY <2>2, <3>1, WaitMoves DEF CompanyWaitInv
  <2> QED BY <2>1, <2>2
<1>5. companyMu'.writer # NoThread
  BY <1>2 DEF NoThread, LockRoles
<1> QED BY <1>3, <1>4, <1>5 DEF CompanyWaitInv

\* Its Lock has returned and it calls Unlock.
LEMMA WaitDropWrite ==
  ASSUME companyMu \in Mutexes(CompanyTokens), CompanyWaitInv,
           NEW r \in LockRoles, NEW x \in Conns \cup {None}, NEW to, GoesTo(r, x, to),
           DropWrite(r, x), to \notin WriteLabels[r],
           \A j \in {"outer", "inner"} : at[r][x] \notin ReadLabels[r][j]
    PROVE  CompanyWaitInv'
<1>1. x \in DOMAIN at[r]
  BY DEF GoesTo
<1>2. /\ companyMu'.held = companyMu.held /\ companyMu'.parked = {}
      /\ companyMu.writer = <<r, x>> /\ companyMu'.writer = NoThread
  BY DEF DropWrite, Granted, Unlock, Mutexes
<1>3. ASSUME NEW s \in LockRoles, NEW y \in Conns \cup {None}, NEW j \in {"outer", "inner"},
             <<s, y, j>> \in companyMu'.held
      PROVE  y \in Readers(at', s, j)
  <2>1. <<s, y, j>> \in companyMu.held
    BY <1>2, <1>3
  <2>2. ~(s = r /\ y = x)
    BY <2>1 DEF CompanyWaitInv, Readers, Writers
  <2> QED BY <2>1, <2>2, WaitMoves DEF CompanyWaitInv
<1>4. ASSUME NEW s \in LockRoles, NEW y \in Conns \cup {None}
      PROVE  companyMu'.writer = <<s, y>> <=> y \in Writers(at', s)
  <2>1. companyMu'.writer # <<s, y>>
    BY <1>2 DEF NoThread, LockRoles
  <2>2. CASE s = r /\ y = x
    BY <2>1, <2>2, WaitMoves
  <2>3. CASE ~(s = r /\ y = x)
    <3>1. companyMu.writer # <<s, y>>
      BY <1>2, <2>3
    <3> QED BY <2>1, <2>3, <3>1, WaitMoves DEF CompanyWaitInv
  <2> QED BY <2>2, <2>3
<1> QED BY <1>2, <1>3, <1>4 DEF CompanyWaitInv

\* A step that does not call the lock.
LEMMA WaitSteps ==
  ASSUME at \in Labels, CompanyWaitInv, NEW r \in LockRoles, NEW x \in Conns \cup {None},
           x \in DOMAIN at[r], NEW from, NEW to, Step(r, x, from, to), companyMu' = companyMu,
           \A i \in {"outer", "inner"} : from \in ReadLabels[r][i] => to \in ReadLabels[r][i],
           from \in WriteLabels[r] <=> to \in WriteLabels[r]
    PROVE  CompanyWaitInv'
<1>1. at[r][x] = from /\ GoesTo(r, x, to)
  BY StepGoes
<1> QED BY <1>1, WaitGoes

\* Every token of the company's lock and the announced writer are those of a
\* goroutine at a fitting label, whatever the others do.
LEMMA CompanyWaitStep ==
  ASSUME at \in Labels, companyMu \in Mutexes(CompanyTokens), CompanyWaitInv, Next
  PROVE  CompanyWaitInv'
<1> USE DEF ReadLabels, WriteLabels
<1>0. /\ {"auth", "closer", "status", "hb"} = LockRoles
      /\ DOMAIN at.auth = Conns /\ DOMAIN at.closer = Conns
      /\ DOMAIN at.status = Conns \cup {None} /\ DOMAIN at.hb = {None}
  BY DEF Labels, LockRoles
<1>1. ASSUME NEW c \in Conns, AuthBegin(c) \/ AuthStep(c) PROVE CompanyWaitInv'
  <2>1. CASE AuthRoomLock(c)
    BY <1>0, <2>1, StepGoes, WaitTakeWrite DEF AuthRoomLock
  <2>2. CASE AuthInsertLock(c)
    BY <1>0, <2>2, StepGoes, WaitTakeWrite DEF AuthInsertLock
  <2>3. CASE AuthInsert(c)
    BY <1>0, <2>3, StepGoes, WaitDropWrite DEF AuthInsert
  <2>4. CASE AuthRoomsDone(c)
    <3>1. at' = [at EXCEPT !.auth[c] = "register", !.orch[c] = "started"]
      BY <2>4 DEF AuthRoomsDone, StartOrchestrator
    <3>2. GoesTo("auth", c, "register")
      BY <1>0, <3>1 DEF GoesTo, LockRoles, Labels
    <3>3. CASE at.auth[c] = "rooms" /\ companyMu' = companyMu
      BY <1>0, <3>2, <3>3, WaitGoes
    <3>4. CASE at.auth[c] = "storing" /\ DropWrite("auth", c)
      BY <1>0, <3>2, <3>4, WaitDropWrite
    <3> QED BY <2>4, <3>3, <3>4 DEF AuthRoomsDone, StartOrchestrator, locks
  <2>5. ASSUME NEW from \in AuthLabels, NEW to \in AuthLabels, Step("auth", c, from, to),
               companyMu' = companyMu, {from, to} \cap {"storing", "inserting"} = {}
        PROVE  CompanyWaitInv'
    <3>1. from \notin {"storing", "inserting"} /\ to \notin {"storing", "inserting"}
      BY <2>5
    <3> QED BY <1>0, <2>5, <3>1, WaitSteps
  <2>6. CASE AuthBegin(c) \/ AuthLook(c) \/ AuthCheckExisting(c)
    BY <2>5, <2>6 DEF AuthBegin, AuthLook, AuthCheckExisting, locks, AuthLabels
  <2>7. CASE AuthCreateCompany(c) \/ AuthCreateAnswer(c) \/ AuthPublish(c)
    BY <2>5, <2>7 DEF AuthCreateCompany, AuthCreateAnswer, AuthPublish, locks, AuthLabels
  <2>8. CASE AuthRoomGlobal(c) \/ AuthRegister(c)
    BY <2>5, <2>8 DEF AuthRoomGlobal, AuthRegister, locks, AuthLabels
  <2> QED BY <1>1, <2>1, <2>2, <2>3, <2>4, <2>6, <2>7, <2>8 DEF AuthStep
<1>2. ASSUME NEW c \in Conns, PeerStep(c) \/ OrchStep(c) PROVE CompanyWaitInv'
  <2>1. companyMu' = companyMu
    BY <1>2 DEF PeerStep, OrchStep, Connect, PeerDown, OpenChannel, CloseChannel, OrchCheck,
         OrchRegister, SenderLock, SenderRange, locks
  <2>2. CASE PeerDown(c)
    <3>1. at' = at \/ at' = [at EXCEPT !.closer[c] = CloseDone(c)]
      BY <2>2 DEF PeerDown
    <3>2. NoneGoes
      BY <3>1 DEF NoneGoes, CloseDone, Labels, LockRoles
    <3> QED BY <2>1, <3>2, WaitNone
  <2>3. CASE OrchCheck(c)
    <3>1. PICK l \in {"die", at.closer[c]} :
             /\ l # at.closer[c] => at.closer[c] = "none"
             /\ at' = [at EXCEPT !.orch[c] = "checked", !.closer[c] = l]
      BY <2>3 DEF OrchCheck, CloseDone
    <3>2. NoneGoes
      BY <3>1 DEF NoneGoes, Labels, LockRoles
    <3> QED BY <2>1, <3>2, WaitNone
  <2>4. CASE ~(PeerDown(c) \/ OrchCheck(c))
    <3>1. at' = at \/ \E r \in {"sender", "orch"} : \E from, to : Step(r, c, from, to)
      BY <1>2, <2>4 DEF PeerStep, OrchStep, Connect, OpenChannel, CloseChannel, OrchRegister,
           SenderLock, SenderRange
    <3>2. NoneGoes
      BY <3>1 DEF NoneGoes, Step, Labels, LockRoles
    <3> QED BY <2>1, <3>2, WaitNone
  <2> QED BY <2>2, <2>3, <2>4
<1>3. ASSUME NEW x \in Conns \cup {None}, StatusOuter(x) \/ StatusStep(x)
      PROVE  CompanyWaitInv'
  <2>1. CASE StatusOuter(x)
    BY <1>0, <2>1, StepGoes, WaitTakeRead DEF StatusOuter
  <2>2. CASE StatusInner("status", x)
    BY <1>0, <2>2, StepGoes, WaitTakeRead DEF StatusInner
  <2>3. CASE StatusEnd("status", x, "idle")
    BY <1>0, <2>3, StepGoes, WaitDropRead DEF StatusEnd
  <2> QED BY <1>3, <2>1, <2>2, <2>3 DEF StatusStep
<1>4. ASSUME NEW c \in Conns, CloserStep(c) PROVE CompanyWaitInv'
  <2>1. CASE CloseStatus(c)
    BY <1>0, <2>1, StepGoes, WaitTakeRead DEF CloseStatus
  <2>2. CASE StatusInner("closer", c)
    BY <1>0, <2>2, StepGoes, WaitTakeRead DEF StatusInner
  <2>3. CASE StatusEnd("closer", c, "delete")
    BY <1>0, <2>3, StepGoes, WaitDropRead DEF StatusEnd
  <2>4. CASE CloseScan(c)
    BY <1>0, <2>4, StepGoes, WaitTakeRead DEF CloseScan
  <2>5. CASE CloseReturn(c)
    BY <1>0, <2>5, StepGoes, WaitDropRead DEF CloseReturn
  <2>6. CASE CloseDeleteLock(c)
    BY <1>0, <2>6, StepGoes, WaitTakeWrite DEF CloseDeleteLock
  <2>7. CASE CloseDelete(c)
    BY <1>0, <2>7, StepGoes, WaitDropWrite DEF CloseDelete
  <2>8. CASE CloseOutLock(c) \/ CloseOut(c)
    BY <1>0, <2>8, WaitSteps DEF CloseOutLock, CloseOut
  <2>9. CASE CloseDie(c) \/ CloseClear(c)
    BY <1>0, <2>9, WaitSteps DEF CloseDie, CloseClear, locks
  <2>10. CASE CloseForget(c) \/ CloseList(c)
    BY <1>0, <2>10, WaitSteps DEF CloseForget, CloseList, locks
  <2>11. ASSUME NEW d \in Conns, CloseSweep(c, d) PROVE CompanyWaitInv'
    <3>1. /\ companyMu'.held = companyMu.held /\ companyMu'.parked = companyMu.parked
          /\ companyMu'.writer = companyMu.writer
      BY <2>11 DEF CloseSweep, StrayRUnlock, Mutexes
    <3>2. at' = at
      BY <2>11 DEF CloseSweep
    <3> QED BY <3>1, <3>2 DEF CompanyWaitInv
  <2> QED BY <1>4, <2>1, <2>2, <2>3, <2>4, <2>5, <2>6, <2>7, <2>8, <2>9, <2>10, <2>11 DEF CloserStep
<1>5. CASE HbStart \/ HbStep
  <2>0. None \in Conns \cup {None} /\ None \in DOMAIN at.hb /\ "hb" \in LockRoles
    BY <1>0
  <2>1. CASE HbStart
    BY <1>0, <2>0, <2>1, StepGoes, WaitTakeRead DEF HbStart
  <2>2. CASE HbList
    BY <1>0, <2>0, <2>2, WaitSteps DEF HbList, locks
  <2>3. CASE HbRelease
    BY <1>0, <2>0, <2>3, StepGoes, WaitDropRead DEF HbRelease
  <2>4. CASE HbRemoveLock
    BY <1>0, <2>0, <2>4, StepGoes, WaitTakeWrite DEF HbRemoveLock
  <2>5. CASE HbRemove
    <3> DEFINE told == {e \in Listed : Died[e] /\ pc[e] # "closed" /\ at.orch[e] = "registered"}
               f == [e \in Conns |-> IF e \in told THEN CloseDone(e) ELSE at.closer[e]]
    <3>1. \A e \in Conns : f[e] = at.closer[e] \/ (at.closer[e] = "none" /\ f[e] = "die")
      BY DEF CloseDone
    <3>2. /\ at' = [at EXCEPT !.hb[None] = "idle", !.closer = f]
          /\ at.hb[None] = "removing" /\ DropWrite("hb", None)
      BY <2>5 DEF HbRemove
    <3>3. DOMAIN f = Conns
      OBVIOUS
    <3> HIDE DEF f
    <3>4. GoesTo("hb", None, "idle")
      BY <1>0, <3>1, <3>2, <3>3 DEF GoesTo, LockRoles, Labels
    <3> QED BY <2>0, <3>2, <3>4, WaitDropWrite
  <2>6. ASSUME NEW c \in Conns, HbPass(c) \/ HbExpire(c) PROVE CompanyWaitInv'
    <3>1. at' = at /\ companyMu' = companyMu
      BY <2>6 DEF HbPass, HbExpire, locks
    <3> QED BY <3>1 DEF CompanyWaitInv
  <2>7. ASSUME NEW c \in Conns, HbKillLock(c) \/ HbKill(c) PROVE CompanyWaitInv'
    BY <1>0, <2>0, <2>7, WaitSteps DEF HbKillLock, HbKill
  <2> QED BY <1>5, <2>1, <2>2, <2>3, <2>4, <2>5, <2>6, <2>7 DEF HbStep
<1>6. CASE SyncStep \/ \E c, d \in Conns : MediaLeak(c, d)
  <2>1. at' = at /\ companyMu' = companyMu
    BY <1>6 DEF SyncStep, SyncUser, SyncPick, SyncStore, SyncLeave, MediaLeak, locks
  <2> QED BY <2>1 DEF CompanyWaitInv
<1> QED BY <1>1, <1>2, <1>3, <1>4, <1>5, <1>6 DEF Next, Environment, Goroutines

\* The writers of a connection's lock, and the data-channel goroutine inside it,
\* stay where their labels say.
LEMMA ConnWaitStep ==
  ASSUME TypeOK, ConnWaitInv, Next
  PROVE  ConnWaitInv'
<1>0. /\ at \in Labels
      /\ connMu \in [Conns -> Mutexes({SenderToken, LeakToken})]
      /\ SenderToken # LeakToken
      /\ \A c \in Conns : <<"closer", c>> # NoThread /\ <<"hb", None>> # NoThread
      /\ \A c \in Conns : <<"closer", c>> # <<"hb", None>>
  BY DEF TypeOK, SenderToken, LeakToken, NoThread
<1>1. CASE UNCHANGED <<connMu, out>> /\ NoConnMuUse
  BY <1>1 DEF ConnWaitInv, NoConnMuUse
<1>3. ASSUME NEW c \in Conns, OpenChannel(c) PROVE ConnWaitInv'
  BY <1>0, <1>3 DEF OpenChannel, ConnWaitInv, Step, Labels, locks
<1>4. ASSUME NEW c \in Conns, SenderRange(c) PROVE ConnWaitInv'
  BY <1>0, <1>4 DEF SenderRange, ConnWaitInv, Step, Labels, locks
<1>5. ASSUME NEW c \in Conns, SenderLock(c) PROVE ConnWaitInv'
  <2>1. /\ connMu'[c] = RLock(connMu[c], SenderToken)
        /\ \A d \in Conns : d # c => connMu'[d] = connMu[d]
    BY <1>0, <1>5 DEF SenderLock
  <2>2. /\ connMu'[c].held = connMu[c].held \cup {SenderToken}
        /\ connMu'[c].writer = connMu[c].writer
        /\ connMu'[c].parked # connMu[c].parked => connMu[c].writer # NoThread
    BY <1>0, <2>1 DEF RLock, Mutexes
  <2>3. /\ at'.sender = [at.sender EXCEPT ![c] = "locking"]
        /\ at'.closer = at.closer /\ at'.hb = at.hb /\ DOMAIN at.sender = Conns
    BY <1>0, <1>5 DEF SenderLock, Step, Labels
  <2> QED BY <2>1, <2>2, <2>3 DEF ConnWaitInv
<1>6. ASSUME NEW c \in Conns, NEW d \in Conns, MediaLeak(c, d) PROVE ConnWaitInv'
  BY <1>0, <1>6 DEF MediaLeak, CanRead, RLock, Mutexes, ConnWaitInv
<1>7. ASSUME NEW c \in Conns, CloseOutLock(c) PROVE ConnWaitInv'
  <2>1. /\ connMu'[c] = Announce(connMu[c], <<"closer", c>>) /\ connMu[c].writer = NoThread
        /\ \A d \in Conns : d # c => connMu'[d] = connMu[d]
    BY <1>0, <1>7 DEF CloseOutLock, CanAnnounce
  <2>2. /\ connMu'[c].held = connMu[c].held /\ connMu'[c].parked = connMu[c].parked
        /\ connMu'[c].writer = <<"closer", c>>
    BY <1>0, <2>1 DEF Announce, Mutexes
  <2>3. /\ at'.closer = [at.closer EXCEPT ![c] = "closing"]
        /\ at'.sender = at.sender /\ at'.hb = at.hb /\ DOMAIN at.closer = Conns
    BY <1>0, <1>7 DEF CloseOutLock, Step, Labels
  <2> QED BY <1>0, <2>1, <2>2, <2>3 DEF ConnWaitInv
<1>8. ASSUME NEW c \in Conns, CloseOut(c) PROVE ConnWaitInv'
  <2>1. /\ connMu'[c] = Unlock(connMu[c]) /\ connMu[c].writer = <<"closer", c>>
        /\ \A d \in Conns : d # c => connMu'[d] = connMu[d]
    BY <1>0, <1>8 DEF CloseOut, Granted
  <2>2. /\ connMu'[c].held = connMu[c].held /\ connMu'[c].parked = {}
        /\ connMu'[c].writer = NoThread
    BY <1>0, <2>1 DEF Unlock, Mutexes
  <2>3. /\ at'.closer = [at.closer EXCEPT ![c] = "scan"]
        /\ at'.sender = at.sender /\ at'.hb = at.hb /\ DOMAIN at.closer = Conns
    BY <1>0, <1>8 DEF CloseOut, Step, Labels
  <2>4. \A d \in Conns : connMu'[d].writer = <<"hb", None>> <=> connMu[d].writer = <<"hb", None>>
    BY <1>0, <2>1, <2>2
  <2>5. \A d \in Conns : connMu'[d].writer = <<"closer", d>> <=> at'.closer[d] = "closing"
    <3>1. at'.closer[c] = "scan" /\ \A d \in Conns : d # c => at'.closer[d] = at.closer[d]
      BY <2>3
    <3>2. connMu'[c].writer # <<"closer", c>>
      BY <1>0, <2>2
    <3>3. ASSUME NEW d \in Conns, d # c
          PROVE  connMu'[d].writer = <<"closer", d>> <=> at'.closer[d] = "closing"
      BY <2>1, <3>1, <3>3 DEF ConnWaitInv
    <3> QED BY <3>1, <3>2, <3>3
  <2> QED BY <1>0, <2>1, <2>2, <2>3, <2>4, <2>5 DEF ConnWaitInv
<1>9. ASSUME NEW c \in Conns, HbKillLock(c) PROVE ConnWaitInv'
  <2>1. /\ connMu'[c] = Announce(connMu[c], <<"hb", None>>) /\ connMu[c].writer = NoThread
        /\ \A d \in Conns : d # c => connMu'[d] = connMu[d]
    BY <1>0, <1>9 DEF HbKillLock, CanAnnounce
  <2>2. /\ connMu'[c].held = connMu[c].held /\ connMu'[c].parked = connMu[c].parked
        /\ connMu'[c].writer = <<"hb", None>>
    BY <1>0, <2>1 DEF Announce, Mutexes
  <2>3. /\ at.hb[None] = "mark" /\ at'.hb[None] = "killing"
        /\ at'.sender = at.sender /\ at'.closer = at.closer
    BY <1>0, <1>9 DEF HbKillLock, Step, Labels
  <2> QED BY <1>0, <2>1, <2>2, <2>3 DEF ConnWaitInv
<1>10. ASSUME NEW c \in Conns, HbKill(c) PROVE ConnWaitInv'
  <2>1. /\ connMu'[c] = Unlock(connMu[c]) /\ connMu[c].writer = <<"hb", None>>
        /\ \A d \in Conns : d # c => connMu'[d] = connMu[d]
    BY <1>0, <1>10 DEF HbKill, Granted
  <2>2. /\ connMu'[c].held = connMu[c].held /\ connMu'[c].parked = {}
        /\ connMu'[c].writer = NoThread
    BY <1>0, <2>1 DEF Unlock, Mutexes
  <2>3. /\ at.hb[None] = "killing" /\ at'.hb[None] = "mark"
        /\ at'.sender = at.sender /\ at'.closer = at.closer
    BY <1>0, <1>10 DEF HbKill, Step, Labels
  <2>4. \A d \in Conns : connMu'[d].writer # <<"hb", None>>
    BY <1>0, <2>1, <2>2 DEF ConnWaitInv
  <2> QED BY <1>0, <2>1, <2>2, <2>3, <2>4 DEF ConnWaitInv
<1> QED
  BY <1>0, <1>1, <1>3, <1>4, <1>5, <1>6, <1>7, <1>8, <1>9, <1>10, ConnMuUsers, ConnMuChange
  DEF ConnMuUse

\* A login looks into the user's earlier connection with UserConnectionsMutex held,
\* so that nobody deletes it meanwhile.
LEMMA LookStep ==
  ASSUME TypeOK, LabelInv, LookInv, Next
  PROVE  LookInv'
<1>0. /\ at \in Labels /\ UserConnections \in [UserIds -> Conns \cup {None}]
      /\ Owner \in [Conns -> UserIds] /\ None \notin Conns
  BY ConstantsAssumption DEF TypeOK
<1>1. ASSUME NEW c \in Conns, at'.auth[c] = "looking"
      PROVE  UserConnections'[Owner[c]] # None
  <2>1. CASE at.auth[c] = "looking"
    <3>1. UserConnections[Owner[c]] # None /\ ~UserConnectionsFree
      BY <2>1 DEF LookInv, UserConnectionsFree
    <3>2. CASE UNCHANGED maps
      BY <3>1, <3>2 DEF maps
    <3>3. ASSUME NEW d \in Conns, AuthPublish(d) \/ CloseForget(d) PROVE FALSE
      BY <3>1, <3>3 DEF AuthPublish, CloseForget
    <3>4. ASSUME NEW d \in Conns, AuthInsert(d) \/ CloseDelete(d)
          PROVE  UserConnections' = UserConnections
      BY <3>4 DEF AuthInsert, CloseDelete
    <3>5. CASE HbRemove
      BY <3>1, <3>5 DEF HbRemove
    <3> QED BY <3>1, <3>2, <3>3, <3>4, <3>5, MapsChange
  <2>2. CASE at.auth[c] # "looking"
    <3>1. AuthLook(c)
      BY <1>0, <1>1, <2>2, LabelsStep DEF LabelsMove
    <3>2. Earlier(c) # None /\ UserConnections' = UserConnections
      BY <1>0, <1>1, <3>1 DEF AuthLook, Step, Labels, maps
    <3> QED BY <3>2 DEF Earlier
  <2> QED BY <2>1, <2>2
<1> QED BY <1>1 DEF LookInv

-----------------------------------------------------------------------------
(* The inductive invariant.                                                 *)

\* The process starts in the invariant.
LEMMA InitInv == ASSUME Init PROVE IInv
<1> USE ConstantsAssumption DEF Init
<1>1. TypeOK
  BY DEF TypeOK, Labels, AuthLabels, CloserLabels, Down, Unlocked, Mutexes
<1>2. Published = {}
  BY DEF Published
<1>3. LabelInv /\ CompanyLockInv /\ SenderInv
  BY DEF LabelInv, CompanyLockInv, SenderInv, Unlocked, PastOut
<1>4. FiniteInv
  BY FS_EmptySet DEF FiniteInv, Unlocked
<1>5. MapInv /\ DownInv /\ TodoInv
  BY DEF MapInv, DownInv, PastDelete, PastOut, TodoInv
<1>6. LoneInv
  BY <1>2 DEF LoneInv
<1>7. TrackInv
  BY FS_EmptySet DEF TrackInv
<1>8. StrayNeedsThree
  BY DEF StrayNeedsThree, Unlocked
<1>9. CompanyWaitInv /\ ConnWaitInv /\ LookInv
  BY DEF CompanyWaitInv, Readers, Writers, ReadLabels, WriteLabels, LockRoles, ConnWaitInv,
         LookInv, Unlocked, NoThread
<1> QED BY <1>1, <1>3, <1>4, <1>5, <1>6, <1>7, <1>8, <1>9 DEF IInv

\* Every step of the program keeps the invariant.
LEMMA NextInv == ASSUME IInv, Next PROVE IInv'
<1> USE DEF IInv
<1>1. TypeOK'
  BY TypeStep
<1>2. LabelInv'
  BY LabelsStep DEF TypeOK, LabelsMove
<1>3. CompanyLockInv'
  BY CompanyLockStep DEF TypeOK
<1>4. FiniteInv' /\ SenderInv'
  BY FiniteStep, SenderStep
<1>5. MapInv' /\ DownInv' /\ LoneInv'
  BY MapStep, DownStep, LoneStep
<1>6. TrackInv' /\ TodoInv'
  BY TrackStep, TodoStep
<1>7. StrayNeedsThree'
  BY <1>1, <1>4, StrayStep
<1>8. CompanyWaitInv' /\ ConnWaitInv' /\ LookInv'
  BY CompanyWaitStep, ConnWaitStep, LookStep DEF TypeOK
<1> QED BY <1>1, <1>2, <1>3, <1>4, <1>5, <1>6, <1>7, <1>8

\* So does a step of the rest of the process.
LEMMA StutterInv == ASSUME IInv, UNCHANGED vars PROVE IInv'
<1> USE DEF IInv, vars, peers, maps, locks
<1>0. Published' = Published
  BY DEF Published
<1>1. TypeOK' /\ LabelInv'
  BY DEF TypeOK, LabelInv
<1>2. CompanyLockInv' /\ SenderInv' /\ FiniteInv'
  BY DEF CompanyLockInv, SenderInv, FiniteInv
<1>3. MapInv' /\ DownInv' /\ TodoInv'
  BY <1>0 DEF MapInv, DownInv, TodoInv, Listed
<1>4. LoneInv'
  BY <1>0 DEF LoneInv
<1>5. TrackInv' /\ StrayNeedsThree'
  BY <1>0 DEF TrackInv, StrayNeedsThree
<1>6. CompanyWaitInv' /\ ConnWaitInv' /\ LookInv'
  BY DEF CompanyWaitInv, Readers, Writers, ConnWaitInv, LookInv
<1> QED BY <1>1, <1>2, <1>3, <1>4, <1>5, <1>6

\* The inductive invariant holds in every run of the program.
THEOREM Invariant == Spec => []IInv
<1>1. Init => IInv
  BY InitInv
<1>2. IInv /\ [Next]_vars => IInv'
  BY NextInv, StutterInv
<1> QED BY <1>1, <1>2, PTL DEF Spec

-----------------------------------------------------------------------------
(* The properties.                                                          *)

\* The variables keep their types; a parked reader is one that asked.
THEOREM TypeCorrect == Spec => []TypeOK
<1>1. IInv => TypeOK
  BY DEF IInv
<1> QED BY <1>1, Invariant, PTL

\* close_connection never gets past the close of OutgoingDataChannel while the
\* data-channel goroutine of that connection ranges over the channel, or after a
\* media loop left that connection's read lock behind.
THEOREM ReadersPinTeardown == Spec => []ReaderPinsTeardown
<1>1. IInv => ReaderPinsTeardown
  BY DEF IInv, SenderInv, ReaderPinsTeardown
<1> QED BY <1>1, Invariant, PTL

\* A connection in teardown stays dead, whatever its login handler still does,
\* and is empty if it is listed after its teardown has unlisted it.
THEOREM TeardownIsFinal == Spec => []TornDownStaysDown
<1>1. IInv => TornDownStaysDown
  BY DEF IInv, DownInv, TornDownStaysDown
<1> QED BY <1>1, Invariant, PTL

\* The only login of a user is in both maps while it lives.
THEOREM LoneSessionStaysListed == Spec => []LoneSessionListed
<1>1. IInv => LoneSessionListed
  BY DEF IInv, LoneInv, LoneSessionListed, Published
<1> QED BY <1>1, Invariant, PTL

\* The stray RUnlock of close_connection corrupts the lock, or stops the process,
\* only when three connections are involved.
THEOREM StrayTakesThree == Spec => []StrayNeedsThree
<1>1. IInv => StrayNeedsThree
  BY DEF IInv
<1> QED BY <1>1, Invariant, PTL

\* A writer that is let in is alone.
LEMMA WriterAlone ==
  ASSUME IInv, companyMu.extra = 0, NEW r, NEW x, DropWrite(r, x)
  PROVE  Inside(companyMu) = {}
  BY GrantedEmpty DEF DropWrite, IInv, FiniteInv, TypeOK

\* As long as no RUnlock was made in excess, Users is written (login, teardown,
\* heartbeat) only when nobody ranges over it under the company's lock.
THEOREM UpdatesAreExclusive == Spec => ExclusiveUpdates
<1>1. ASSUME IInv, Next, Users' # Users, companyMu.extra = 0 PROVE ~RangingLocked
  <2>1. \E r, x : DropWrite(r, x)
    BY <1>1, MapsChange DEF maps, AuthPublish, AuthInsert, CloseDelete, CloseForget, HbRemove
  <2>2. Inside(companyMu) = {}
    BY <1>1, <2>1, WriterAlone
  <2>3. CompanyLockInv
    BY <1>1 DEF IInv
  <2> QED BY <2>2, <2>3 DEF CompanyLockInv, RangingLocked, HasRead, Reading, Inside
<1>2. IInv /\ [Next]_vars => [Users' # Users /\ companyMu.extra = 0 => ~RangingLocked]_vars
  BY <1>1 DEF vars, maps
<1> QED BY <1>2, Invariant, PTL DEF Spec, ExclusiveUpdates

\* Once a caller of SendOnlineStatus waits for its second RLock, the company is
\* frozen for good: no login is answered, nobody is listed or removed.
THEOREM FreezeLasts == Spec => FreezeIsPermanent
<1> DEFINE Stays == /\ Frozen'
                    /\ Users' = Users
                    /\ \A c \in Conns : at'.auth[c] = "done" => at.auth[c] = "done"
<1>1. ASSUME IInv, Next, Frozen, companyMu'.extra = 0 PROVE Stays
  <2>0. /\ companyMu \in Mutexes(CompanyTokens) /\ CompanyLockInv /\ CompanyMuMove
        /\ LabelsMove
    BY <1>1, CompanyMuChange, LabelsStep DEF IInv, TypeOK
  <2>1. PICK s \in {"status", "closer"}, y \in Conns \cup {None} :
           (s = "closer" => y \in Conns) /\ <<s, y, "inner">> \in companyMu.parked
    BY <1>1 DEF Frozen
  <2>2. <<s, y, "outer">> \in Inside(companyMu)
    BY <2>0, <2>1 DEF CompanyLockInv, Inside
  <2>3. ASSUME companyMu.extra = 0, NEW r, NEW x, DropWrite(r, x) PROVE FALSE
    BY <1>1, <2>2, <2>3, WriterAlone
  <2>4. companyMu.parked \subseteq companyMu'.parked /\ ~\E r, x : DropWrite(r, x)
    <3>1. CASE UNCHANGED <<companyMu, crashed>>
      BY <1>1, <2>3, <3>1
    <3>2. ASSUME NEW r, NEW x, LockCall(r, x) PROVE companyMu.parked \subseteq companyMu'.parked
      <4>1. CASE TakeWrite(r, x)
        BY <2>0, <4>1 DEF TakeWrite, Announce, Mutexes
      <4>2. CASE DropWrite(r, x)
        <5>1. companyMu'.extra = companyMu.extra
          BY <2>0, <4>2 DEF DropWrite, Unlock, Mutexes
        <5> QED BY <1>1, <2>3, <4>2, <5>1
      <4>3. ASSUME NEW i, TakeRead(r, x, i) PROVE companyMu.parked \subseteq companyMu'.parked
        BY <2>0, <4>3 DEF TakeRead, RLock, Mutexes
      <4>4. ASSUME NEW is, DropRead(r, x, is) PROVE companyMu.parked \subseteq companyMu'.parked
        BY <2>0, <4>4 DEF DropRead, RUnlock, Mutexes
      <4> QED BY <3>2, <4>1, <4>2, <4>3, <4>4 DEF LockCall, Leave
    <3>3. ASSUME NEW c \in Conns, NEW d \in Conns, CloseSweep(c, d)
          PROVE  companyMu.parked \subseteq companyMu'.parked
      BY <2>0, <3>3 DEF CloseSweep, StrayRUnlock, Mutexes
    <3>4. ASSUME NEW r, NEW x, DropWrite(r, x) PROVE FALSE
      <4>1. companyMu'.extra = companyMu.extra
        BY <2>0, <3>4 DEF DropWrite, Unlock, Mutexes
      <4> QED BY <1>1, <2>3, <3>4, <4>1
    <3> QED BY <2>0, <3>1, <3>2, <3>3, <3>4 DEF CompanyMuMove
  <2>5. Frozen'
    BY <2>1, <2>4 DEF Frozen
  <2>6. Users' = Users
    BY <1>1, <2>4, MapsChange DEF maps, AuthPublish, AuthInsert, CloseDelete, CloseForget, HbRemove
  <2>7. \A c \in Conns : at'.auth[c] = "done" => at.auth[c] = "done"
    BY <2>0, <2>4 DEF LabelsMove, Answered, AuthInsert
  <2> QED BY <2>5, <2>6, <2>7
<1>2. IInv /\ [Next]_vars => [Frozen /\ companyMu'.extra = 0 => Stays]_vars
  BY <1>1 DEF vars, maps
<1> QED BY <1>2, Invariant, PTL DEF Spec, FreezeIsPermanent

\* A user's entry in Users goes away or is replaced only after a connection of
\* this user was marked dead.
THEOREM UnlistingNeedsDeath == Spec => OnlyDeadAreUnlisted
<1> DEFINE DiedOf(u) == \E c \in Conns : Owner[c] = u /\ Died[c]
<1>1. ASSUME IInv, Next, NEW u \in UserIds, Users[u] # None, Users'[u] # Users[u]
      PROVE  DiedOf(u)
  <2>0. Users \in [UserIds -> Conns \cup {None}] /\ Owner \in [Conns -> UserIds]
    BY <1>1, ConstantsAssumption DEF IInv, TypeOK
  <2>1. CASE UNCHANGED maps
    BY <1>1, <2>1 DEF maps
  <2>2. ASSUME NEW c \in Conns, AuthPublish(c) \/ AuthInsert(c) \/ CloseForget(c) PROVE FALSE
    BY <1>1, <2>0, <2>2 DEF AuthPublish, AuthInsert, CloseForget
  <2>3. ASSUME NEW c \in Conns, CloseDelete(c) PROVE DiedOf(u)
    <3>1. Owner[c] = u
      BY <1>1, <2>0, <2>3 DEF CloseDelete
    <3>2. Died[c]
      BY <1>1, <2>3 DEF CloseDelete, Step, IInv, DownInv
    <3> QED BY <3>1, <3>2
  <2>4. CASE HbRemove
    <3>1. Users[u] \in {c \in Listed : Died[c]}
      BY <1>1, <2>0, <2>4 DEF HbRemove
    <3>2. Owner[Users[u]] = u
      BY <1>1 DEF IInv, MapInv
    <3> QED BY <3>1, <3>2 DEF Listed
  <2> QED BY <1>1, <2>1, <2>2, <2>3, <2>4, MapsChange
<1>2. IInv /\ [Next]_vars =>
        [\A u \in UserIds : Users[u] # None /\ Users'[u] # Users[u] => DiedOf(u)]_vars
  BY <1>1 DEF vars, maps
<1> QED BY <1>2, Invariant, PTL DEF Spec, OnlyDeadAreUnlisted

-----------------------------------------------------------------------------
(* The deadlocks.                                                            *)

\* A writer that has announced itself and is not let in waits for a reader.
LEMMA WaitsForReader ==
  ASSUME NEW tokens, NEW m \in Mutexes(tokens), NEW t, m.writer = t, ~Granted(m, t)
  PROVE  \E k \in tokens : k \in Inside(m)
<1>1. Inside(m) # {}
  <2>1. Cardinality({}) = 0 /\ m.extra \in Nat
    BY FS_EmptySet DEF Mutexes
  <2> QED BY <2>1 DEF Granted
<1>2. Inside(m) \subseteq tokens
  BY DEF Inside, Mutexes
<1> QED BY <1>1, <1>2

\* Whoever waits to write under a connection's lock, somebody goes on or the
\* connection is pinned.
LEMMA ConnWriterWaits ==
  ASSUME IInv, NEW c \in Conns, connMu[c].writer # NoThread
  PROVE  SomebodyGoesOn \/ Pinned
<1>0. connMu[c] \in Mutexes({SenderToken, LeakToken}) /\ ConnWaitInv
  BY DEF IInv, TypeOK
<1>1. connMu[c].writer \in {<<"closer", c>>, <<"hb", None>>}
  BY <1>0 DEF ConnWaitInv
<1>2. CASE Granted(connMu[c], <<"closer", c>>)
  <2>1. at.closer[c] = "closing"
    BY <1>0, <1>2 DEF ConnWaitInv, Granted
  <2> QED BY <1>2, <2>1 DEF SomebodyGoesOn, CloserGoesOn
<1>3. CASE Granted(connMu[c], <<"hb", None>>)
  <2>1. at.hb[None] = "killing"
    BY <1>0, <1>3 DEF ConnWaitInv, Granted
  <2> QED BY <1>3, <2>1 DEF SomebodyGoesOn, HbGoesOn
<1>4. CASE ~Granted(connMu[c], connMu[c].writer)
  <2>1. PICK k \in {SenderToken, LeakToken} : k \in Inside(connMu[c])
    BY <1>0, <1>4, WaitsForReader
  <2>2. CASE k = LeakToken
    BY <2>1, <2>2 DEF Pinned, Inside
  <2>3. CASE k = SenderToken
    <3>1. at.sender[c] \in {"locking", "draining", "hung"}
      BY <1>0, <2>1, <2>3 DEF ConnWaitInv, Inside
    <3>2. CASE at.sender[c] = "locking"
      BY <2>1, <2>3, <3>2 DEF SomebodyGoesOn, OrchGoesOn, Reading
    <3>3. CASE at.sender[c] \in {"draining", "hung"}
      BY <3>3 DEF Pinned
    <3> QED BY <3>1, <3>2, <3>3
  <2> QED BY <2>1, <2>2, <2>3
<1> QED BY <1>1, <1>2, <1>3, <1>4

\* Whoever is inside the company's lock goes on, unless it waits there for good.
LEMMA ReaderGoesOn ==
  ASSUME IInv, NEW k \in CompanyTokens, k \in Inside(companyMu)
  PROVE  SomebodyGoesOn \/ Frozen \/ Pinned
<1>0. CompanyWaitInv /\ CompanyLockInv /\ ConnWaitInv /\ at \in Labels
  BY DEF IInv, TypeOK
<1>1. PICK r \in {"closer", "status", "hb"}, x \in Conns \cup {None}, i \in {"outer", "inner"} :
         k = <<r, x, i>>
  BY DEF CompanyTokens
<1>2. k \in companyMu.held /\ HasRead(r, x, i)
  BY <1>1 DEF Inside, HasRead, Reading
<1>3. x \in Readers(at, r, i)
  BY <1>0, <1>1, <1>2 DEF CompanyWaitInv, LockRoles
<1>4. ASSUME NEW s \in {"closer", "status"}, s = r
      PROVE  StatusGoesOn(s, x) \/ Frozen \/ (s = "closer" /\ CloserGoesOn(x))
  <2>1. x \in DOMAIN at[s] /\ at[s][x] \in ReadLabels[s][i] /\ (s = "closer" => x \in Conns)
    BY <1>0, <1>3, <1>4 DEF Readers, Labels
  <2>2. CASE at[s][x] = "inner"
    <3>1. <<s, x, "inner">> \in companyMu.held
      BY <1>0, <2>1, <2>2 DEF CompanyLockInv
    <3> QED BY <2>1, <2>2, <3>1 DEF StatusGoesOn, HasRead, Reading, Inside, Frozen
  <2>3. CASE at[s][x] # "inner"
    <3>1. i = "outer" /\ at[s][x] \in {"outer", "listing", "sweep"}
      BY <2>1, <2>3 DEF ReadLabels
    <3>2. s = "status" => at[s][x] = "outer"
      BY <2>1, <2>3, <3>1 DEF ReadLabels
    <3> QED BY <1>2, <1>4, <3>1, <3>2 DEF StatusGoesOn, CloserGoesOn
  <2> QED BY <2>2, <2>3
<1>5. CASE r = "closer"
  BY <1>0, <1>3, <1>4, <1>5 DEF Readers, Labels, SomebodyGoesOn, CloserGoesOn
<1>6. CASE r = "status"
  BY <1>4, <1>6 DEF SomebodyGoesOn
<1>7. CASE r = "hb"
  <2>1. x = None /\ i = "outer" /\ at.hb[None] \in {"outer", "mark", "killing"}
    BY <1>0, <1>3, <1>7 DEF Readers, ReadLabels, Labels
  <2>2. CASE at.hb[None] = "outer"
    BY <1>2, <1>7, <2>1, <2>2 DEF SomebodyGoesOn, HbGoesOn
  <2>3. CASE at.hb[None] = "mark"
    <3>1. CASE \E c \in Conns : connMu[c].writer # NoThread
      BY <3>1, ConnWriterWaits
    <3>2. CASE \A c \in Conns : CanAnnounce(connMu[c])
      <4>1. todo.hb[None] \subseteq Conns
        BY DEF IInv, TypeOK
      <4> QED BY <2>3, <3>2, <4>1 DEF SomebodyGoesOn, HbGoesOn
    <3> QED BY <3>1, <3>2 DEF CanAnnounce
  <2>4. CASE at.hb[None] = "killing"
    <3>1. PICK c \in Conns : connMu[c].writer = <<"hb", None>>
      BY <1>0, <2>4 DEF ConnWaitInv
    <3>2. connMu[c].writer # NoThread
      BY <3>1 DEF NoThread
    <3> QED BY <3>2, ConnWriterWaits
  <2> QED BY <2>1, <2>2, <2>3, <2>4
<1> QED BY <1>1, <1>5, <1>6, <1>7

\* The same for the company's lock.
LEMMA CompanyWriterWaits ==
  ASSUME IInv, companyMu.writer # NoThread
  PROVE  SomebodyGoesOn \/ Frozen \/ Pinned
<1>0. companyMu \in Mutexes(CompanyTokens) /\ CompanyWaitInv /\ at \in Labels
  BY DEF IInv, TypeOK
<1>1. PICK r \in {"auth", "closer", "hb"}, x \in Conns \cup {None} : companyMu.writer = <<r, x>>
  BY <1>0 DEF Mutexes
<1>2. x \in Writers(at, r)
  BY <1>0, <1>1 DEF CompanyWaitInv, LockRoles
<1>3. CASE Granted(companyMu, <<r, x>>)
  <2>1. CASE r = "auth"
    <3>1. x \in Conns /\ at.auth[x] \in {"storing", "inserting"}
      BY <1>0, <1>2, <2>1 DEF Writers, WriteLabels, Labels
    <3> QED BY <1>3, <2>1, <3>1 DEF SomebodyGoesOn, AuthGoesOn
  <2>2. CASE r = "closer"
    <3>1. x \in Conns /\ at.closer[x] = "deleting"
      BY <1>0, <1>2, <2>2 DEF Writers, WriteLabels, Labels
    <3> QED BY <1>3, <2>2, <3>1 DEF SomebodyGoesOn, CloserGoesOn
  <2>3. CASE r = "hb"
    <3>1. x = None /\ at.hb[None] = "removing"
      BY <1>0, <1>2, <2>3 DEF Writers, WriteLabels, Labels
    <3> QED BY <1>3, <2>3, <3>1 DEF SomebodyGoesOn, HbGoesOn
  <2> QED BY <2>1, <2>2, <2>3
<1>4. CASE ~Granted(companyMu, <<r, x>>)
  BY <1>0, <1>1, <1>4, WaitsForReader, ReaderGoesOn
<1> QED BY <1>3, <1>4

\* If nobody waits to write, everybody who is not at rest can go on, or waits for
\* somebody who can.
LEMMA OthersGoOn ==
  ASSUME IInv, companyMu.writer = NoThread, \A c \in Conns : connMu[c].writer = NoThread, ~AtRest
  PROVE  SomebodyGoesOn
<1>0. /\ TypeOK /\ CompanyWaitInv /\ CompanyLockInv /\ ConnWaitInv /\ SenderInv /\ LookInv
      /\ at \in Labels
  BY DEF IInv, TypeOK
<1>1. companyMu.parked = {} /\ \A c \in Conns : connMu[c].parked = {}
  BY <1>0 DEF CompanyWaitInv, ConnWaitInv
<1>2. CanAnnounce(companyMu) /\ CanRead(companyMu) /\ \A c \in Conns : CanAnnounce(connMu[c]) /\ CanRead(connMu[c])
  BY DEF CanAnnounce, CanRead
<1>3. \A r \in LockRoles : \A x \in Conns \cup {None} : x \notin Writers(at, r)
  <2>1. \A r \in LockRoles, x \in Conns \cup {None} : <<r, x>> # NoThread
    BY DEF NoThread, LockRoles
  <2> QED BY <1>0, <2>1 DEF CompanyWaitInv
<1>4. /\ \A c \in Conns : at.auth[c] \notin {"storing", "inserting"} /\ at.closer[c] # "deleting"
      /\ at.hb[None] # "removing"
  <2>1. /\ \A c \in Conns : c \notin Writers(at, "auth") /\ c \notin Writers(at, "closer")
        /\ None \notin Writers(at, "hb")
    BY <1>3 DEF LockRoles
  <2> QED BY <1>0, <2>1 DEF Writers, WriteLabels, Labels
<1>5. /\ \A c \in Conns : at.closer[c] # "closing"
      /\ at.hb[None] # "killing"
  BY <1>0 DEF ConnWaitInv, NoThread
<1>6. ASSUME NEW c \in Conns, at.auth[c] \in {"checking", "looking"} PROVE AuthGoesOn(c)
  <2>1. CASE at.auth[c] = "looking"
    <3>1. UserConnections[Owner[c]] \in Conns
      BY <1>0, <2>1, ConstantsAssumption DEF LookInv, TypeOK
    <3> QED BY <1>2, <2>1, <3>1 DEF AuthGoesOn
  <2> QED BY <1>6, <2>1 DEF AuthGoesOn
<1>7. UserConnectionsFree \/ \E c \in Conns : AuthGoesOn(c)
  BY <1>6 DEF UserConnectionsFree
<1>8. GlobalFree \/ \E c \in Conns : AuthGoesOn(c)
  BY <1>2, <1>4 DEF GlobalFree, AuthGoesOn
<1>9. ASSUME NEW c \in Conns, at.auth[c] \notin {"idle", "refused", "failed", "done"}
      PROVE  \E d \in Conns : AuthGoesOn(d)
  <2>1. at.auth[c] \in {"checking", "looking", "create", "answer", "publish", "rooms",
                        "roomsHeld", "register", "insert"}
    BY <1>0, <1>4, <1>9 DEF Labels, AuthLabels
  <2> QED BY <1>2, <1>6, <1>7, <1>8, <2>1 DEF AuthGoesOn
<1>10. ASSUME NEW c \in Conns, at.closer[c] \notin {"none", "done"}
       PROVE  SomebodyGoesOn
  <2>1. at.closer[c] \in {"die", "clear", "status", "outer", "inner", "delete", "lock",
                          "scan", "listing", "sweep", "forget"}
    BY <1>0, <1>4, <1>5, <1>10 DEF Labels, CloserLabels
  <2>2. CASE at.closer[c] \in {"outer", "inner", "listing"}
    BY <1>0, <1>1, <2>2
    DEF CompanyLockInv, SomebodyGoesOn, CloserGoesOn, StatusGoesOn, HasRead, Reading, Inside
  <2>3. CASE at.closer[c] \in {"delete", "lock"}
    BY <1>2, <2>3 DEF SomebodyGoesOn, CloserGoesOn
  <2>4. CASE at.closer[c] = "forget"
    BY <1>7, <2>4 DEF SomebodyGoesOn, CloserGoesOn
  <2>5. CASE at.closer[c] \in {"die", "clear", "status", "scan", "sweep"}
    BY <2>5 DEF SomebodyGoesOn, CloserGoesOn
  <2> QED BY <2>1, <2>2, <2>3, <2>4, <2>5
<1>11. ASSUME NEW c \in Conns, at.orch[c] \notin {"none", "registered"}
       PROVE  SomebodyGoesOn
  <2>1. at.orch[c] \in {"started", "checked"}
    BY <1>0, <1>11 DEF Labels
  <2> QED BY <1>10, <2>1 DEF SomebodyGoesOn, OrchGoesOn
<1>12. ASSUME NEW c \in Conns, at.sender[c] \notin {"none", "draining", "hung"}
       PROVE  SomebodyGoesOn
  <2>1. at.sender[c] \in {"started", "locking"}
    BY <1>0, <1>12 DEF Labels
  <2>2. at.sender[c] = "locking" => Reading(connMu[c], SenderToken)
    BY <1>0, <1>1 DEF SenderInv, Reading, Inside
  <2> QED BY <2>1, <2>2 DEF SomebodyGoesOn, OrchGoesOn
<1>13. ASSUME NEW x \in Conns \cup {None}, at.status[x] # "idle"
       PROVE  SomebodyGoesOn
  <2>1. at.status[x] \in {"outer", "inner"}
    BY <1>0, <1>13 DEF Labels
  <2>2. HasRead("status", x, at.status[x])
    BY <1>0, <1>1, <2>1 DEF CompanyLockInv, HasRead, Reading, Inside
  <2> QED BY <2>1, <2>2 DEF SomebodyGoesOn, StatusGoesOn
<1>14. ASSUME at.hb[None] # "idle" PROVE SomebodyGoesOn
  <2>1. at.hb[None] \in {"outer", "mark", "remove"}
    BY <1>0, <1>4, <1>5, <1>14 DEF Labels
  <2>2. at.hb[None] = "outer" => HasRead("hb", None, "outer")
    BY <1>0, <1>1 DEF CompanyLockInv, HasRead, Reading, Inside
  <2>3. todo.hb[None] \subseteq Conns
    BY <1>0 DEF TypeOK
  <2> QED BY <1>2, <2>1, <2>2, <2>3 DEF SomebodyGoesOn, HbGoesOn
<1> QED
  BY <1>9, <1>10, <1>11, <1>12, <1>13, <1>14 DEF AtRest, SomebodyGoesOn

\* From every state somebody can go on, or all are at rest, unless the company is
\* frozen, a connection is pinned or the process has stopped: no two locks, and no
\* number of connections, make a third deadlock.
THEOREM DeadlocksAreKnown == Spec => []OnlyTwoDeadlocks
<1>1. IInv => OnlyTwoDeadlocks
  BY ConnWriterWaits, CompanyWriterWaits, OthersGoOn DEF OnlyTwoDeadlocks
<1> QED BY <1>1, Invariant, PTL

=============================================================================
