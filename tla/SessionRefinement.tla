------------------------- MODULE SessionRefinement -------------------------
(***************************************************************************)
(* SessionLifecycle implements Membership, and what follows from that.     *)
(***************************************************************************)
EXTENDS SessionLifecycleProofs

\* The steps that change what a company promises: four of Users, three of Died.
LEMMA StepIsMembership ==
  ASSUME IInv, Next
  PROVE  Company!Next \/ UNCHANGED Company!memberVars
<1> USE DEF Company!Next, Company!memberVars
<1>1. /\ LabelsMove
      /\ Users \in [UserIds -> Conns \cup {None}] /\ Died \in [Conns -> BOOLEAN]
      /\ Owner \in [Conns -> UserIds] /\ None \notin Conns
  BY LabelsStep, ConstantsAssumption DEF IInv, TypeOK
<1>2. ASSUME NEW c \in Conns, AuthPublish(c) PROVE UNCHANGED Company!memberVars
  <2>1. UNCHANGED Users /\ \A d \in Conns \ {c} : Died'[d] = Died[d]
    BY <1>1, <1>2 DEF AuthPublish
  <2>2. c \notin Published /\ ~Died'[c]
    BY <1>1, <1>2 DEF AuthPublish, Step, Published
  <2>3. Published' = Published \cup {c} /\ Answered' = Answered
    BY <1>2 DEF AuthPublish, Step, Published, Answered, IInv, TypeOK, Labels
  <2> QED BY <2>1, <2>2, <2>3 DEF Dead, Published
<1>3. ASSUME NEW c \in Conns, AuthInsert(c) PROVE Company!Answer(c)
  <2>1. Answered' = Answered \cup {c} /\ c \notin Answered /\ Published' = Published
    BY <1>3 DEF AuthInsert, Step, Published, Answered, IInv, TypeOK, Labels
  <2>2. Users' = [Users EXCEPT ![Owner[c]] = IF @ = None THEN c ELSE @] /\ UNCHANGED Died
    BY <1>3 DEF AuthInsert, peers
  <2> QED BY <2>1, <2>2 DEF Company!Answer, Dead
<1>4. ASSUME \A c \in Conns : ~AuthPublish(c) /\ ~AuthInsert(c)
      PROVE  Company!Next \/ UNCHANGED Company!memberVars
  <2>1. Published' = Published /\ Answered' = Answered
    BY <1>1, <1>4 DEF LabelsMove, Published, Answered
  <2>2. ASSUME UNCHANGED <<Users, Died>> PROVE UNCHANGED Company!memberVars
    BY <2>1, <2>2 DEF Dead
  <2>3. ASSUME NEW c \in Conns, CloseDie(c) \/ HbExpire(c) \/ HbKill(c)
        PROVE  Company!Die(c) \/ UNCHANGED Company!memberVars
    <3>1. Died' = [Died EXCEPT ![c] = TRUE] /\ UNCHANGED Users
      BY <2>3 DEF CloseDie, HbExpire, HbKill, maps
    <3>2. Dead' = IF c \in Published THEN Dead \cup {c} ELSE Dead
      BY <1>1, <2>1, <3>1 DEF Dead, Published
    <3> QED BY <2>1, <3>1, <3>2 DEF Company!Die
  <2>4. ASSUME NEW c \in Conns, CloseDelete(c) PROVE Company!Leave({Owner[c]})
    <3>1. Users' = [Users EXCEPT ![Owner[c]] = None] /\ UNCHANGED Died
      BY <2>4 DEF CloseDelete, peers
    <3>2. c \in Dead
      <4>1. Died[c]
        BY <2>4 DEF CloseDelete, Step, IInv, DownInv
      <4>2. c \in Published
        BY <2>4 DEF CloseDelete, Step, IInv, LabelInv, Published
      <4> QED BY <4>1, <4>2 DEF Dead
    <3>3. Users' = [u \in UserIds |-> IF u \in {Owner[c]} THEN None ELSE Users[u]]
      BY <1>1, <3>1
    <3>4. Dead' = Dead
      BY <2>1, <3>1 DEF Dead
    <3> QED BY <2>1, <3>2, <3>3, <3>4 DEF Company!Leave
  <2>5. CASE HbRemove
    <3> DEFINE gone == {u \in UserIds : Users[u] \in {e \in Listed : Died[e]}}
    <3>1. Users' = [u \in UserIds |-> IF u \in gone THEN None ELSE Users[u]] /\ UNCHANGED Died
      BY <2>5 DEF HbRemove
    <3>2. ASSUME NEW u \in gone PROVE \E c \in Dead : Owner[c] = u
      <4>1. Users[u] \in Conns /\ Died[Users[u]]
        BY <1>1, <3>2 DEF Listed
      <4>2. Owner[Users[u]] = u /\ Users[u] \in Published
        BY <1>1, <3>2, <4>1 DEF IInv, MapInv, Published
      <4> QED BY <4>1, <4>2 DEF Dead
    <3>3. Dead' = Dead
      BY <2>1, <3>1 DEF Dead
    <3>4. Company!Leave(gone)
      BY <2>1, <3>1, <3>2, <3>3 DEF Company!Leave
    <3> QED BY <3>4
  <2>6. CASE UNCHANGED <<Died, MemberTracks>>
    <3>1. CASE UNCHANGED Users
      BY <2>2, <2>6, <3>1
    <3>2. ASSUME NEW c \in Conns, CloseForget(c) PROVE UNCHANGED Users
      BY <3>2 DEF CloseForget
    <3>3. ASSUME NEW c \in Conns, CloseDelete(c) PROVE Company!Next
      <4>1. Company!Leave({Owner[c]}) /\ {Owner[c]} \in SUBSET UserIds
        BY <1>1, <2>4, <3>3
      <4> QED BY <4>1
    <3>4. UNCHANGED Users \/ HbRemove \/ \E c \in Conns : CloseDelete(c)
      <4>1. UNCHANGED maps => UNCHANGED Users
        BY DEF maps
      <4> QED BY <1>4, <3>2, <4>1, MapsChange
    <3> QED BY <2>5, <3>1, <3>3, <3>4
  <2>7. ASSUME NEW c \in Conns, CloseClear(c) \/ \E d \in Conns : CloseSweep(c, d)
        PROVE  UNCHANGED <<Users, Died>>
    BY <2>7 DEF CloseClear, CloseSweep, maps
  <2>8. CASE SyncStore
    BY <2>2, <2>8 DEF SyncStore, maps
  <2> QED BY <1>4, <2>2, <2>3, <2>6, <2>7, <2>8, TracksChange
<1> QED BY <1>2, <1>3, <1>4

\* SessionLifecycle implements Membership.
THEOREM Refinement == Spec => KeepsMembership
<1>1. Init => Company!Init
  BY DEF Init, Company!Init, Answered, Dead, Published
<1>2. IInv /\ [Next]_vars => [Company!Next]_(Company!memberVars)
  <2>1. UNCHANGED vars => UNCHANGED Company!memberVars
    BY DEF vars, maps, peers, Company!memberVars, Answered, Dead, Published
  <2> QED BY <2>1, StepIsMembership
<1> QED BY <1>1, <1>2, Invariant, PTL DEF Spec, KeepsMembership, Company!Spec

-----------------------------------------------------------------------------
(* What Membership promises holds of SessionLifecycle.                      *)

Promise ==
    INSTANCE MembershipProofs WITH member <- Users, answered <- Answered, dead <- Dead

\* A user one of whose logins was answered is listed, by the same or another
\* connection, until a connection of his is dead, and nobody is listed whose login
\* was not answered: this is proved of Membership, and carried over.
THEOREM AnsweredStayListed ==
    Spec => [](Company!AnsweredArePresent /\ Company!MembersWereAnswered)
<1>1. Promise!Spec => []Promise!MInv
  BY ConstantsAssumption, Promise!MembershipInvariant
<1>2. Company!Init => Promise!Init
  BY DEF Company!Init, Promise!Init
<1>3. [Company!Next]_(Company!memberVars) => [Promise!Next]_(Promise!memberVars)
  BY DEF Company!Next, Company!Answer, Company!Die, Company!Leave, Company!memberVars,
         Promise!Next, Promise!Answer, Promise!Die, Promise!Leave, Promise!memberVars
<1>4. Company!Spec => Promise!Spec
  BY <1>2, <1>3, PTL DEF Company!Spec, Promise!Spec
<1>5. Promise!MInv => Company!AnsweredArePresent /\ Company!MembersWereAnswered
  BY DEF Promise!MInv, Promise!AnsweredArePresent, Promise!MembersWereAnswered,
         Company!AnsweredArePresent, Company!MembersWereAnswered
<1> QED BY <1>1, <1>4, <1>5, Refinement, PTL DEF KeepsMembership

=============================================================================
