-------------------------- MODULE MembershipProofs --------------------------
(***************************************************************************)
(* The properties of Membership, by induction on its four kinds of step.   *)
(***************************************************************************)
EXTENDS Membership, TLAPS

MInv ==
    /\ member \in [UserIds -> Conns \cup {None}] /\ answered \subseteq Conns
    /\ AnsweredArePresent /\ MembersWereAnswered

\* A user whose login was answered has a member until a connection of his dies,
\* and a member was answered.
THEOREM MembershipInvariant ==
  ASSUME Owner \in [Conns -> UserIds], None \notin Conns
  PROVE  Spec => []MInv
<1> USE DEF MInv, AnsweredArePresent, MembersWereAnswered
<1>1. Init => MInv
  BY DEF Init
<1>2. MInv /\ [Next]_memberVars => MInv'
  <2> SUFFICES ASSUME MInv, [Next]_memberVars PROVE MInv'
    OBVIOUS
  <2>1. ASSUME NEW c \in Conns, Answer(c) PROVE MInv'
    BY <2>1 DEF Answer
  <2>2. ASSUME NEW c \in Conns, Die(c) PROVE MInv'
    BY <2>2 DEF Die
  <2>3. ASSUME NEW users \in SUBSET UserIds, Leave(users) PROVE MInv'
    BY <2>3 DEF Leave
  <2>4. CASE UNCHANGED memberVars
    BY <2>4 DEF memberVars
  <2> QED BY <2>1, <2>2, <2>3, <2>4 DEF Next
<1> QED BY <1>1, <1>2, PTL DEF Spec

=============================================================================
