----------------------------- MODULE Membership -----------------------------
(***************************************************************************)
(* What a company promises about its members, with no locks, goroutines    *)
(* or labels.  A login is answered once; if its user has no member, the    *)
(* answered connection becomes the member.  A connection dies once and for *)
(* all.  A member leaves, or is made to leave, only when a connection of   *)
(* the same user is dead.  SessionLifecycle implements this.               *)
(***************************************************************************)
CONSTANTS UserIds, Conns, Owner, None   \* as in SessionLifecycle

VARIABLES
    member,    \* member[u]: the connection that stands for user u
    answered,  \* the connections whose login has been answered
    dead       \* the connections that are dead

memberVars == <<member, answered, dead>>

Init ==
    /\ member = [u \in UserIds |-> None]
    /\ answered = {} /\ dead = {}

Answer(c) ==
    /\ c \notin answered /\ answered' = answered \cup {c}
    /\ member' = [member EXCEPT ![Owner[c]] = IF @ = None THEN c ELSE @]
    /\ UNCHANGED dead

Die(c) ==
    /\ dead' = dead \cup {c}
    /\ UNCHANGED <<member, answered>>

\* The users who leave at a time.
Leave(users) ==
    /\ \A u \in users : \E c \in dead : Owner[c] = u
    /\ member' = [u \in UserIds |-> IF u \in users THEN None ELSE member[u]]
    /\ UNCHANGED <<answered, dead>>

Next ==
    \/ \E c \in Conns : Answer(c) \/ Die(c)
    \/ \E users \in SUBSET UserIds : Leave(users)

Spec == Init /\ [][Next]_memberVars

-----------------------------------------------------------------------------
(* Properties.                                                              *)

\* A user one of whose logins was answered has a member, the same or another
\* connection of his, until a connection of his dies.
AnsweredArePresent ==
    \A c \in answered :
        \/ member[Owner[c]] # None
        \/ \E d \in dead : Owner[d] = Owner[c]

\* A member is a connection of its user, and its login was answered.
MembersWereAnswered ==
    \A u \in UserIds : member[u] # None => member[u] \in answered /\ Owner[member[u]] = u

=============================================================================
