-------------------------- MODULE SessionInvariant --------------------------
(***************************************************************************)
(* The inductive invariant of SessionLifecycle, as named parts, and the    *)
(* abstract specification that SessionLifecycle implements.  TLC checks    *)
(* both on small instances; SessionLifecycleProofs and SessionRefinement   *)
(* prove them.                                                             *)
(***************************************************************************)
EXTENDS SessionLifecycle

\* Where a goroutine may be, given where the one that started it is.
LabelInv ==
    \A c \in Conns :
        /\ at.orch[c] # "none" =>
              at.auth[c] \in {"register", "insert", "inserting", "done"}
        /\ at.closer[c] # "none" => at.orch[c] # "none"

\* A goroutine inside a read section of the company's lock owns the token, and
\* only at the label behind an RLock may the token be parked.
CompanyLockInv ==
    LET In(r, x, i)     == <<r, x, i>> \in companyMu.held
        Parked(r, x, i) == <<r, x, i>> \in companyMu.parked
    IN  /\ at.hb[None] \in {"outer", "mark", "killing"} => In("hb", None, "outer")
        /\ Parked("hb", None, "outer") => at.hb[None] = "outer"
        /\ \A x \in Conns \cup {None} :
              /\ at.status[x] \in {"outer", "inner"} => In("status", x, "outer")
              /\ at.status[x] = "inner" => In("status", x, "inner")
              /\ Parked("status", x, "outer") => at.status[x] = "outer"
              /\ Parked("status", x, "inner") => at.status[x] = "inner"
        /\ \A c \in Conns :
              /\ at.closer[c] \in {"outer", "inner", "listing", "sweep"} => In("closer", c, "outer")
              /\ at.closer[c] = "inner" => In("closer", c, "inner")
              /\ Parked("closer", c, "outer") => at.closer[c] \in {"outer", "listing"}
              /\ Parked("closer", c, "inner") => at.closer[c] = "inner"

\* The goroutines that call the company's lock, and the labels at which they own
\* the token of a read lock, or are the announced writer.
LockRoles == {"auth", "closer", "status", "hb"}

ReadLabels ==
    [auth   |-> [outer |-> {}, inner |-> {}],
     closer |-> [outer |-> {"outer", "inner", "listing", "sweep"}, inner |-> {"inner"}],
     status |-> [outer |-> {"outer", "inner"}, inner |-> {"inner"}],
     hb     |-> [outer |-> {"outer", "mark", "killing"}, inner |-> {}]]

WriteLabels ==
    [auth |-> {"storing", "inserting"}, closer |-> {"deleting"}, status |-> {}, hb |-> {"removing"}]

Readers(a, r, i) == {x \in DOMAIN a[r] : a[r][x] \in ReadLabels[r][i]}

Writers(a, r) == {x \in DOMAIN a[r] : a[r][x] \in WriteLabels[r]}

\* Conversely, every token and the announced writer are those of a goroutine at
\* such a label; and readers park behind a writer only.
CompanyWaitInv ==
    /\ \A r \in LockRoles, x \in Conns \cup {None} :
          /\ \A i \in {"outer", "inner"} :
                <<r, x, i>> \in companyMu.held => x \in Readers(at, r, i)
          /\ companyMu.writer = <<r, x>> <=> x \in Writers(at, r)
    /\ companyMu.parked # {} => companyMu.writer # NoThread

\* The same for the lock of one connection, its data-channel goroutine and the
\* media loops.
SenderInv ==
    \A c \in Conns :
        /\ at.sender[c] \in {"locking", "draining", "hung"} => SenderToken \in connMu[c].held
        /\ SenderToken \in connMu[c].parked => at.sender[c] = "locking"
        /\ LeakToken \notin connMu[c].parked
        /\ connMu[c].extra = 0
        /\ out[c] = "closed" <=> at.closer[c] \in PastOut
        /\ (at.sender[c] = "draining" \/ LeakToken \in connMu[c].held) => out[c] = "open"

\* The same for the locks of the connections: the writers are the connection's own
\* teardown and, at one connection at a time, the heartbeat.
ConnWaitInv ==
    LET Killing(c) == connMu[c].writer = <<"hb", None>>
    IN  /\ \A c \in Conns :
              /\ connMu[c].parked # {} => connMu[c].writer # NoThread
              /\ SenderToken \in connMu[c].held => at.sender[c] \in {"locking", "draining", "hung"}
              /\ connMu[c].writer \in {NoThread, <<"closer", c>>, <<"hb", None>>}
              /\ connMu[c].writer = <<"closer", c>> <=> at.closer[c] = "closing"
              /\ Killing(c) => at.hb[None] = "killing" /\ \A d \in Conns : Killing(d) => d = c
        /\ at.hb[None] = "killing" => \E c \in Conns : Killing(c)

\* A login that looks into the user's earlier connection finds it.
LookInv ==
    \A c \in Conns : at.auth[c] = "looking" => UserConnections[Owner[c]] # None

\* What the two maps hold.
MapInv ==
    \A u \in UserIds :
        /\ Users[u] # None => Owner[Users[u]] = u /\ at.auth[Users[u]] = "done"
        /\ UserConnections[u] # None =>
              Owner[UserConnections[u]] = u /\ UserConnections[u] \in Published

\* LoneSessionListed, from the moment the connection is published.
LoneInv ==
    \A c \in Published :
        ~Died[c] /\ (\A d \in Published : Owner[d] = Owner[c] => d = c)
        => /\ UserConnections[Owner[c]] = c
           /\ at.auth[c] = "done" => Users[Owner[c]] = c

\* A track comes from a published connection of another user, and is carried by
\* a connection whose login has been answered.
TrackInv ==
    \A c \in Conns :
        /\ IsFiniteSet(MemberTracks[c])
        /\ \A u \in MemberTracks[c] :
              at.auth[c] = "done" /\ u # Owner[c] /\ \E e \in Published : Owner[e] = u

\* What the loops range over and the renegotiation pass is at.
TodoInv ==
    /\ \A c \in Conns : todo.closer[c] # {} => at.closer[c] = "sweep"
    /\ todo.sync.to # None => at.auth[todo.sync.to] = "done"
    /\ todo.sync.from # None =>
          /\ todo.sync.to # None /\ Owner[todo.sync.from] # Owner[todo.sync.to]
          /\ todo.sync.from \in Published

\* TornDownStaysDown, and the same of the connections the teardown's loop has
\* left.
DownInv ==
    \A c \in Conns :
        /\ at.closer[c] \notin {"none", "die"} => Died[c]
        /\ at.closer[c] \in PastDelete /\ (c \in Listed \/ c \in todo.closer[c]) =>
              MemberTracks[c] = {} /\ todo.sync.to # c

FiniteInv == IsFiniteSet(companyMu.held) /\ \A c \in Conns : IsFiniteSet(connMu[c].held)

IInv ==
    /\ TypeOK /\ LabelInv /\ CompanyLockInv /\ SenderInv /\ FiniteInv
    /\ CompanyWaitInv /\ ConnWaitInv /\ LookInv
    /\ MapInv /\ LoneInv /\ TrackInv /\ TodoInv /\ DownInv /\ StrayNeedsThree

-----------------------------------------------------------------------------
(* The refinement mapping: a user's member is its entry in Users; Died       *)
(* counts from the moment the login handler has published the connection.   *)

Answered == {c \in Conns : at.auth[c] = "done"}

Dead == {c \in Published : Died[c]}

Company == INSTANCE Membership WITH member <- Users, answered <- Answered, dead <- Dead

\* The logins, teardowns and heartbeats keep what a company promises: whatever
\* they do to Users and Died, among one another and behind which locks, is an
\* answer, a death, a leave for which a connection of the user is dead, or nothing.
KeepsMembership == Company!Spec

=============================================================================
