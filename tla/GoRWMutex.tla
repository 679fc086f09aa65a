----------------------------- MODULE GoRWMutex -----------------------------
(***************************************************************************)
(* The Go runtime's sync.RWMutex, as far as the server's locking depends   *)
(* on it.  The mutex is a record; the operators return its next value.     *)
(*                                                                         *)
(*   held    the read locks taken, one token per RLock call (a goroutine   *)
(*           that takes the lock twice owns two tokens),                   *)
(*   parked  those of them whose RLock call has not returned: they came    *)
(*           after a writer announced itself,                              *)
(*   writer  the goroutine whose Lock has announced itself, or NoThread;   *)
(*           it keeps new readers out from that moment on, long before it  *)
(*           is let in,                                                    *)
(*   extra   RUnlock calls made by goroutines that held no read lock: each *)
(*           of them makes the counter one smaller than the set of         *)
(*           readers.                                                      *)
(*                                                                         *)
(* The Go documentation forbids recursive read locking for the reason seen *)
(* here: a second RLock of one goroutine parks behind a writer that waits  *)
(* for the first.                                                          *)
(***************************************************************************)
EXTENDS Integers, FiniteSets

NoThread == <<"none", "none">>

Unlocked == [held |-> {}, parked |-> {}, writer |-> NoThread, extra |-> 0]

\* The readers that are inside.
Inside(m) == m.held \ m.parked

Reading(m, k) == k \in Inside(m)

\* RLock: the reader is counted at once and parks if a writer is announced.
RLock(m, k) ==
    [m EXCEPT !.held   = @ \cup {k},
              !.parked = IF m.writer = NoThread THEN @ ELSE @ \cup {k}]

\* A read section that neither blocks nor changes anything is one step; it can
\* run when no writer is announced.
CanRead(m) == m.writer = NoThread

RUnlock(m, ks) == [m EXCEPT !.held = @ \ ks]

\* n RUnlock calls that match no RLock of the caller.
StrayRUnlock(m, n) == [m EXCEPT !.extra = @ + n]

\* The counter would drop below zero: the runtime stops the whole program with
\* "fatal error: sync: RUnlock of unlocked RWMutex".
Unbalanced(m) == Cardinality(m.held) < m.extra

\* Lock, first half: writers queue on an inner mutex, so one is announced at a
\* time.
CanAnnounce(m) == m.writer = NoThread

Announce(m, t) == [m EXCEPT !.writer = t]

\* Lock, second half: it returns when as many readers have left as were inside
\* when the writer came, and a stray RUnlock counts as a reader that left.
Granted(m, t) == m.writer = t /\ Cardinality(Inside(m)) <= m.extra

\* Unlock: the readers that came meanwhile are let in.  (After a stray RUnlock
\* the runtime lets in `extra' fewer of them; nothing is claimed of that case.)
Unlock(m) == [m EXCEPT !.writer = NoThread, !.parked = {}]

=============================================================================
