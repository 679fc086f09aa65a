---------------------------- MODULE Negotiation ----------------------------
(***************************************************************************)
(* Offers and answers of one connection.  The renegotiation pass and the   *)
(* teardown of other users change the tracks that the connection carries;  *)
(* pion then fires OnNegotiationNeeded; renegotiate (re_negotiator.go)     *)
(* sends an offer by the data channel, and OnMessage takes the answer.     *)
(*                                                                         *)
(* OnOpen makes all of this possible: it sets the handler, and it          *)
(* overwrites RenegotiateMutex with a fresh one, whoever holds it.  The    *)
(* teardown of another user calls Renegotiate with or without a channel.   *)
(*                                                                         *)
(* What pion does is external: an event is fired once until the signaling  *)
(* state is stable again, also if there is no handler; an offer set while  *)
(* one is pending may be refused; an answer is applied to whatever offer   *)
(* is pending.  The connection itself stays up.  The browser answers the   *)
(* offers of a channel in order.  It may open a further channel at any     *)
(* time, which takes the place of the first, whose messages still come;    *)
(* bound: not before the one it replaces is open.                          *)
(***************************************************************************)
EXTENDS Naturals, SequencesExt

CONSTANTS
    Sources,     \* the other users
    Jobs,        \* goroutines that run renegotiate at a time
    None,
    MaxEvents    \* bound: tracks added and removed, and data channels opened

ASSUME NegotiationAssumption ==
    /\ None \notin Jobs /\ \A T \in SUBSET Sources : None # T
    /\ MaxEvents \in Nat

VARIABLES
    tracks,      \* the users whose tracks have a sender
    current,     \* the tracks of the current local description ...
    answered,    \* ... and of the current remote one
    pending,     \* the tracks of the pending offer; None: the state is stable
    flag, check, \* pion's [[NegotiationNeeded]]; its evaluation is queued
    lastOffer,   \* the job whose CreateOffer was the last
    channel,     \* the data channel; "opened" until OnOpen has run
    registered,  \* OnNegotiationNeeded is set
    locked,      \* RenegotiateMutex
    waiting,     \* number of goroutines that wait for it
    job, made,   \* where a job is, and the offer it has made
    asleep,      \* teardowns that wait five seconds before they Renegotiate
    offers, answers,  \* the two directions of the data channel
    older,       \* the offers of earlier channels whose answers have not come yet
    crashed,     \* "fatal error: sync: unlock of unlocked mutex"
    unfinished,  \* history: OnOpen has run over an unfinished negotiation
    events

pion   == <<tracks, current, answered, pending, flag, check, lastOffer>>
link   == <<channel, registered, offers, answers, older>>
mutex  == <<locked, waiting, job, made, asleep, crashed>>
counts == <<unfinished, events>>
vars   == <<pion, link, mutex, counts>>

Stable == pending = None

\* A track is not in both descriptions, or a removed one is still offered.
Needed == ~(tracks \subseteq current \cap answered) \/ ~(current \subseteq tracks)

Inside == {j \in Jobs : job[j] # "none"}

\* The login's offer and answer carry no tracks of others.
Init ==
    /\ tracks = {} /\ current = {} /\ answered = {} /\ pending = None
    /\ flag = FALSE /\ check = FALSE /\ lastOffer = None
    /\ channel = "none" /\ registered = FALSE /\ offers = <<>> /\ answers = <<>>
    /\ older = <<>>
    /\ locked = FALSE /\ waiting = 0 /\ asleep = 0 /\ crashed = FALSE
    /\ job = [j \in Jobs |-> "none"] /\ made = [j \in Jobs |-> {}]
    /\ unfinished = FALSE /\ events = 0

-----------------------------------------------------------------------------
(* The tracks of the connection.                                            *)

Event == events < MaxEvents /\ events' = events + 1

Change == Event /\ check' = TRUE

\* The renegotiation pass adds the tracks of x.
AddTrack(x) ==
    /\ x \in Sources \ tracks /\ Change
    /\ tracks' = tracks \cup {x}
    /\ UNCHANGED <<current, answered, pending, flag, lastOffer, link, mutex, unfinished>>

\* x is torn down, and its tracks are removed.
RemoveTrack(x) ==
    /\ x \in tracks /\ Change
    /\ tracks' = tracks \ {x}
    /\ asleep' = asleep + 1
    /\ UNCHANGED <<current, answered, pending, flag, lastOffer, link, locked, waiting, job, made,
                   crashed, unfinished>>

\* (Mutant: more Renegotiate calls than teardowns.)
WakeAnyway ==
    /\ waiting = 0
    /\ asleep' = asleep - 1 /\ waiting' = waiting + 1
    /\ UNCHANGED <<pion, link, locked, job, made, crashed, counts>>

\* Five seconds later: go Renegotiate(user).
Wake ==
    /\ asleep > 0
    /\ asleep' = asleep - 1 /\ waiting' = waiting + 1
    /\ UNCHANGED <<pion, link, locked, job, made, crashed, counts>>

\* (Mutant: a renegotiation is not started while another one is running.)
NegotiationNeededOnce ==
    /\ check /\ check' = FALSE
    /\ IF Stable THEN flag' = Needed ELSE UNCHANGED flag
    /\ waiting' = IF flag' /\ ~flag /\ registered /\ ~locked THEN waiting + 1 ELSE waiting
    /\ UNCHANGED <<tracks, current, answered, pending, lastOffer, link, locked, job, made, asleep,
                   crashed, counts>>

\* pion evaluates the flag; when it rises, the handler starts a renegotiation.
NegotiationNeeded ==
    /\ check /\ check' = FALSE
    /\ IF Stable THEN flag' = Needed ELSE UNCHANGED flag
    /\ waiting' = IF flag' /\ ~flag /\ registered THEN waiting + 1 ELSE waiting
    /\ UNCHANGED <<tracks, current, answered, pending, lastOffer, link, locked, job, made, asleep,
                   crashed, counts>>

-----------------------------------------------------------------------------
(* renegotiate.                                                             *)

\* (Mutant: the mutex is not taken.)
EnterRacing(j) ==
    /\ waiting > 0 /\ job[j] = "none"
    /\ locked' = TRUE /\ waiting' = waiting - 1
    /\ job' = [job EXCEPT ![j] = "entered"]
    /\ UNCHANGED <<pion, link, made, asleep, crashed, counts>>

Enter(j) ==
    /\ waiting > 0 /\ ~locked /\ job[j] = "none"
    /\ locked' = TRUE /\ waiting' = waiting - 1
    /\ job' = [job EXCEPT ![j] = "entered"]
    /\ UNCHANGED <<pion, link, made, asleep, crashed, counts>>

CreateOffer(j) ==
    /\ job[j] = "entered" /\ job' = [job EXCEPT ![j] = "created"]
    /\ made' = [made EXCEPT ![j] = tracks]
    /\ lastOffer' = j
    /\ UNCHANGED <<tracks, current, answered, pending, flag, check, link, locked, waiting, asleep,
                   crashed, counts>>

\* SetLocalDescription, whose error is ignored: it wants the last offer made,
\* and it may refuse to replace a pending one (that is left to pion's version).
SetLocal(j) ==
    /\ job[j] = "created" /\ job' = [job EXCEPT ![j] = "set"]
    /\ IF lastOffer # j THEN UNCHANGED pending
       ELSE \/ pending' = made[j]
            \/ ~Stable /\ UNCHANGED pending
    /\ UNCHANGED <<tracks, current, answered, flag, check, lastOffer, link, locked, waiting, made,
                   asleep, crashed, counts>>

\* (Mutant: the offer waits for the channel.)
SendOfferWhenOpen(j) ==
    /\ job[j] = "set" /\ job' = [job EXCEPT ![j] = "sent"]
    /\ channel \in {"opened", "open"}
    /\ offers' = Append(offers, IF Stable THEN current ELSE pending)
    /\ UNCHANGED <<pion, channel, registered, answers, older, locked, waiting, made, asleep,
                   crashed, counts>>

\* LocalDescription() is sent, be it the job's own offer, an earlier one that is
\* still pending or, if none is, the current one.
SendOffer(j) ==
    /\ job[j] = "set" /\ job' = [job EXCEPT ![j] = "sent"]
    /\ offers' = IF channel \in {"opened", "open"}
                 THEN Append(offers, IF Stable THEN current ELSE pending) ELSE offers
    /\ UNCHANGED <<pion, channel, registered, answers, older, locked, waiting, made, asleep,
                   crashed, counts>>

\* The deferred Unlock, after the picture-loss requests.
Leave(j) ==
    /\ job[j] = "sent" /\ job' = [job EXCEPT ![j] = "none"]
    /\ locked' = FALSE
    /\ crashed' = ~locked
    /\ UNCHANGED <<pion, link, waiting, made, asleep, counts>>

Renegotiate(j) == CreateOffer(j) \/ SetLocal(j) \/ SendOffer(j) \/ Leave(j)

-----------------------------------------------------------------------------
(* The data channel.                                                        *)

\* OnDataChannel: the channel takes the place of an earlier one, which is not closed.
\* Later ReadyState() is open.
ConnectChannel ==
    /\ channel \in {"none", "closed", "open"} /\ channel' = "connecting" /\ Event
    /\ offers' = <<>> /\ answers' = <<>>
    /\ older' = older \o answers \o offers
    /\ UNCHANGED <<pion, registered, mutex, unfinished>>

OpenChannel ==
    /\ channel = "connecting" /\ channel' = "opened"
    /\ UNCHANGED <<pion, registered, offers, answers, older, mutex, counts>>

\* OnDataChannelBroadcaster: a new mutex, then Initialize_renegotiation.
OnOpen ==
    /\ channel = "opened" /\ channel' = "open"
    /\ locked' = FALSE
    /\ registered' = TRUE
    /\ unfinished' = (unfinished \/ waiting > 0 \/ Inside # {} \/ flag \/ ~Stable)
    /\ UNCHANGED <<pion, offers, answers, older, waiting, job, made, asleep, crashed, events>>

\* What is under way is lost.
CloseChannel ==
    /\ channel = "open" /\ channel' = "closed"
    /\ offers' = <<>> /\ answers' = <<>>
    /\ UNCHANGED <<pion, registered, older, mutex, counts>>

BrowserAnswers ==
    /\ offers # <<>>
    /\ offers' = Tail(offers) /\ answers' = Append(answers, Head(offers))
    /\ UNCHANGED <<pion, channel, registered, older, mutex, counts>>

\* SetRemoteDescription fails without an offer pending, and otherwise makes the state
\* stable and has the flag evaluated anew.
SetRemote(answer) ==
    IF Stable THEN UNCHANGED <<current, answered, pending, flag, check>>
    ELSE /\ current' = pending /\ answered' = answer
         /\ pending' = None /\ flag' = FALSE /\ check' = TRUE

\* (Mutant: an answer is dropped while a renegotiation is running.)
OnAnswerUnlessLocked ==
    /\ answers # <<>> /\ answers' = Tail(answers)
    /\ IF locked THEN UNCHANGED <<current, answered, pending, flag, check>>
       ELSE SetRemote(Head(answers))
    /\ UNCHANGED <<tracks, lastOffer, channel, registered, offers, older, mutex, counts>>

\* OnMessage "answer".
OnAnswer ==
    /\ answers # <<>> /\ answers' = Tail(answers)
    /\ SetRemote(Head(answers))
    /\ UNCHANGED <<tracks, lastOffer, channel, registered, offers, older, mutex, counts>>

\* The OnMessage of an earlier channel, which may also be closed by now.
OlderMessage ==
    \E i \in DOMAIN older :
        /\ older' = RemoveAt(older, i)
        /\ \/ SetRemote(older[i])
           \/ UNCHANGED <<current, answered, pending, flag, check>>
        /\ UNCHANGED <<tracks, lastOffer, channel, registered, offers, answers, mutex, counts>>

Environment ==
    \/ \E x \in Sources : AddTrack(x) \/ RemoveTrack(x)
    \/ ConnectChannel \/ OpenChannel \/ CloseChannel

Next ==
    /\ ~crashed
    /\ \/ Environment \/ Wake \/ NegotiationNeeded \/ OnOpen \/ BrowserAnswers \/ OnAnswer
       \/ OlderMessage
       \/ \E j \in Jobs : Enter(j) \/ Renegotiate(j)

Spec == Init /\ [][Next]_vars

(***************************************************************************)
(* Fairness: the goroutines and pion's operations run; the mutex goes to   *)
(* a waiter in the end; the browser answers what it gets.  Nothing is      *)
(* assumed of other users and of the opening and closing of channels.      *)
(***************************************************************************)
Fairness ==
    /\ WF_vars(~crashed /\ Wake) /\ WF_vars(~crashed /\ NegotiationNeeded)
    /\ WF_vars(~crashed /\ OnOpen)
    /\ WF_vars(~crashed /\ BrowserAnswers) /\ WF_vars(~crashed /\ OnAnswer)
    /\ WF_vars(~crashed /\ OlderMessage)
    /\ SF_vars(~crashed /\ \E j \in Jobs : Enter(j))
    /\ \A j \in Jobs : WF_vars(~crashed /\ Renegotiate(j))

FairSpec == Spec /\ Fairness

\* What Fairness comes to, with the guards written out and the jobs taken together:
\* again and again, there is nothing to do, or it is done, for an evaluation of the
\* flag, for the goroutines that wait for a free mutex, for those inside and for the
\* messages on their way.
StepsAreTaken ==
    /\ []<>(crashed \/ ~check) \/ []<><<NegotiationNeeded>>_vars
    /\ \/ []<>(crashed \/ waiting = 0 \/ locked \/ Inside # {})
       \/ []<><<\E j \in Jobs : Enter(j)>>_vars
    /\ []<>(crashed \/ Inside = {}) \/ []<><<\E j \in Jobs : Renegotiate(j)>>_vars
    /\ []<>(crashed \/ offers = <<>>) \/ []<><<BrowserAnswers>>_vars
    /\ []<>(crashed \/ answers = <<>>) \/ []<><<OnAnswer>>_vars

\* The track has been removed, or there is no channel any more to offer it by.
Gone(x) == x \notin tracks \/ channel # "open" \/ crashed

\* There is an offer, or an answer, on its way that is without the track of x.
Stale(x) ==
    \/ \E i \in DOMAIN offers : x \notin offers[i]
    \/ \E i \in DOMAIN answers : x \notin answers[i]
    \/ \E i \in DOMAIN older : x \notin older[i]

\* While the track stays, those get through: there are only so many.
StaleOnesPass(x) == []<>(Gone(x) \/ unfinished \/ ~Stale(x))

\* What every negotiation may count on: jobs, messages and pion's evaluations get on,
\* and what was under way before a track was added does not go on for ever.
Progress == StepsAreTaken /\ \A x \in Sources : StaleOnesPass(x)

-----------------------------------------------------------------------------
(* Properties.                                                              *)

\* The values the variables range over.
TypeOK ==
    /\ {tracks, current, answered} \subseteq SUBSET Sources
    /\ pending = None \/ pending \in SUBSET Sources
    /\ {flag, check, registered, locked, crashed, unfinished} \subseteq BOOLEAN
    /\ lastOffer \in Jobs \cup {None}
    /\ channel \in {"none", "connecting", "opened", "open", "closed"}
    /\ offers \in Seq(SUBSET Sources) /\ answers \in Seq(SUBSET Sources)
    /\ older \in Seq(SUBSET Sources)
    /\ waiting \in Nat /\ asleep \in Nat /\ events \in Nat
    /\ job \in [Jobs -> {"none", "entered", "created", "set", "sent"}]
    /\ made \in [Jobs -> SUBSET Sources]

\* Renegotiations exclude one another, and no mutex is unlocked twice, unless
\* OnOpen has replaced the mutex over a negotiation that was not finished.
OneAtATime ==
    ~unfinished => ~crashed /\ \A i, j \in Inside : i = j

\* Nothing is going on by the channel, and nothing is going to happen by itself.
Quiet ==
    /\ channel = "open" /\ ~crashed
    /\ waiting = 0 /\ Inside = {} /\ ~check /\ offers = <<>> /\ answers = <<>>

\* When everything has come to rest, the browser has exactly the tracks that the
\* connection carries, and its media are not held up by a pending offer, although
\* offers are sent twice and answers applied to other offers than their own.
RestIsNegotiated == Quiet /\ ~unfinished => Stable /\ ~Needed

\* A track that is added to a connection whose channel was opened in peace gets
\* to the browser.
TracksArrive ==
    \A x \in Sources :
        x \in tracks /\ channel = "open" /\ ~unfinished ~> x \in current \cap answered \/ Gone(x)

\* The media loops skip a user as long as an offer is pending, in both
\* directions; that ends.
SilenceEnds == ~Stable /\ channel = "open" /\ ~unfinished ~> Stable \/ channel # "open"

\* rtp_track_syncronizer_and_orchestraction.go:493, "Each user should have all
\* the memebers connection except his own", also those that were there before
\* its channel opened.
AllTracksArrive ==
    \A x \in Sources : x \in tracks /\ channel = "open" ~> x \in current \cap answered \/ Gone(x)

=============================================================================
