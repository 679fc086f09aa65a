------------------------- MODULE NegotiationProofs -------------------------
(***************************************************************************)
(* The safety and the liveness of Negotiation, for any users, jobs and     *)
(* bounds.  Liveness goes by stages: a stage lasts until the next one      *)
(* comes, and the step that Progress promises brings it.                   *)
(***************************************************************************)
EXTENDS Negotiation, TLAPS

\* As long as no negotiation has been overtaken by OnOpen, the mutex is held by
\* the one job that is under way, and an offer that is made is the last one.
Exclusive ==
    ~unfinished =>
        /\ ~crashed
        /\ locked <=> \E j \in Jobs : job[j] # "none"
        /\ \A i, j \in Jobs : job[i] # "none" /\ job[j] # "none" => i = j
        /\ \A j \in Jobs : job[j] = "created" => lastOffer = j

\* What a change of the tracks has queued.
Queued == Stable /\ Needed => flag \/ check

\* What a raised flag, and a pending offer, have under way.
UnderWay ==
    channel = "open" /\ ~unfinished =>
        /\ Stable /\ flag =>
               waiting > 0 \/ \E j \in Jobs : job[j] \in {"entered", "created"}
        /\ ~Stable =>
               offers # <<>> \/ answers # <<>> \/ \E j \in Jobs : job[j] = "set"

Registered == channel = "open" => registered

Inv == TypeOK /\ Exclusive /\ Queued /\ UnderWay /\ Registered

\* A sequence without one of its elements has no others.
LEMMA Removed ==
    ASSUME NEW S, NEW s \in Seq(S), NEW i \in DOMAIN s
    PROVE  /\ s[i] \in S /\ RemoveAt(s, i) \in Seq(S)
           /\ \A k \in DOMAIN RemoveAt(s, i) : \E l \in DOMAIN s : RemoveAt(s, i)[k] = s[l]
<1>1. i \in 1..Len(s)
  OBVIOUS
<1>2. /\ SubSeq(s, 1, i - 1) \in Seq(S) /\ Len(SubSeq(s, 1, i - 1)) = i - 1
      /\ \A k \in 1..(i - 1) : SubSeq(s, 1, i - 1)[k] = s[k]
  BY <1>1
<1>3. /\ SubSeq(s, i + 1, Len(s)) \in Seq(S) /\ Len(SubSeq(s, i + 1, Len(s))) = Len(s) - i
      /\ \A k \in 1..(Len(s) - i) : SubSeq(s, i + 1, Len(s))[k] = s[i + k]
  BY <1>1
<1> DEFINE a == SubSeq(s, 1, i - 1)
           b == SubSeq(s, i + 1, Len(s))
<1>4. RemoveAt(s, i) = a \o b
  BY DEF RemoveAt
<1>5. a \in Seq(S) /\ b \in Seq(S) /\ Len(a) = i - 1 /\ Len(b) = Len(s) - i
  BY <1>2, <1>3
<1>6. \A k \in 1..Len(a) : a[k] = s[k]
  BY <1>2
<1>7. \A k \in 1..Len(b) : b[k] = s[i + k]
  BY <1>3
<1> HIDE DEF a, b
<1>8. ASSUME NEW k \in DOMAIN (a \o b)
      PROVE  \E l \in DOMAIN s : (a \o b)[k] = s[l]
  <2>1. k \in 1..(Len(a) + Len(b))
    BY <1>5
  <2>2. CASE k <= Len(a)
    <3>1. (a \o b)[k] = a[k] /\ k \in 1..Len(a)
      BY <1>5, <2>1, <2>2
    <3>2. k \in DOMAIN s
      BY <1>1, <1>5, <3>1
    <3> QED BY <1>6, <3>1, <3>2
  <2>3. CASE k > Len(a)
    <3>1. (a \o b)[k] = b[k - Len(a)] /\ k - Len(a) \in 1..Len(b)
      BY <1>5, <2>1, <2>3
    <3>2. i + (k - Len(a)) \in DOMAIN s
      BY <1>1, <1>5, <3>1
    <3> QED BY <1>7, <3>1, <3>2
  <2> QED BY <1>5, <2>1, <2>2, <2>3
<1> QED BY <1>1, <1>4, <1>5, <1>8

LEMMA NeededIsBoolean == Needed \in BOOLEAN
  BY DEF Needed

\* Every step keeps the types.
LEMMA TypePreserved ==
    ASSUME TypeOK, [Next]_vars
    PROVE  TypeOK'
  <1>. USE NegotiationAssumption DEF TypeOK, Stable
  <1>1. ASSUME NEW x \in Sources, ~crashed, AddTrack(x) PROVE TypeOK'
    BY <1>1 DEF AddTrack, Change, Event, pion, link, mutex, counts
  <1>2. ASSUME NEW x \in Sources, ~crashed, RemoveTrack(x) PROVE TypeOK'
    BY <1>2 DEF RemoveTrack, Change, Event, pion, link, mutex, counts
  <1>3. CASE ~crashed /\ ConnectChannel
    BY <1>3 DEF ConnectChannel, Event, pion, link, mutex, counts
  <1>4. CASE ~crashed /\ OpenChannel
    BY <1>4 DEF OpenChannel, pion, link, mutex, counts
  <1>5. CASE ~crashed /\ CloseChannel
    BY <1>5 DEF CloseChannel, pion, link, mutex, counts
  <1>6. CASE ~crashed /\ Wake
    BY <1>6 DEF Wake, pion, link, mutex, counts
  <1>7. CASE ~crashed /\ NegotiationNeeded
    <2>1. flag' \in BOOLEAN
      <3>1. CASE Stable
        BY <1>7, <3>1, NeededIsBoolean DEF NegotiationNeeded
      <3>2. CASE ~Stable
        BY <1>7, <3>2 DEF NegotiationNeeded
      <3>. QED  BY <3>1, <3>2
    <2>2. waiting' \in Nat /\ check' = FALSE
      BY <1>7 DEF NegotiationNeeded
    <2>3. /\ UNCHANGED <<tracks, current, answered, pending, lastOffer, link, locked, job, made,
                         asleep, crashed, counts>>
      BY <1>7 DEF NegotiationNeeded
    <2>. QED  BY <2>1, <2>2, <2>3 DEF pion, link, mutex, counts
  <1>8. CASE ~crashed /\ OnOpen
    BY <1>8 DEF OnOpen, pion, link, mutex, counts
  <1>9. CASE ~crashed /\ BrowserAnswers
    BY <1>9 DEF BrowserAnswers, pion, link, mutex, counts
  <1>10. CASE ~crashed /\ OnAnswer
    <2>1. answers' \in Seq(SUBSET Sources) /\ Head(answers) \in SUBSET Sources
      BY <1>10 DEF OnAnswer
    <2>2. CASE Stable
      BY <1>10, <2>1, <2>2 DEF OnAnswer, SetRemote, pion, link, mutex, counts
    <2>3. CASE ~Stable
      BY <1>10, <2>1, <2>3 DEF OnAnswer, SetRemote, pion, link, mutex, counts
    <2>. QED  BY <2>2, <2>3
  <1>11. ASSUME NEW j \in Jobs, ~crashed, Enter(j) PROVE TypeOK'
    BY <1>11 DEF Enter, pion, link, mutex, counts
  <1>12. ASSUME NEW j \in Jobs, ~crashed, CreateOffer(j) PROVE TypeOK'
    BY <1>12 DEF CreateOffer, pion, link, mutex, counts
  <1>13. ASSUME NEW j \in Jobs, ~crashed, SetLocal(j) PROVE TypeOK'
    BY <1>13 DEF SetLocal, pion, link, mutex, counts
  <1>14. ASSUME NEW j \in Jobs, ~crashed, SendOffer(j) PROVE TypeOK'
    BY <1>14 DEF SendOffer, pion, link, mutex, counts
  <1>15. ASSUME NEW j \in Jobs, ~crashed, Leave(j) PROVE TypeOK'
    BY <1>15 DEF Leave, pion, link, mutex, counts
  <1>16. CASE UNCHANGED vars
    BY <1>16 DEF vars, pion, link, mutex, counts
  <1>17. CASE ~crashed /\ OlderMessage
    <2>1. PICK i \in DOMAIN older :
              /\ older' = RemoveAt(older, i)
              /\ SetRemote(older[i]) \/ UNCHANGED <<current, answered, pending, flag, check>>
              /\ UNCHANGED <<tracks, lastOffer, channel, registered, offers, answers, mutex,
                             counts>>
      BY <1>17 DEF OlderMessage
    <2>2. older' \in Seq(SUBSET Sources) /\ older[i] \in SUBSET Sources
      BY <2>1, Removed
    <2>3. /\ current' \in SUBSET Sources /\ answered' \in SUBSET Sources
          /\ pending' = None \/ pending' \in SUBSET Sources
          /\ flag' \in BOOLEAN /\ check' \in BOOLEAN
      BY <2>1, <2>2 DEF SetRemote
    <2>. QED  BY <2>1, <2>2, <2>3 DEF mutex, counts
  <1>. QED  BY <1>1, <1>2, <1>3, <1>4, <1>5, <1>6, <1>7, <1>8,
            <1>9, <1>10, <1>11, <1>12, <1>13, <1>14, <1>15, <1>16, <1>17
         DEF Next, Environment, Renegotiate

\* The mutex keeps renegotiations apart, and OnOpen that replaces it is accounted for.
LEMMA ExclusivePreserved ==
    ASSUME TypeOK, Exclusive, [Next]_vars
    PROVE  Exclusive'
  <1>. USE NegotiationAssumption DEF TypeOK, Exclusive, Inside
  <1>1. ASSUME NEW x \in Sources, ~crashed, AddTrack(x) PROVE Exclusive'
    BY <1>1 DEF AddTrack, Change, Event, pion, link, mutex, counts
  <1>2. ASSUME NEW x \in Sources, ~crashed, RemoveTrack(x) PROVE Exclusive'
    BY <1>2 DEF RemoveTrack, Change, Event, pion, link, mutex, counts
  <1>3. CASE ~crashed /\ ConnectChannel
    BY <1>3 DEF ConnectChannel, Event, pion, link, mutex, counts
  <1>4. CASE ~crashed /\ OpenChannel
    BY <1>4 DEF OpenChannel, pion, link, mutex, counts
  <1>5. CASE ~crashed /\ CloseChannel
    BY <1>5 DEF CloseChannel, pion, link, mutex, counts
  <1>6. CASE ~crashed /\ Wake
    BY <1>6 DEF Wake, pion, link, mutex, counts
  <1>7. CASE ~crashed /\ NegotiationNeeded
    BY <1>7 DEF NegotiationNeeded, pion, link, mutex, counts
  <1>8. CASE ~crashed /\ OnOpen
    BY <1>8 DEF OnOpen, pion, link, mutex, counts
  <1>9. CASE ~crashed /\ BrowserAnswers
    BY <1>9 DEF BrowserAnswers, pion, link, mutex, counts
  <1>10. CASE ~crashed /\ OnAnswer
    BY <1>10 DEF OnAnswer, SetRemote, pion, link, mutex, counts
  <1>11. ASSUME NEW j \in Jobs, ~crashed, Enter(j) PROVE Exclusive'
    BY <1>11 DEF Enter, pion, link, mutex, counts
  <1>12. ASSUME NEW j \in Jobs, ~crashed, CreateOffer(j) PROVE Exclusive'
    BY <1>12 DEF CreateOffer, pion, link, mutex, counts
  <1>13. ASSUME NEW j \in Jobs, ~crashed, SetLocal(j) PROVE Exclusive'
    BY <1>13 DEF SetLocal, pion, link, mutex, counts
  <1>14. ASSUME NEW j \in Jobs, ~crashed, SendOffer(j) PROVE Exclusive'
    BY <1>14 DEF SendOffer, pion, link, mutex, counts
  <1>15. ASSUME NEW j \in Jobs, ~crashed, Leave(j) PROVE Exclusive'
    BY <1>15 DEF Leave, pion, link, mutex, counts
  <1>16. CASE UNCHANGED vars
    BY <1>16 DEF vars, pion, link, mutex, counts
  <1>17. CASE ~crashed /\ OlderMessage
    BY <1>17 DEF OlderMessage, SetRemote, pion, link, mutex, counts
  <1>. QED  BY <1>1, <1>2, <1>3, <1>4, <1>5, <1>6, <1>7, <1>8,
            <1>9, <1>10, <1>11, <1>12, <1>13, <1>14, <1>15, <1>16, <1>17
         DEF Next, Environment, Renegotiate

\* A change of the tracks or of the descriptions is evaluated.
LEMMA QueuedPreserved ==
    ASSUME TypeOK, Queued, [Next]_vars
    PROVE  Queued'
  <1>. USE NegotiationAssumption DEF TypeOK, Queued, Stable, Needed
  <1>1. ASSUME NEW x \in Sources, ~crashed, AddTrack(x) PROVE Queued'
    BY <1>1 DEF AddTrack, Change, Event, pion, link, mutex, counts
  <1>2. ASSUME NEW x \in Sources, ~crashed, RemoveTrack(x) PROVE Queued'
    BY <1>2 DEF RemoveTrack, Change, Event, pion, link, mutex, counts
  <1>3. CASE ~crashed /\ ConnectChannel
    BY <1>3 DEF ConnectChannel, Event, pion, link, mutex, counts
  <1>4. CASE ~crashed /\ OpenChannel
    BY <1>4 DEF OpenChannel, pion, link, mutex, counts
  <1>5. CASE ~crashed /\ CloseChannel
    BY <1>5 DEF CloseChannel, pion, link, mutex, counts
  <1>6. CASE ~crashed /\ Wake
    BY <1>6 DEF Wake, pion, link, mutex, counts
  <1>7. CASE ~crashed /\ NegotiationNeeded
    BY <1>7 DEF NegotiationNeeded, pion, link, mutex, counts
  <1>8. CASE ~crashed /\ OnOpen
    BY <1>8 DEF OnOpen, pion, link, mutex, counts
  <1>9. CASE ~crashed /\ BrowserAnswers
    BY <1>9 DEF BrowserAnswers, pion, link, mutex, counts
  <1>10. CASE ~crashed /\ OnAnswer
    BY <1>10 DEF OnAnswer, SetRemote, pion, link, mutex, counts
  <1>11. ASSUME NEW j \in Jobs, ~crashed, Enter(j) PROVE Queued'
    BY <1>11 DEF Enter, pion, link, mutex, counts
  <1>12. ASSUME NEW j \in Jobs, ~crashed, CreateOffer(j) PROVE Queued'
    BY <1>12 DEF CreateOffer, pion, link, mutex, counts
  <1>13. ASSUME NEW j \in Jobs, ~crashed, SetLocal(j) PROVE Queued'
    BY <1>13 DEF SetLocal, pion, link, mutex, counts
  <1>14. ASSUME NEW j \in Jobs, ~crashed, SendOffer(j) PROVE Queued'
    BY <1>14 DEF SendOffer, pion, link, mutex, counts
  <1>15. ASSUME NEW j \in Jobs, ~crashed, Leave(j) PROVE Queued'
    BY <1>15 DEF Leave, pion, link, mutex, counts
  <1>16. CASE UNCHANGED vars
    BY <1>16 DEF vars, pion, link, mutex, counts
  <1>17. CASE ~crashed /\ OlderMessage
    BY <1>17 DEF OlderMessage, SetRemote, pion, link, mutex, counts
  <1>. QED  BY <1>1, <1>2, <1>3, <1>4, <1>5, <1>6, <1>7, <1>8,
            <1>9, <1>10, <1>11, <1>12, <1>13, <1>14, <1>15, <1>16, <1>17
         DEF Next, Environment, Renegotiate

\* A raised flag has a renegotiation to come, and a pending offer its answer.
LEMMA UnderWayPreserved ==
    ASSUME TypeOK, Exclusive, Registered, UnderWay, [Next]_vars
    PROVE  UnderWay'
  <1>. USE NegotiationAssumption DEF TypeOK, Exclusive, Registered, UnderWay, Stable, Inside
  <1>1. ASSUME NEW x \in Sources, ~crashed, AddTrack(x) PROVE UnderWay'
    BY <1>1 DEF AddTrack, Change, Event, pion, link, mutex, counts
  <1>2. ASSUME NEW x \in Sources, ~crashed, RemoveTrack(x) PROVE UnderWay'
    BY <1>2 DEF RemoveTrack, Change, Event, pion, link, mutex, counts
  <1>3. CASE ~crashed /\ ConnectChannel
    BY <1>3 DEF ConnectChannel, Event, pion, link, mutex, counts
  <1>4. CASE ~crashed /\ OpenChannel
    BY <1>4 DEF OpenChannel, pion, link, mutex, counts
  <1>5. CASE ~crashed /\ CloseChannel
    BY <1>5 DEF CloseChannel, pion, link, mutex, counts
  <1>6. CASE ~crashed /\ Wake
    BY <1>6 DEF Wake, pion, link, mutex, counts
  <1>7. CASE ~crashed /\ NegotiationNeeded
    BY <1>7 DEF NegotiationNeeded, pion, link, mutex, counts
  <1>8. CASE ~crashed /\ OnOpen
    BY <1>8 DEF OnOpen, pion, link, mutex, counts
  <1>9. CASE ~crashed /\ BrowserAnswers
    BY <1>9 DEF BrowserAnswers, pion, link, mutex, counts
  <1>10. CASE ~crashed /\ OnAnswer
    BY <1>10 DEF OnAnswer, SetRemote, pion, link, mutex, counts
  <1>11. ASSUME NEW j \in Jobs, ~crashed, Enter(j) PROVE UnderWay'
    BY <1>11 DEF Enter, pion, link, mutex, counts
  <1>12. ASSUME NEW j \in Jobs, ~crashed, CreateOffer(j) PROVE UnderWay'
    BY <1>12 DEF CreateOffer, pion, link, mutex, counts
  <1>13. ASSUME NEW j \in Jobs, ~crashed, SetLocal(j) PROVE UnderWay'
    BY <1>13 DEF SetLocal, pion, link, mutex, counts
  <1>14. ASSUME NEW j \in Jobs, ~crashed, SendOffer(j) PROVE UnderWay'
    BY <1>14 DEF SendOffer, pion, link, mutex, counts
  <1>15. ASSUME NEW j \in Jobs, ~crashed, Leave(j) PROVE UnderWay'
    BY <1>15 DEF Leave, pion, link, mutex, counts
  <1>16. CASE UNCHANGED vars
    BY <1>16 DEF vars, pion, link, mutex, counts
  <1>17. CASE ~crashed /\ OlderMessage
    BY <1>17 DEF OlderMessage, SetRemote, pion, link, mutex, counts
  <1>. QED  BY <1>1, <1>2, <1>3, <1>4, <1>5, <1>6, <1>7, <1>8,
            <1>9, <1>10, <1>11, <1>12, <1>13, <1>14, <1>15, <1>16, <1>17
         DEF Next, Environment, Renegotiate

\* The handler stays.
LEMMA RegisteredPreserved ==
    ASSUME Registered, [Next]_vars
    PROVE  Registered'
  <1>. USE NegotiationAssumption DEF Registered
  <1>1. ASSUME NEW x \in Sources, ~crashed, AddTrack(x) PROVE Registered'
    BY <1>1 DEF AddTrack, Change, Event, pion, link, mutex, counts
  <1>2. ASSUME NEW x \in Sources, ~crashed, RemoveTrack(x) PROVE Registered'
    BY <1>2 DEF RemoveTrack, Change, Event, pion, link, mutex, counts
  <1>3. CASE ~crashed /\ ConnectChannel
    BY <1>3 DEF ConnectChannel, Event, pion, link, mutex, counts
  <1>4. CASE ~crashed /\ OpenChannel
    BY <1>4 DEF OpenChannel, pion, link, mutex, counts
  <1>5. CASE ~crashed /\ CloseChannel
    BY <1>5 DEF CloseChannel, pion, link, mutex, counts
  <1>6. CASE ~crashed /\ Wake
    BY <1>6 DEF Wake, pion, link, mutex, counts
  <1>7. CASE ~crashed /\ NegotiationNeeded
    BY <1>7 DEF NegotiationNeeded, pion, link, mutex, counts
  <1>8. CASE ~crashed /\ OnOpen
    BY <1>8 DEF OnOpen, pion, link, mutex, counts
  <1>9. CASE ~crashed /\ BrowserAnswers
    BY <1>9 DEF BrowserAnswers, pion, link, mutex, counts
  <1>10. CASE ~crashed /\ OnAnswer
    BY <1>10 DEF OnAnswer, SetRemote, pion, link, mutex, counts
  <1>11. ASSUME NEW j \in Jobs, ~crashed, Enter(j) PROVE Registered'
    BY <1>11 DEF Enter, pion, link, mutex, counts
  <1>12. ASSUME NEW j \in Jobs, ~crashed, CreateOffer(j) PROVE Registered'
    BY <1>12 DEF CreateOffer, pion, link, mutex, counts
  <1>13. ASSUME NEW j \in Jobs, ~crashed, SetLocal(j) PROVE Registered'
    BY <1>13 DEF SetLocal, pion, link, mutex, counts
  <1>14. ASSUME NEW j \in Jobs, ~crashed, SendOffer(j) PROVE Registered'
    BY <1>14 DEF SendOffer, pion, link, mutex, counts
  <1>15. ASSUME NEW j \in Jobs, ~crashed, Leave(j) PROVE Registered'
    BY <1>15 DEF Leave, pion, link, mutex, counts
  <1>16. CASE UNCHANGED vars
    BY <1>16 DEF vars, pion, link, mutex, counts
  <1>17. CASE ~crashed /\ OlderMessage
    BY <1>17 DEF OlderMessage, SetRemote, pion, link, mutex, counts
  <1>. QED  BY <1>1, <1>2, <1>3, <1>4, <1>5, <1>6, <1>7, <1>8,
            <1>9, <1>10, <1>11, <1>12, <1>13, <1>14, <1>15, <1>16, <1>17
         DEF Next, Environment, Renegotiate


\* The inductive invariant.
THEOREM Invariant == Spec => []Inv
  <1>1. Init => Inv
    <2>. SUFFICES ASSUME Init PROVE Inv
      OBVIOUS
    <2>1. TypeOK
      <3>1. {tracks, current, answered} \subseteq SUBSET Sources /\ pending = None
        BY DEF Init
      <3>2. {flag, check, registered, locked, crashed, unfinished} \subseteq BOOLEAN
        BY DEF Init
      <3>3. /\ offers \in Seq(SUBSET Sources) /\ answers \in Seq(SUBSET Sources)
            /\ waiting \in Nat /\ asleep \in Nat /\ events \in Nat /\ older \in Seq(SUBSET Sources)
        BY DEF Init
      <3>4. /\ job \in [Jobs -> {"none", "entered", "created", "set", "sent"}]
            /\ made \in [Jobs -> SUBSET Sources]
            /\ lastOffer = None /\ channel = "none"
        BY DEF Init
      <3>. QED  BY <3>1, <3>2, <3>3, <3>4 DEF TypeOK
    <2>2. Exclusive
      BY NegotiationAssumption DEF Init, Exclusive
    <2>3. Queued /\ UnderWay /\ Registered
      BY DEF Init, Queued, UnderWay, Registered, Stable, Needed
    <2>. QED  BY <2>1, <2>2, <2>3 DEF Inv
  <1>2. Inv /\ [Next]_vars => Inv'
    BY TypePreserved, ExclusivePreserved, QueuedPreserved, UnderWayPreserved,
       RegisteredPreserved DEF Inv
  <1>. QED  BY <1>1, <1>2, PTL DEF Spec

\* The values the variables range over.
THEOREM TypeCorrect == Spec => []TypeOK
  <1>1. Inv => TypeOK  BY DEF Inv
  <1>. QED  BY <1>1, Invariant, PTL

\* Renegotiate and the handler that OnOpen sets exclude one another, and no mutex is
\* unlocked twice, as long as OnOpen replaces no mutex of an unfinished negotiation.
THEOREM MutualExclusion == Spec => []OneAtATime
  <1>1. Inv => OneAtATime  BY DEF Inv, Exclusive, OneAtATime, Inside
  <1>. QED  BY <1>1, Invariant, PTL

\* When all is quiet, no offer is pending and the browser has what the connection
\* carries, with any number of users, jobs, changes and reconnections.
THEOREM NegotiatedAtRest == Spec => []RestIsNegotiated
  <1>1. Inv => RestIsNegotiated
    BY DEF Inv, TypeOK, Queued, UnderWay, RestIsNegotiated, Quiet, Inside
  <1>. QED  BY <1>1, Invariant, PTL

-----------------------------------------------------------------------------
(* Liveness.  The prover knows no ENABLED: StepsAreTaken stands for         *)
(* Fairness.  What follows is a chain of stages, each of which lasts until  *)
(* the one step that leads out of it; that the step comes is StepsAreTaken. *)

\* An offer waits for its answer, on an open channel.
Pending == ~Stable /\ channel = "open" /\ ~unfinished

Settled == Stable \/ channel # "open"

\* A job is at this place of renegotiate.
JobAt(label) == \E j \in Jobs : job[j] = label

\* While the offer is pending, what is on its way to the answer comes nearer to it.
LEMMA PendingMoves ==
    ASSUME TypeOK, Exclusive, [Next]_vars, Pending
    PROVE  \/ Settled'
           \/ /\ Pending'
              /\ answers # <<>> => answers' # <<>>
              /\ offers # <<>> => offers' # <<>> \/ answers' # <<>>
              /\ JobAt("set") => JobAt("set")' \/ offers' # <<>>
  <1>. USE NegotiationAssumption DEF TypeOK, Exclusive, Pending, Settled, Stable, JobAt
  <1> DEFINE Goal == \/ Settled'
           \/ /\ Pending'
              /\ answers # <<>> => answers' # <<>>
              /\ offers # <<>> => offers' # <<>> \/ answers' # <<>>
              /\ JobAt("set") => JobAt("set")' \/ offers' # <<>>
  <1>1. ASSUME NEW y \in Sources, ~crashed, AddTrack(y) PROVE Goal
    BY <1>1 DEF AddTrack, Change, Event, pion, link, mutex, counts
  <1>2. ASSUME NEW y \in Sources, ~crashed, RemoveTrack(y) PROVE Goal
    BY <1>2 DEF RemoveTrack, Change, Event, pion, link, mutex, counts
  <1>3. CASE ~crashed /\ ConnectChannel
    BY <1>3 DEF ConnectChannel, Event, pion, link, mutex, counts
  <1>4. CASE ~crashed /\ OpenChannel
    BY <1>4 DEF OpenChannel, pion, link, mutex, counts
  <1>5. CASE ~crashed /\ CloseChannel
    BY <1>5 DEF CloseChannel, pion, link, mutex, counts
  <1>6. CASE ~crashed /\ Wake
    BY <1>6 DEF Wake, pion, link, mutex, counts
  <1>7. CASE ~crashed /\ NegotiationNeeded
    BY <1>7 DEF NegotiationNeeded, pion, link, mutex, counts
  <1>8. CASE ~crashed /\ OnOpen
    BY <1>8 DEF OnOpen, pion, link, mutex, counts
  <1>9. CASE ~crashed /\ BrowserAnswers
    <2>1. /\ answers' = Append(answers, Head(offers))
          /\ UNCHANGED <<pending, channel, unfinished, job>>
      BY <1>9 DEF BrowserAnswers, pion, mutex, counts
    <2>2. answers' # <<>>
      BY <2>1
    <2>. QED
      BY <2>1, <2>2
  <1>10. CASE ~crashed /\ OnAnswer
    BY <1>10 DEF OnAnswer, SetRemote, pion, link, mutex, counts
  <1>11. ASSUME NEW j \in Jobs, ~crashed, Enter(j) PROVE Goal
    BY <1>11 DEF Enter, pion, link, mutex, counts
  <1>12. ASSUME NEW j \in Jobs, ~crashed, CreateOffer(j) PROVE Goal
    BY <1>12 DEF CreateOffer, pion, link, mutex, counts
  <1>13. ASSUME NEW j \in Jobs, ~crashed, SetLocal(j) PROVE Goal
    BY <1>13 DEF SetLocal, pion, link, mutex, counts
  <1>14. ASSUME NEW j \in Jobs, ~crashed, SendOffer(j) PROVE Goal
    <2>1. offers' = Append(offers, pending) /\ UNCHANGED <<pending, channel, unfinished, answers>>
      BY <1>14 DEF SendOffer, pion, counts
    <2>2. offers' # <<>>
      BY <2>1
    <2>. QED
      BY <2>1, <2>2
  <1>15. ASSUME NEW j \in Jobs, ~crashed, Leave(j) PROVE Goal
    BY <1>15 DEF Leave, pion, link, mutex, counts
  <1>16. CASE UNCHANGED vars
    BY <1>16 DEF vars, pion, link, mutex, counts
  <1>17. CASE ~crashed /\ OlderMessage
    BY <1>17 DEF OlderMessage, SetRemote, pion, link, mutex, counts
  <1>. QED  BY <1>1, <1>2, <1>3, <1>4, <1>5, <1>6, <1>7, <1>8,
            <1>9, <1>10, <1>11, <1>12, <1>13, <1>14, <1>15, <1>16, <1>17
         DEF Next, Environment, Renegotiate

\* The track of x has been added, and the browser has not answered an offer with it.
Wanting(x) == x \in tracks \ (current \cap answered) /\ channel = "open" /\ ~unfinished

Done(x) == x \in current \cap answered \/ Gone(x)

\* A job has made its offer before the track was added.
Old(x) == \E j \in Jobs : job[j] = "created" /\ x \notin made[j]

\* No such job is left, and no such offer pending.
Fresh(x) == Wanting(x) /\ ~Old(x) /\ (Stable \/ x \in pending)

\* An offer with the track has been applied, be it with the answer to another one.
Kept(x) == Fresh(x) /\ x \in current

\* Offers that are made now have the track.
LEMMA WantingMoves ==
    ASSUME TypeOK, Exclusive, [Next]_vars, NEW x \in Sources, Wanting(x)
    PROVE  \/ Done(x)'
           \/ /\ Wanting(x)'
              /\ ~Old(x) => ~Old(x)'
  <1>. USE NegotiationAssumption DEF TypeOK, Exclusive, Wanting, Done, Gone, Old, Stable, Inside
  <1> DEFINE Goal == \/ Done(x)' \/ (Wanting(x)' /\ (~Old(x) => ~Old(x)'))
  <1>1. ASSUME NEW y \in Sources, ~crashed, AddTrack(y) PROVE Goal
    BY <1>1 DEF AddTrack, Change, Event, pion, link, mutex, counts
  <1>2. ASSUME NEW y \in Sources, ~crashed, RemoveTrack(y) PROVE Goal
    BY <1>2 DEF RemoveTrack, Change, Event, pion, link, mutex, counts
  <1>3. CASE ~crashed /\ ConnectChannel
    BY <1>3 DEF ConnectChannel, Event, pion, link, mutex, counts
  <1>4. CASE ~crashed /\ OpenChannel
    BY <1>4 DEF OpenChannel, pion, link, mutex, counts
  <1>5. CASE ~crashed /\ CloseChannel
    BY <1>5 DEF CloseChannel, pion, link, mutex, counts
  <1>6. CASE ~crashed /\ Wake
    BY <1>6 DEF Wake, pion, link, mutex, counts
  <1>7. CASE ~crashed /\ NegotiationNeeded
    BY <1>7 DEF NegotiationNeeded, pion, link, mutex, counts
  <1>8. CASE ~crashed /\ OnOpen
    BY <1>8 DEF OnOpen, pion, link, mutex, counts
  <1>9. CASE ~crashed /\ BrowserAnswers
    BY <1>9 DEF BrowserAnswers, pion, link, mutex, counts
  <1>10. CASE ~crashed /\ OnAnswer
    BY <1>10 DEF OnAnswer, SetRemote, pion, link, mutex, counts
  <1>11. ASSUME NEW j \in Jobs, ~crashed, Enter(j) PROVE Goal
    BY <1>11 DEF Enter, pion, link, mutex, counts
  <1>12. ASSUME NEW j \in Jobs, ~crashed, CreateOffer(j) PROVE Goal
    BY <1>12 DEF CreateOffer, pion, link, mutex, counts
  <1>13. ASSUME NEW j \in Jobs, ~crashed, SetLocal(j) PROVE Goal
    BY <1>13 DEF SetLocal, pion, link, mutex, counts
  <1>14. ASSUME NEW j \in Jobs, ~crashed, SendOffer(j) PROVE Goal
    BY <1>14 DEF SendOffer, pion, link, mutex, counts
  <1>15. ASSUME NEW j \in Jobs, ~crashed, Leave(j) PROVE Goal
    BY <1>15 DEF Leave, pion, link, mutex, counts
  <1>16. CASE UNCHANGED vars
    BY <1>16 DEF vars, pion, link, mutex, counts
  <1>17. CASE ~crashed /\ OlderMessage
    BY <1>17 DEF OlderMessage, SetRemote, pion, link, mutex, counts
  <1>. QED  BY <1>1, <1>2, <1>3, <1>4, <1>5, <1>6, <1>7, <1>8,
            <1>9, <1>10, <1>11, <1>12, <1>13, <1>14, <1>15, <1>16, <1>17
         DEF Next, Environment, Renegotiate

\* What a needed negotiation has under way is not lost until an offer is pending.
LEMMA FreshMoves ==
    ASSUME TypeOK, Exclusive, Registered, Registered', [Next]_vars, NEW x \in Sources, Fresh(x)
    PROVE  \/ Done(x)'
           \/ Fresh(x)' /\ ~Stable'
           \/ Kept(x)' /\ ~Stable
           \/ /\ Fresh(x)' /\ Stable
              /\ check => check' \/ flag'
              /\ flag => flag'
              /\ JobAt("created") => JobAt("created")'
              /\ JobAt("entered") => JobAt("entered")' \/ JobAt("created")'
              /\ waiting > 0 => waiting' > 0 \/ JobAt("entered")'
              /\ JobAt("set") => JobAt("set")' \/ JobAt("sent")'
              /\ JobAt("sent") => JobAt("sent")' \/ Inside' = {}
              /\ Inside = {} => Inside' = {} \/ JobAt("entered")'
  <1>. USE NegotiationAssumption
       DEF TypeOK, Exclusive, Fresh, Kept, Wanting, Done, Gone, Old, Stable, Inside, JobAt,
           Registered, Needed
  <1> DEFINE Goal ==
           \/ Done(x)'
           \/ Fresh(x)' /\ ~Stable'
           \/ Kept(x)' /\ ~Stable
           \/ /\ Fresh(x)' /\ Stable
              /\ check => check' \/ flag'
              /\ flag => flag'
              /\ JobAt("created") => JobAt("created")'
              /\ JobAt("entered") => JobAt("entered")' \/ JobAt("created")'
              /\ waiting > 0 => waiting' > 0 \/ JobAt("entered")'
              /\ JobAt("set") => JobAt("set")' \/ JobAt("sent")'
              /\ JobAt("sent") => JobAt("sent")' \/ Inside' = {}
              /\ Inside = {} => Inside' = {} \/ JobAt("entered")'
  <1>1. ASSUME NEW y \in Sources, ~crashed, AddTrack(y) PROVE Goal
    BY <1>1 DEF AddTrack, Change, Event, pion, link, mutex, counts
  <1>2. ASSUME NEW y \in Sources, ~crashed, RemoveTrack(y) PROVE Goal
    BY <1>2 DEF RemoveTrack, Change, Event, pion, link, mutex, counts
  <1>3. CASE ~crashed /\ ConnectChannel
    BY <1>3 DEF ConnectChannel, Event, pion, link, mutex, counts
  <1>4. CASE ~crashed /\ OpenChannel
    BY <1>4 DEF OpenChannel, pion, link, mutex, counts
  <1>5. CASE ~crashed /\ CloseChannel
    BY <1>5 DEF CloseChannel, pion, link, mutex, counts
  <1>6. CASE ~crashed /\ Wake
    BY <1>6 DEF Wake, pion, link, mutex, counts
  <1>7. CASE ~crashed /\ NegotiationNeeded
    <2>1. Needed /\ (Stable => flag')
      BY <1>7 DEF NegotiationNeeded
    <2>. QED
      BY <1>7, <2>1 DEF NegotiationNeeded, pion, link, mutex, counts
  <1>8. CASE ~crashed /\ OnOpen
    BY <1>8 DEF OnOpen, pion, link, mutex, counts
  <1>9. CASE ~crashed /\ BrowserAnswers
    BY <1>9 DEF BrowserAnswers, pion, link, mutex, counts
  <1>10. CASE ~crashed /\ OnAnswer
    BY <1>10 DEF OnAnswer, SetRemote, pion, link, mutex, counts
  <1>11. ASSUME NEW j \in Jobs, ~crashed, Enter(j) PROVE Goal
    BY <1>11 DEF Enter, pion, link, mutex, counts
  <1>12. ASSUME NEW j \in Jobs, ~crashed, CreateOffer(j) PROVE Goal
    BY <1>12 DEF CreateOffer, pion, link, mutex, counts
  <1>13. ASSUME NEW j \in Jobs, ~crashed, SetLocal(j) PROVE Goal
    BY <1>13 DEF SetLocal, pion, link, mutex, counts
  <1>14. ASSUME NEW j \in Jobs, ~crashed, SendOffer(j) PROVE Goal
    BY <1>14 DEF SendOffer, pion, link, mutex, counts
  <1>15. ASSUME NEW j \in Jobs, ~crashed, Leave(j) PROVE Goal
    BY <1>15 DEF Leave, pion, link, mutex, counts
  <1>16. CASE UNCHANGED vars
    BY <1>16 DEF vars, pion, link, mutex, counts
  <1>17. CASE ~crashed /\ OlderMessage
    BY <1>17 DEF OlderMessage, SetRemote, pion, link, mutex, counts
  <1>. QED  BY <1>1, <1>2, <1>3, <1>4, <1>5, <1>6, <1>7, <1>8,
            <1>9, <1>10, <1>11, <1>12, <1>13, <1>14, <1>15, <1>16, <1>17
         DEF Next, Environment, Renegotiate

\* From then on the track stays in the current offer ...
LEMMA KeptMoves ==
    ASSUME TypeOK, Exclusive, [Next]_vars, NEW x \in Sources, Kept(x)
    PROVE  Done(x)' \/ Kept(x)'
  <1>. USE NegotiationAssumption
       DEF TypeOK, Exclusive, Fresh, Kept, Wanting, Done, Gone, Old, Stable, Inside
  <1> DEFINE Goal == Done(x)' \/ Kept(x)'
  <1>1. ASSUME NEW y \in Sources, ~crashed, AddTrack(y) PROVE Goal
    BY <1>1 DEF AddTrack, Change, Event, pion, link, mutex, counts
  <1>2. ASSUME NEW y \in Sources, ~crashed, RemoveTrack(y) PROVE Goal
    BY <1>2 DEF RemoveTrack, Change, Event, pion, link, mutex, counts
  <1>3. CASE ~crashed /\ ConnectChannel
    BY <1>3 DEF ConnectChannel, Event, pion, link, mutex, counts
  <1>4. CASE ~crashed /\ OpenChannel
    BY <1>4 DEF OpenChannel, pion, link, mutex, counts
  <1>5. CASE ~crashed /\ CloseChannel
    BY <1>5 DEF CloseChannel, pion, link, mutex, counts
  <1>6. CASE ~crashed /\ Wake
    BY <1>6 DEF Wake, pion, link, mutex, counts
  <1>7. CASE ~crashed /\ NegotiationNeeded
    BY <1>7 DEF NegotiationNeeded, pion, link, mutex, counts
  <1>8. CASE ~crashed /\ OnOpen
    BY <1>8 DEF OnOpen, pion, link, mutex, counts
  <1>9. CASE ~crashed /\ BrowserAnswers
    BY <1>9 DEF BrowserAnswers, pion, link, mutex, counts
  <1>10. CASE ~crashed /\ OnAnswer
    BY <1>10 DEF OnAnswer, SetRemote, pion, link, mutex, counts
  <1>11. ASSUME NEW j \in Jobs, ~crashed, Enter(j) PROVE Goal
    BY <1>11 DEF Enter, pion, link, mutex, counts
  <1>12. ASSUME NEW j \in Jobs, ~crashed, CreateOffer(j) PROVE Goal
    BY <1>12 DEF CreateOffer, pion, link, mutex, counts
  <1>13. ASSUME NEW j \in Jobs, ~crashed, SetLocal(j) PROVE Goal
    BY <1>13 DEF SetLocal, pion, link, mutex, counts
  <1>14. ASSUME NEW j \in Jobs, ~crashed, SendOffer(j) PROVE Goal
    BY <1>14 DEF SendOffer, pion, link, mutex, counts
  <1>15. ASSUME NEW j \in Jobs, ~crashed, Leave(j) PROVE Goal
    BY <1>15 DEF Leave, pion, link, mutex, counts
  <1>16. CASE UNCHANGED vars
    BY <1>16 DEF vars, pion, link, mutex, counts
  <1>17. CASE ~crashed /\ OlderMessage
    BY <1>17 DEF OlderMessage, SetRemote, pion, link, mutex, counts
  <1>. QED  BY <1>1, <1>2, <1>3, <1>4, <1>5, <1>6, <1>7, <1>8,
            <1>9, <1>10, <1>11, <1>12, <1>13, <1>14, <1>15, <1>16, <1>17
         DEF Next, Environment, Renegotiate

\* ... and is in every one that is sent.
LEMMA ClearMoves ==
    ASSUME TypeOK, [Next]_vars, NEW x \in Sources, Kept(x), ~Stale(x)
    PROVE  ~Stale(x)' \/ Done(x)'
<1>1. /\ \A i \in DOMAIN offers : x \in offers[i]
      /\ \A i \in DOMAIN answers : x \in answers[i]
      /\ \A i \in DOMAIN older : x \in older[i]
  BY DEF Stale
<1>2. /\ offers \in Seq(SUBSET Sources) /\ answers \in Seq(SUBSET Sources)
      /\ older \in Seq(SUBSET Sources)
  BY DEF TypeOK
<1>3. ASSUME UNCHANGED <<offers, answers, older>> PROVE ~Stale(x)'
  BY <1>1, <1>3 DEF Stale
<1>4. CASE CloseChannel
  BY <1>1, <1>4 DEF CloseChannel, Stale
<1>5. CASE BrowserAnswers
  <2>1. /\ offers # <<>> /\ offers' = Tail(offers) /\ answers' = Append(answers, Head(offers))
        /\ older' = older
    BY <1>5 DEF BrowserAnswers
  <2>2. \A i \in DOMAIN offers' : x \in offers'[i]
    BY <1>1, <1>2, <2>1
  <2>3. \A i \in DOMAIN answers' : x \in answers'[i]
    BY <1>1, <1>2, <2>1
  <2> QED BY <1>1, <2>1, <2>2, <2>3 DEF Stale
<1>6. CASE OnAnswer
  <2>1. answers # <<>> /\ answers' = Tail(answers) /\ UNCHANGED <<offers, older>>
    BY <1>6 DEF OnAnswer
  <2>2. \A i \in DOMAIN answers' : x \in answers'[i]
    BY <1>1, <1>2, <2>1
  <2> QED BY <1>1, <2>1, <2>2 DEF Stale
<1>7. ASSUME NEW j \in Jobs, SendOffer(j) PROVE ~Stale(x)'
  <2> DEFINE sent == IF Stable THEN current ELSE pending
  <2>1. x \in sent /\ sent \in SUBSET Sources
    BY DEF Kept, Fresh, Stable, TypeOK
  <2>2. offers' = Append(offers, sent) \/ offers' = offers
    BY <1>7 DEF SendOffer
  <2>3. answers' = answers /\ older' = older
    BY <1>7 DEF SendOffer
  <2> HIDE DEF sent
  <2>4. \A i \in DOMAIN offers' : x \in offers'[i]
    BY <1>1, <1>2, <2>1, <2>2
  <2> QED BY <1>1, <2>3, <2>4 DEF Stale
<1>8. CASE OlderMessage
  <2>1. PICK i \in DOMAIN older : older' = RemoveAt(older, i) /\ UNCHANGED <<offers, answers>>
    BY <1>8 DEF OlderMessage
  <2>2. \A k \in DOMAIN older' : x \in older'[k]
    BY <1>1, <1>2, <2>1, Removed
  <2> QED BY <1>1, <2>1, <2>2 DEF Stale
<1>9. CASE ConnectChannel
  BY <1>9 DEF ConnectChannel, Done, Gone
<1>10. \/ UNCHANGED <<offers, answers, older>> \/ CloseChannel \/ BrowserAnswers \/ OnAnswer
       \/ OlderMessage \/ ConnectChannel
       \/ \E j \in Jobs : SendOffer(j)
  BY DEF Next, Environment, Renegotiate, AddTrack, RemoveTrack, Change, OpenChannel, Wake,
         NegotiationNeeded, OnOpen, Enter, CreateOffer, SetLocal, Leave, vars, pion, link, mutex,
         counts
<1> QED BY <1>3, <1>4, <1>5, <1>6, <1>7, <1>8, <1>9, <1>10

\* An answer that has the track makes it arrive.
LEMMA AnswerIsRight ==
    ASSUME TypeOK, Exclusive, NEW x \in Sources, Kept(x), ~Stale(x), ~Stable,
           [Next]_vars, Stable'
    PROVE  Done(x)'
<1>1. \E answer : SetRemote(answer) /\ x \in answer
  <2>1. ASSUME NEW j \in Jobs, SetLocal(j) PROVE FALSE
    <3>1. made[j] \in SUBSET Sources /\ (pending' = made[j] \/ pending' = pending)
      BY <2>1 DEF SetLocal, TypeOK
    <3> QED BY <3>1, NegotiationAssumption DEF Stable
  <2>2. pending' = pending \/ OnAnswer \/ OlderMessage \/ \E j \in Jobs : SetLocal(j)
    BY DEF Next, Environment, Renegotiate, AddTrack, RemoveTrack, ConnectChannel, OpenChannel,
           CloseChannel, Wake, NegotiationNeeded, OnOpen, BrowserAnswers, Enter, CreateOffer,
           SendOffer, Leave, vars, pion
  <2>3. CASE OnAnswer
    <3>1. answers # <<>> /\ answers \in Seq(SUBSET Sources) /\ SetRemote(Head(answers))
      BY <2>3 DEF OnAnswer, TypeOK
    <3>2. 1 \in DOMAIN answers /\ Head(answers) = answers[1]
      BY <3>1
    <3> QED BY <3>1, <3>2 DEF Stale
  <2>4. CASE OlderMessage
    BY <2>4 DEF OlderMessage, Stale, Stable
  <2> QED BY <2>1, <2>2, <2>3, <2>4 DEF Stable
<1>2. x \in pending
  BY DEF Kept, Fresh
<1>3. x \in current' /\ x \in answered'
  BY <1>1, <1>2 DEF SetRemote
<1> QED BY <1>3 DEF Done

\* The steps that lead from stage to stage.
LEMMA PendingHelped ==
    ASSUME TypeOK, Exclusive, Pending
    PROVE  /\ OnAnswer => Settled' \/ answers = <<>>
           /\ offers # <<>> /\ BrowserAnswers => answers' # <<>>
           /\ JobAt("set") /\ (\E j \in Jobs : Renegotiate(j)) => offers' # <<>>
<1> USE DEF TypeOK, Exclusive, Pending, Settled, Stable, JobAt
<1>1. OnAnswer => Settled' \/ answers = <<>>
  BY DEF OnAnswer, SetRemote
<1>2. offers # <<>> /\ BrowserAnswers => answers' # <<>>
  BY DEF BrowserAnswers
<1>3. ASSUME JobAt("set"), NEW j \in Jobs, Renegotiate(j) PROVE offers' # <<>>
  BY <1>3 DEF Renegotiate, CreateOffer, SetLocal, SendOffer, Leave
<1> QED BY <1>1, <1>2, <1>3

LEMMA FreshHelped ==
    ASSUME TypeOK, Exclusive, NEW x \in Sources, Fresh(x), Stable
    PROVE  /\ NegotiationNeeded => flag'
           /\ Inside = {} /\ (\E j \in Jobs : Enter(j)) => JobAt("entered")'
           /\ JobAt("entered") /\ (\E j \in Jobs : Renegotiate(j)) => JobAt("created")'
           /\ JobAt("created") /\ (\E j \in Jobs : Renegotiate(j)) => ~Stable'
           /\ JobAt("set") /\ (\E j \in Jobs : Renegotiate(j)) => JobAt("sent")'
           /\ JobAt("sent") /\ (\E j \in Jobs : Renegotiate(j)) => Inside' = {}
<1> USE NegotiationAssumption DEF TypeOK, Exclusive, Fresh, Wanting, Stable, Inside, JobAt
<1>1. NegotiationNeeded => flag'
  BY DEF NegotiationNeeded, Needed
<1>2. ASSUME NEW j \in Jobs, Enter(j) PROVE JobAt("entered")'
  BY <1>2 DEF Enter
<1>3. ASSUME NEW j \in Jobs, Renegotiate(j)
      PROVE  /\ JobAt("entered") => JobAt("created")'
             /\ JobAt("created") => ~Stable'
             /\ JobAt("set") => JobAt("sent")'
             /\ JobAt("sent") => Inside' = {}
  <2>1. CASE CreateOffer(j)
    BY <2>1 DEF CreateOffer
  <2>2. CASE SetLocal(j)
    BY <2>2 DEF SetLocal
  <2>3. CASE SendOffer(j)
    BY <2>3 DEF SendOffer
  <2>4. CASE Leave(j)
    BY <2>4 DEF Leave
  <2> QED BY <1>3, <2>1, <2>2, <2>3, <2>4 DEF Renegotiate
<1> QED BY <1>1, <1>2, <1>3

LEMMA OldHelped ==
    ASSUME TypeOK, Exclusive, NEW x \in Sources, Wanting(x), Old(x),
           NEW j \in Jobs, Renegotiate(j)
    PROVE  ~Old(x)'
  BY DEF TypeOK, Exclusive, Wanting, Old, Renegotiate, CreateOffer, SetLocal, SendOffer, Leave

\* Where the offer or its answer is.
ToSend == Pending /\ JobAt("set")

AtBrowser == Pending /\ offers # <<>>

AtServer == Pending /\ answers # <<>>

\* A pending offer is sent, answered, and the answer taken.
LEMMA PendingSettles == Spec /\ StepsAreTaken => (Pending ~> Settled)
<1>1. Inv /\ Pending => AtServer \/ AtBrowser \/ ToSend
  BY DEF Inv, UnderWay, Pending, JobAt, AtServer, AtBrowser, ToSend
<1>2. Spec /\ StepsAreTaken => (AtServer ~> Settled)
  <2>1. Inv /\ AtServer => ~(crashed \/ answers = <<>>)
    BY DEF Inv, Exclusive, AtServer, Pending
  <2>2. Inv /\ AtServer /\ [Next]_vars => AtServer' \/ Settled'
    BY PendingMoves DEF Inv, AtServer
  <2>3. Inv /\ AtServer /\ <<OnAnswer>>_vars => Settled'
    BY PendingHelped DEF Inv, AtServer
  <2> QED BY <2>1, <2>2, <2>3, Invariant, PTL DEF Spec, StepsAreTaken
<1>3. Spec /\ StepsAreTaken => (AtBrowser ~> AtServer \/ Settled)
  <2>1. Inv /\ AtBrowser => ~(crashed \/ offers = <<>>)
    BY DEF Inv, Exclusive, AtBrowser, Pending
  <2>2. Inv /\ AtBrowser /\ [Next]_vars => AtBrowser' \/ AtServer' \/ Settled'
    BY PendingMoves DEF Inv, AtBrowser, AtServer
  <2>3. Inv /\ AtBrowser /\ [Next]_vars /\ <<BrowserAnswers>>_vars => AtServer' \/ Settled'
    BY PendingMoves, PendingHelped DEF Inv, AtBrowser, AtServer
  <2> QED BY <2>1, <2>2, <2>3, Invariant, PTL DEF Spec, StepsAreTaken
<1>4. Spec /\ StepsAreTaken => (ToSend ~> AtBrowser \/ Settled)
  <2>1. Inv /\ ToSend => ~(crashed \/ Inside = {})
    BY DEF Inv, Exclusive, ToSend, Pending, JobAt, Inside
  <2>2. Inv /\ ToSend /\ [Next]_vars => ToSend' \/ AtBrowser' \/ Settled'
    BY PendingMoves DEF Inv, ToSend, AtBrowser
  <2>3. Inv /\ ToSend /\ [Next]_vars /\ <<\E j \in Jobs : Renegotiate(j)>>_vars
            => AtBrowser' \/ Settled'
    BY PendingMoves, PendingHelped DEF Inv, ToSend, AtBrowser
  <2> QED BY <2>1, <2>2, <2>3, Invariant, PTL DEF Spec, StepsAreTaken
<1> QED BY <1>1, <1>2, <1>3, <1>4, Invariant, PTL

\* The media loops, which skip a user while an offer is pending, do so for some time
\* only, for any number of users, jobs and reconnections.
THEOREM PendingOffersAreAnswered == Spec /\ StepsAreTaken => SilenceEnds
  BY PendingSettles, PTL DEF SilenceEnds, Pending, Settled

\* The stages: an earlier offer is being made, ...
Outdated(x) == Wanting(x) /\ Old(x)

\* ... or has been made and may be pending; ...
UpToDate(x) == Wanting(x) /\ ~Old(x)

\* ... the offer with the track is pending; ...
Offered(x) == Fresh(x) /\ ~Stable

\* ... pion is about to see what is needed; ...
Noticed(x) == Fresh(x) /\ Stable /\ check

\* ... the handler has been called; ...
Flagged(x) == Fresh(x) /\ Stable /\ flag

\* ... its goroutine is at work, ...
Made(x) == Flagged(x) /\ JobAt("created")

Entered(x) == Flagged(x) /\ JobAt("entered")

\* ... or waits for the mutex that another one has, or that is free.
Queueing(x, label) == Flagged(x) /\ waiting > 0 /\ JobAt(label)

Free(x) == Flagged(x) /\ waiting > 0 /\ Inside = {}

\* The chain up to the offer with the track.
LEMMA FreshIsOffered ==
    ASSUME NEW x \in Sources
    PROVE  Spec /\ StepsAreTaken => (Fresh(x) ~> Offered(x) \/ Done(x))
<1>4. Spec /\ StepsAreTaken => (Noticed(x) ~> Flagged(x) \/ Offered(x) \/ Done(x))
  <2>1. Inv /\ Noticed(x) => ~(crashed \/ ~check)
    BY DEF Inv, Exclusive, Inside, JobAt, Old, Fresh, Wanting, Noticed, Flagged, Offered
  <2>2. Inv /\ Inv' /\ Noticed(x) /\ [Next]_vars
            => Noticed(x)' \/ Flagged(x)' \/ Offered(x)' \/ Done(x)'
    BY FreshMoves DEF Inv, Noticed, Flagged, Offered
  <2>3. Inv /\ Inv' /\ Noticed(x) /\ [Next]_vars /\ <<NegotiationNeeded>>_vars
            => Flagged(x)' \/ Offered(x)' \/ Done(x)'
    BY FreshMoves, FreshHelped DEF Inv, Noticed, Flagged, Offered
  <2> QED BY <2>1, <2>2, <2>3, Invariant, PTL DEF Spec, StepsAreTaken
<1>5. Spec /\ StepsAreTaken => (Made(x) ~> Offered(x) \/ Done(x))
  <2>1. Inv /\ Made(x) => ~(crashed \/ Inside = {})
    BY DEF Inv, Exclusive, Inside, JobAt, Old, Fresh, Wanting, Made, Flagged, Offered
  <2>2. Inv /\ Inv' /\ Made(x) /\ [Next]_vars => Made(x)' \/ Offered(x)' \/ Done(x)'
    BY FreshMoves DEF Inv, Made, Flagged, Offered
  <2>3. Inv /\ Inv' /\ Made(x) /\ [Next]_vars /\ <<\E j \in Jobs : Renegotiate(j)>>_vars
            => Offered(x)' \/ Done(x)'
    BY FreshMoves, FreshHelped DEF Inv, Made, Flagged, Offered
  <2> QED BY <2>1, <2>2, <2>3, Invariant, PTL DEF Spec, StepsAreTaken
<1>6. Spec /\ StepsAreTaken => (Entered(x) ~> Made(x) \/ Offered(x) \/ Done(x))
  <2>1. Inv /\ Entered(x) => ~(crashed \/ Inside = {})
    BY DEF Inv, Exclusive, Inside, JobAt, Old, Fresh, Wanting, Entered, Made, Flagged, Offered
  <2>2. Inv /\ Inv' /\ Entered(x) /\ [Next]_vars
            => Entered(x)' \/ Made(x)' \/ Offered(x)' \/ Done(x)'
    BY FreshMoves DEF Inv, Entered, Made, Flagged, Offered
  <2>3. Inv /\ Inv' /\ Entered(x) /\ [Next]_vars /\ <<\E j \in Jobs : Renegotiate(j)>>_vars
            => Made(x)' \/ Offered(x)' \/ Done(x)'
    BY FreshMoves, FreshHelped DEF Inv, Entered, Made, Flagged, Offered
  <2> QED BY <2>1, <2>2, <2>3, Invariant, PTL DEF Spec, StepsAreTaken
<1>7. Spec /\ StepsAreTaken => (Free(x) ~> Entered(x) \/ Offered(x) \/ Done(x))
  <2>1. Inv /\ Free(x) => ~(crashed \/ waiting = 0 \/ locked \/ Inside # {})
    BY DEF Inv, Exclusive, Inside, JobAt, Old, Fresh, Wanting, Free, Entered, Flagged, Offered
  <2>2. Inv /\ Inv' /\ Free(x) /\ [Next]_vars
            => Free(x)' \/ Entered(x)' \/ Offered(x)' \/ Done(x)'
    BY FreshMoves DEF Inv, Free, Entered, Flagged, Offered
  <2>3. Inv /\ Inv' /\ Free(x) /\ [Next]_vars /\ <<\E j \in Jobs : Enter(j)>>_vars
            => Entered(x)' \/ Offered(x)' \/ Done(x)'
    BY FreshMoves, FreshHelped DEF Inv, Free, Entered, Flagged, Offered
  <2> QED BY <2>1, <2>2, <2>3, Invariant, PTL DEF Spec, StepsAreTaken
<1>8. Spec /\ StepsAreTaken =>
    (Queueing(x, "sent") ~> Free(x) \/ Entered(x) \/ Offered(x) \/ Done(x))
  <2>1. Inv /\ Queueing(x, "sent") => ~(crashed \/ Inside = {})
    BY DEF Inv, Exclusive, Inside, JobAt, Old, Fresh, Wanting, Queueing, Free, Entered, Flagged,
           Offered
  <2>2. Inv /\ Inv' /\ Queueing(x, "sent") /\ [Next]_vars
            => Queueing(x, "sent")' \/ Free(x)' \/ Entered(x)' \/ Offered(x)' \/ Done(x)'
    BY FreshMoves DEF Inv, Queueing, Free, Entered, Flagged, Offered
  <2>3. Inv /\ Inv' /\ Queueing(x, "sent") /\ [Next]_vars /\ <<\E j \in Jobs : Renegotiate(j)>>_vars
            => Free(x)' \/ Entered(x)' \/ Offered(x)' \/ Done(x)'
    BY FreshMoves, FreshHelped DEF Inv, Queueing, Free, Entered, Flagged, Offered
  <2> QED BY <2>1, <2>2, <2>3, Invariant, PTL DEF Spec, StepsAreTaken
<1>9. Spec /\ StepsAreTaken =>
    (Queueing(x, "set") ~> Queueing(x, "sent") \/ Entered(x) \/ Offered(x) \/ Done(x))
  <2>1. Inv /\ Queueing(x, "set") => ~(crashed \/ Inside = {})
    BY DEF Inv, Exclusive, Inside, JobAt, Old, Fresh, Wanting, Queueing, Entered, Flagged, Offered
  <2>2. Inv /\ Inv' /\ Queueing(x, "set") /\ [Next]_vars
            => Queueing(x, "set")' \/ Queueing(x, "sent")' \/ Entered(x)' \/ Offered(x)' \/ Done(x)'
    BY FreshMoves DEF Inv, Queueing, Entered, Flagged, Offered
  <2>3. Inv /\ Inv' /\ Queueing(x, "set") /\ [Next]_vars /\ <<\E j \in Jobs : Renegotiate(j)>>_vars
            => Queueing(x, "sent")' \/ Entered(x)' \/ Offered(x)' \/ Done(x)'
    BY FreshMoves, FreshHelped DEF Inv, Queueing, Entered, Flagged, Offered
  <2> QED BY <2>1, <2>2, <2>3, Invariant, PTL DEF Spec, StepsAreTaken
<1>10. Inv /\ Fresh(x) => Offered(x) \/ Noticed(x) \/ Flagged(x)
  BY DEF Inv, Queued, Needed, Fresh, Wanting, Offered, Noticed, Flagged
<1>11. Inv /\ Flagged(x) =>
           Made(x) \/ Entered(x) \/ Queueing(x, "set") \/ Queueing(x, "sent") \/ Free(x)
  BY DEF Inv, TypeOK, UnderWay, Inside, JobAt, Fresh, Wanting, Flagged, Made, Entered, Queueing,
         Free
<1>12. Spec /\ StepsAreTaken => (Flagged(x) ~> Offered(x) \/ Done(x))
  BY <1>5, <1>6, <1>7, <1>8, <1>9, <1>11, Invariant, PTL
<1> QED BY <1>4, <1>10, <1>12, Invariant, PTL

LEMMA WantedIsFresh ==
    ASSUME NEW x \in Sources
    PROVE  Spec /\ StepsAreTaken => (Wanting(x) ~> Fresh(x) \/ Done(x))
<1>1. Spec /\ StepsAreTaken => (Outdated(x) ~> UpToDate(x) \/ Done(x))
  <2>1. Inv /\ Outdated(x) => ~(crashed \/ Inside = {})
    BY DEF Inv, Exclusive, Inside, JobAt, Old, Fresh, Wanting, Outdated, UpToDate
  <2>2. Inv /\ Inv' /\ Outdated(x) /\ [Next]_vars => Outdated(x)' \/ UpToDate(x)' \/ Done(x)'
    BY WantingMoves DEF Inv, Outdated, UpToDate
  <2>3. Inv /\ Inv' /\ Outdated(x) /\ [Next]_vars /\ <<\E j \in Jobs : Renegotiate(j)>>_vars
            => UpToDate(x)' \/ Done(x)'
    BY WantingMoves, OldHelped DEF Inv, Outdated, UpToDate
  <2> QED BY <2>1, <2>2, <2>3, Invariant, PTL DEF Spec, StepsAreTaken
<1>2. Spec /\ StepsAreTaken => (UpToDate(x) ~> Fresh(x) \/ Done(x))
  <2>1. Inv /\ UpToDate(x) /\ [Next]_vars => UpToDate(x)' \/ Done(x)'
    BY WantingMoves DEF Inv, UpToDate
  <2>2. UpToDate(x) => Pending \/ Fresh(x)
    BY DEF UpToDate, Fresh, Pending, Wanting
  <2>3. UpToDate(x) /\ Settled => Fresh(x)
    BY DEF UpToDate, Fresh, Settled, Wanting
  <2> QED BY <2>1, <2>2, <2>3, Invariant, PendingSettles, PTL DEF Spec
<1>3. Wanting(x) => Outdated(x) \/ UpToDate(x)
  BY DEF Outdated, UpToDate
<1> QED BY <1>1, <1>2, <1>3, PTL

LEMMA OfferedIsKept ==
    ASSUME NEW x \in Sources
    PROVE  Spec /\ StepsAreTaken => (Offered(x) ~> Kept(x) \/ Done(x))
<1>1. Inv /\ Inv' /\ Offered(x) /\ [Next]_vars => Offered(x)' \/ Kept(x)' \/ Done(x)'
  BY FreshMoves DEF Inv, Offered
<1>2. Offered(x) => Pending /\ ~Settled
  BY DEF Offered, Fresh, Pending, Wanting, Settled
<1> QED BY <1>1, <1>2, Invariant, PendingSettles, PTL DEF Spec

\* A track that is added to a connection whose channel was opened in peace gets into
\* an offer that the browser has answered: the first half of TracksArrive.
TracksAreOffered ==
    \A x \in Sources :
        x \in tracks /\ channel = "open" /\ ~unfinished ~> x \in current \/ Gone(x)

\* An added track is offered and the offer answered, whatever is under way when it is
\* added and however often the tracks change meanwhile.
THEOREM AddedTracksAreOffered == Spec /\ StepsAreTaken => TracksAreOffered
<1> SUFFICES ASSUME NEW x \in Sources
             PROVE  Spec /\ StepsAreTaken =>
                (x \in tracks /\ channel = "open" /\ ~unfinished ~> x \in current \/ Gone(x))
  BY DEF TracksAreOffered
<1>1. x \in tracks /\ channel = "open" /\ ~unfinished => Wanting(x) \/ Done(x)
  BY DEF Wanting, Done
<1>2. Kept(x) \/ Done(x) => x \in current \/ Gone(x)
  BY DEF Kept, Done
<1> QED BY <1>1, <1>2, WantedIsFresh, FreshIsOffered, OfferedIsKept, PTL

\* All that is on its way has the track.
Clear(x) == Kept(x) /\ ~Stale(x)

\* The browser gets the track, once the answers to earlier offers, which are applied
\* to later ones, have come.
THEOREM AddedTracksArrive == Spec /\ Progress => TracksArrive
<1> SUFFICES ASSUME NEW x \in Sources
             PROVE  Spec /\ Progress =>
                (x \in tracks /\ channel = "open" /\ ~unfinished ~>
                    x \in current \cap answered \/ Gone(x))
  BY DEF TracksArrive
<1>1. Spec /\ StaleOnesPass(x) => (Kept(x) ~> Clear(x) \/ Done(x))
  <2>1. Inv /\ Kept(x) /\ [Next]_vars => Kept(x)' \/ Done(x)'
    BY KeptMoves DEF Inv
  <2>2. Inv /\ Kept(x) => ~(Gone(x) \/ unfinished)
    BY DEF Inv, Exclusive, Kept, Fresh, Wanting, Gone
  <2>3. Kept(x) /\ ~Stale(x) => Clear(x)
    BY DEF Clear
  <2> QED BY <2>1, <2>2, <2>3, Invariant, PTL DEF Spec, StaleOnesPass
<1>2. Spec /\ StepsAreTaken => (Clear(x) ~> Done(x))
  <2>1. Inv /\ Clear(x) /\ [Next]_vars => Clear(x)' \/ Done(x)'
    BY KeptMoves, ClearMoves DEF Inv, Clear
  <2>2. Clear(x) => Fresh(x)
    BY DEF Clear, Kept
  <2>3. Inv /\ Inv' /\ Clear(x) /\ Offered(x) /\ [Next]_vars => Offered(x)' \/ Done(x)'
    <3> SUFFICES ASSUME Inv, Inv', Clear(x), Offered(x), [Next]_vars
                 PROVE  Offered(x)' \/ Done(x)'
      OBVIOUS
    <3>1. ~Stable /\ Kept(x) /\ ~Stale(x)
      BY DEF Offered, Clear
    <3>2. CASE Stable'
      BY <3>1, <3>2, AnswerIsRight DEF Inv
    <3>3. CASE ~Stable'
      <4>1. Kept(x)' \/ Done(x)'
        BY <3>1, KeptMoves DEF Inv
      <4> QED BY <3>3, <4>1 DEF Kept, Offered
    <3> QED BY <3>2, <3>3
  <2>4. Offered(x) => Pending /\ ~Settled
    BY DEF Offered, Fresh, Pending, Wanting, Settled
  <2> QED BY <2>1, <2>2, <2>3, <2>4, Invariant, FreshIsOffered, PendingSettles, PTL DEF Spec
<1>3. x \in tracks /\ channel = "open" /\ ~unfinished => Wanting(x) \/ Done(x)
  BY DEF Wanting, Done
<1>4. Done(x) => x \in current \cap answered \/ Gone(x)
  BY DEF Done
<1>5. Progress => StepsAreTaken /\ StaleOnesPass(x)
  BY DEF Progress
<1> QED
  BY <1>1, <1>2, <1>3, <1>4, <1>5, WantedIsFresh, FreshIsOffered, OfferedIsKept, PTL

=============================================================================
