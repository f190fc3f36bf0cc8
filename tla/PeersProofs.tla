----------------------------- MODULE PeersProofs -----------------------------
(***************************************************************************)
(* Proofs about peers and what they give each other, for all values of the *)
(* constants: World, who is held for authenticated; Jobs, how a file is    *)
(* fetched from peers chunk by chunk.                                      *)
(***************************************************************************)
EXTENDS World, Jobs, TLAPS

\* The counters, and the entries of the tracker's list.
ListInv ==
    /\ runs \in [Peers -> Nat]
    /\ admitted \in Nat
    /\ challenged \in [Peers -> SUBSET Nat]
    /\ answered \in [Peers -> SUBSET Nat]
    /\ DOMAIN listed \subseteq Peers
    /\ \A p \in DOMAIN listed : {"auth", "authed"} \subseteq DOMAIN listed[p]

\* Challenges and answers that may still arrive: an answer on its way was given.
MessageInv ==
    \A m \in mail : /\ m.type \in {"announce", "auth", "answer"} => m.peer \in Peers
                    /\ m.type = "auth" => m.str \in challenged[m.peer]
                    /\ m.type = "answer" => m.str \in answered[m.peer]

\* Only challenges that were sent are in the list or answered, and each is named
\* after an entry that was made.
SentInv ==
    \A p \in Peers : /\ challenged[p] \subseteq 1 .. admitted
                     /\ answered[p] \subseteq challenged[p]
                     /\ p \in DOMAIN listed => listed[p].auth \in challenged[p]

WorldInv == ListInv /\ MessageInv /\ SentInv /\ AuthedByChallenge

\* A step that lists a peer gives the entry a challenge that has no answer yet.
FreshEntries == \A p \in DOMAIN listed' \ DOMAIN listed : listed'[p].auth \notin answered[p]

\* The entry f has the challenge of e, and is AUTHED if e is.
Unaltered(e, f) ==
    {"auth", "authed"} \subseteq DOMAIN f /\ f.auth = e.auth /\ f.authed = e.authed

\* Pings and pongs leave the challenge of an entry, and whether it was answered, alone.
LEMMA PingFacts ==
    ASSUME NEW e, NEW a, NEW late, {"auth", "authed"} \subseteq DOMAIN e
    PROVE  Unaltered(e, Pinged(e, a, late)) /\ Unaltered(e, Answered(e))
<1>1. Unaltered(e, [e EXCEPT !.unreachable = 0])
  BY Zenon DEF Unaltered
<1>2. ASSUME NEW n, NEW b
      PROVE  Unaltered(e, [e EXCEPT !.unreachable = n, !.late = b])
  BY Zenon DEF Unaltered
<1>3. Unaltered(e, Answered(e))
  BY <1>2, Zenon DEF Answered
<1>4. CASE Running(a) /\ ~late
  BY <1>1, <1>3, <1>4, Zenon DEF Pinged
<1>5. CASE ~(Running(a) /\ ~late)
  BY <1>2, <1>3, <1>5, Zenon DEF Pinged
<1> QED BY <1>4, <1>5, Zenon

\* A list whose entries were changed, or dropped, but not their challenges.
LEMMA SameChallenges ==
    ASSUME WorldInv,
           DOMAIN listed' \subseteq DOMAIN listed,
           \A p \in DOMAIN listed' : Unaltered(listed[p], listed'[p]),
           runs' \in [Peers -> Nat], admitted' = admitted, challenged' = challenged, answered' = answered,
           \A m \in mail' \ mail : m.type \in {"announce", "tracker", "peer"}
                                 /\ (m.type = "announce" => m.peer \in Peers)
    PROVE  WorldInv'
<1>1. ListInv'
  BY Zenon DEF WorldInv, ListInv, Unaltered
<1>2. MessageInv'
  BY DEF WorldInv, MessageInv
<1>3. SentInv'
  BY Zenon DEF WorldInv, SentInv, Unaltered
<1>4. AuthedByChallenge'
  BY Zenon DEF WorldInv, AuthedByChallenge, Unaltered
<1> QED BY <1>1, <1>2, <1>3, <1>4, Zenon DEF WorldInv

\* What does not touch the tracker's list, and sends at most an announcement.
LEMMA SameList ==
    ASSUME WorldInv, listed' = listed, admitted' = admitted, challenged' = challenged, answered' = answered,
           runs' \in [Peers -> Nat],
           \A m \in mail' \ mail : \E p \in Peers : m = Announcement(p)
    PROVE  WorldInv'
<1>1. \A p \in DOMAIN listed' : Unaltered(listed[p], listed'[p])
  BY Zenon DEF WorldInv, ListInv, Unaltered
<1>2. \A m \in mail' \ mail : m.type \in {"announce", "tracker", "peer"}
                            /\ (m.type = "announce" => m.peer \in Peers)
  BY DEF Announcement
<1> QED BY <1>1, <1>2, SameChallenges, Zenon

\* The steps in which the tracker checks who answers, or is started again.
LEMMA TrackerStep ==
    ASSUME WorldInv,
           \/ TrackerRestart
           \/ \E late \in BOOLEAN : TrackerCheck(late)
           \/ \E p \in Peers : TrackerPong(p)
    PROVE  WorldInv'
<1>0. \A p \in DOMAIN listed : {"auth", "authed"} \subseteq DOMAIN listed[p]
  BY Zenon DEF WorldInv, ListInv
<1>1. /\ runs' = runs /\ admitted' = admitted /\ challenged' = challenged /\ answered' = answered /\ mail' = mail
      /\ runs' \in [Peers -> Nat]
  BY Zenon DEF WorldInv, ListInv, TrackerRestart, TrackerCheck, TrackerPong
<1>2. /\ DOMAIN listed' \subseteq DOMAIN listed
      /\ \A p \in DOMAIN listed' : Unaltered(listed[p], listed'[p])
  <2>1. CASE TrackerRestart
    BY <2>1, Zenon DEF TrackerRestart, Nobody
  <2>2. ASSUME NEW late \in BOOLEAN, TrackerCheck(late)
        PROVE  <1>2!:
    BY <1>0, <2>2, PingFacts, Zenon DEF TrackerCheck
  <2>3. ASSUME NEW p \in Peers, TrackerPong(p)
        PROVE  <1>2!:
    <3>1. p \in DOMAIN listed /\ listed' = [listed EXCEPT ![p] = Answered(listed[p])]
      BY <2>3, Zenon DEF TrackerPong
    <3>2. DOMAIN listed' = DOMAIN listed
      BY <3>1, Zenon
    <3>3. ASSUME NEW q \in DOMAIN listed
          PROVE  listed'[q] = IF q = p THEN Answered(listed[p]) ELSE listed[q]
      BY <3>1, <3>3, Zenon
    <3>4. Unaltered(listed[p], Answered(listed[p]))
      BY <1>0, <3>1, PingFacts, Zenon
    <3>5. \A q \in DOMAIN listed : Unaltered(listed[q], listed[q])
      BY <1>0, Zenon DEF Unaltered
    <3> QED BY <3>2, <3>3, <3>4, <3>5, Zenon
  <2> QED BY <2>1, <2>2, <2>3
<1> QED BY <1>1, <1>2, SameChallenges, Zenon

\* The string of a new entry is new to the peer, though another may have it.
LEMMA AuthStringFacts ==
    ASSUME WorldInv, NEW p \in Peers, NEW s \in AuthStrings(p)
    PROVE  s \in 1 .. admitted + 1 /\ s \notin challenged[p]
<1>0. admitted \in Nat /\ challenged[p] \subseteq 1 .. admitted
  BY Zenon DEF WorldInv, ListInv, SentInv
<1>1. CASE s = admitted + 1
  BY <1>0, <1>1
<1>2. ASSUME NEW q \in DOMAIN listed, s = listed[q].auth, listed[q].auth \notin challenged[p]
      PROVE  s \in 1 .. admitted + 1 /\ s \notin challenged[p]
  <2>1. q \in Peers /\ listed[q].auth \in challenged[q] /\ challenged[q] \subseteq 1 .. admitted
    BY Zenon DEF WorldInv, ListInv, SentInv
  <2>2. s \in 1 .. admitted
    BY <1>2, <2>1, Zenon
  <2>. QED
    BY <1>0, <1>2, <2>2
<1>. QED
  BY <1>1, <1>2, Zenon DEF AuthStrings

\* A new entry has a challenge that its peer was not sent before.
LEMMA AnnounceStep ==
    ASSUME WorldInv, NEW m \in mail, ReadAnnounce(m)
    PROVE  WorldInv'
<1>1. CASE ~Admits(m.peer)
  BY <1>1, SameList, Zenon DEF WorldInv, ListInv, ReadAnnounce, Take
<1>2. CASE Admits(m.peer)
  <2>0. PICK p \in Peers : p = m.peer /\ p \notin DOMAIN listed
    BY <1>2 DEF WorldInv, MessageInv, ReadAnnounce, Admits
  <2>1. PICK n \in AuthStrings(p) :
        /\ challenged' = [challenged EXCEPT ![p] = challenged[p] \cup {n}]
        /\ listed' = With(listed, p, NewListing(p, n))
        /\ Take(m, {Challenge(p, n)})
    BY <1>2, <2>0, Zenon DEF ReadAnnounce
  <2>2. /\ admitted' = admitted + 1 /\ runs' = runs /\ answered' = answered
        /\ \A k \in mail' \ mail : k = Challenge(p, n)
    BY <1>2, <2>1, Zenon DEF ReadAnnounce, Take
  <2>3. /\ DOMAIN listed' = DOMAIN listed \cup {p}
        /\ listed'[p] = NewListing(p, n)
        /\ \A q \in DOMAIN listed : listed'[q] = listed[q]
    BY <2>0, <2>1, Zenon DEF With
  <2>4. /\ {"auth", "authed"} \subseteq DOMAIN NewListing(p, n)
        /\ NewListing(p, n).auth = n /\ ~NewListing(p, n).authed
    BY Zenon DEF NewListing
  <2>a. n \in 1 .. admitted + 1 /\ 1 .. admitted \subseteq 1 .. admitted + 1
    BY AuthStringFacts, <2>0, <2>1 DEF WorldInv, ListInv
  <2>b. /\ challenged' \in [Peers -> SUBSET Nat]
        /\ \A q \in Peers : /\ challenged[q] \subseteq challenged'[q]
                            /\ challenged'[q] \subseteq challenged[q] \cup {n}
        /\ n \in challenged'[p]
    BY <2>1, <2>a DEF WorldInv, ListInv
  <2>c. admitted' \in Nat
    BY <2>2 DEF WorldInv, ListInv
  <2>5. ListInv'
    BY <2>2, <2>3, <2>4, <2>b, <2>c, Zenon DEF WorldInv, ListInv
  <2>7. SentInv'
    <3>1. ASSUME NEW q \in Peers
          PROVE  /\ challenged'[q] \subseteq 1 .. admitted'
                 /\ answered'[q] \subseteq challenged'[q]
                 /\ q \in DOMAIN listed' => listed'[q].auth \in challenged'[q]
      <4>1. challenged'[q] \subseteq 1 .. admitted'
        BY <2>2, <2>a, <2>b, Zenon DEF WorldInv, SentInv
      <4>2. answered'[q] \subseteq challenged'[q]
        BY <2>2, <2>b, Zenon DEF WorldInv, SentInv
      <4>3. CASE q = p
        BY <2>3, <2>4, <2>b, <4>1, <4>2, <4>3, Zenon
      <4>4. CASE q # p
        BY <2>3, <2>b, <4>1, <4>2, <4>4, Zenon DEF WorldInv, SentInv
      <4> QED BY <4>3, <4>4
    <3> QED BY <3>1, Zenon DEF SentInv
  <2>8. AuthedByChallenge'
    <3>1. ASSUME NEW q \in DOMAIN listed', listed'[q].authed
          PROVE  \/ listed'[q].auth \in answered'[q]
                 \/ \E o \in Peers \ {q} : listed'[q].auth \in answered'[o] \cap challenged'[q] \cap challenged'[o]
      <4>1. q \in DOMAIN listed /\ listed'[q] = listed[q]
        BY <2>3, <2>4, <3>1, Zenon
      <4>2. q \in Peers
        BY <4>1, Zenon DEF WorldInv, ListInv
      <4>3. \/ listed[q].auth \in answered[q]
            \/ \E o \in Peers \ {q} : listed[q].auth \in answered[o] \cap challenged[q] \cap challenged[o]
        BY <3>1, <4>1, Zenon DEF WorldInv, AuthedByChallenge
      <4>4. ASSUME NEW o \in Peers \ {q}, listed[q].auth \in answered[o] \cap challenged[q] \cap challenged[o]
            PROVE  listed'[q].auth \in answered'[o] \cap challenged'[q] \cap challenged'[o]
        BY <2>2, <2>b, <4>1, <4>2, <4>4, Zenon
      <4>. QED
        BY <2>2, <4>1, <4>3, <4>4, Zenon
    <3>. QED BY <3>1, Zenon DEF AuthedByChallenge
  <2>9. MessageInv'
    <3>1. ASSUME NEW k \in mail'
          PROVE  /\ k.type \in {"announce", "auth", "answer"} => k.peer \in Peers
                 /\ k.type = "auth" => k.str \in challenged'[k.peer]
                 /\ k.type = "answer" => k.str \in answered'[k.peer]
      <4>1. CASE k \in mail
        BY <2>2, <2>b, <4>1, Zenon DEF WorldInv, MessageInv
      <4>2. CASE k = Challenge(p, n)
        BY <2>b, <4>2 DEF Challenge
      <4> QED BY <2>2, <4>1, <4>2
    <3> QED BY <3>1, Zenon DEF MessageInv
  <2> QED BY <2>5, <2>7, <2>8, <2>9, Zenon DEF WorldInv
<1> QED BY <1>1, <1>2

\* A peer answers the challenge that has arrived.
LEMMA AuthStep ==
    ASSUME WorldInv, NEW m \in mail, ReadAuth(m)
    PROVE  WorldInv'
<1>1. m.peer \in Peers /\ m.str \in challenged[m.peer]
  BY Zenon DEF WorldInv, MessageInv, ReadAuth
<1>2. PICK p \in Peers, n \in Nat : p = m.peer /\ n = m.str /\ n \in challenged[p]
  BY <1>1, Zenon DEF WorldInv, ListInv
<1>3. /\ answered' = [answered EXCEPT ![p] = answered[p] \cup {n}]
      /\ listed' = listed /\ admitted' = admitted /\ challenged' = challenged /\ runs' = runs
      /\ \A k \in mail' \ mail : k = Answer(p, n)
  BY <1>2, Zenon DEF ReadAuth, Take
<1>4. /\ answered' \in [Peers -> SUBSET Nat]
      /\ n \in answered'[p]
      /\ \A q \in Peers : /\ answered[q] \subseteq answered'[q]
                          /\ answered'[q] \subseteq answered[q] \cup (IF q = p THEN {n} ELSE {})
  BY <1>3 DEF WorldInv, ListInv
<1>5. ListInv'
  BY <1>3, <1>4, Zenon DEF WorldInv, ListInv
<1>6. SentInv'
  <2>1. ASSUME NEW q \in Peers
        PROVE  answered'[q] \subseteq challenged[q]
    <3>1. CASE q = p
      BY <1>2, <1>4, <3>1, Zenon DEF WorldInv, SentInv
    <3>2. CASE q # p
      BY <1>2, <1>4, <3>2, Zenon DEF WorldInv, SentInv
    <3> QED BY <3>1, <3>2
  <2> QED BY <1>3, <2>1, Zenon DEF WorldInv, SentInv
<1>7. AuthedByChallenge'
  BY <1>3, <1>4, Zenon DEF WorldInv, ListInv, AuthedByChallenge
<1>8. MessageInv'
  <2>1. ASSUME NEW k \in mail'
        PROVE  /\ k.type \in {"announce", "auth", "answer"} => k.peer \in Peers
               /\ k.type = "auth" => k.str \in challenged'[k.peer]
               /\ k.type = "answer" => k.str \in answered'[k.peer]
    <3>1. CASE k \in mail
      BY <1>3, <1>4, <3>1, Zenon DEF WorldInv, MessageInv
    <3>2. CASE k = Answer(p, n)
      BY <1>4, <3>2 DEF Answer
    <3> QED BY <1>3, <3>1, <3>2
  <2> QED BY <2>1, Zenon DEF MessageInv
<1> QED BY <1>5, <1>6, <1>7, <1>8, Zenon DEF WorldInv

\* The tracker takes an answer for the entry whose challenge it names.
LEMMA AnswerStep ==
    ASSUME WorldInv, NEW m \in mail, ReadAnswer(m)
    PROVE  WorldInv'
<1>1. CASE Challenged(m) = {} /\ Take(m, {}) /\ UNCHANGED listed
  BY <1>1, SameList, Zenon DEF WorldInv, ListInv, ReadAnswer, Take
<1>2. ASSUME NEW p \in Challenged(m), listed' = [listed EXCEPT ![p].authed = TRUE],
             Take(m, {FromTracker(p)} \cup Broadcast(p))
      PROVE  WorldInv'
  <2>1. p \in DOMAIN listed /\ p \in Peers /\ listed[p].auth = m.str
    BY Zenon DEF Challenged, WorldInv, ListInv
  <2>2. m.peer \in Peers /\ listed[p].auth \in answered[m.peer]
    BY <2>1, Zenon DEF WorldInv, MessageInv, ReadAnswer
  <2>a. listed[p].auth \in challenged[p] /\ listed[p].auth \in challenged[m.peer]
    BY <2>1, <2>2, Zenon DEF WorldInv, SentInv
  <2>3. /\ admitted' = admitted /\ challenged' = challenged /\ runs' = runs /\ answered' = answered
        /\ mail' \ mail \subseteq {FromTracker(p)} \cup Broadcast(p)
    BY <1>2, Zenon DEF ReadAnswer, Take
  <2>4. /\ DOMAIN listed' = DOMAIN listed
        /\ \A q \in DOMAIN listed : /\ DOMAIN listed'[q] = DOMAIN listed[q]
                                    /\ listed'[q].auth = listed[q].auth
                                    /\ q # p => listed'[q] = listed[q]
    <3>1. \A q \in DOMAIN listed : {"auth", "authed"} \subseteq DOMAIN listed[q]
      BY Zenon DEF WorldInv, ListInv
    <3>2. DOMAIN listed' = DOMAIN listed
      BY <1>2, Zenon
    <3>3. \A q \in DOMAIN listed :
             listed'[q] = IF q = p THEN [listed[p] EXCEPT !.authed = TRUE] ELSE listed[q]
      BY <1>2, Zenon
    <3>4. /\ DOMAIN [listed[p] EXCEPT !.authed = TRUE] = DOMAIN listed[p]
          /\ [listed[p] EXCEPT !.authed = TRUE].auth = listed[p].auth
      BY <2>1, <3>1, Zenon
    <3> QED BY <3>2, <3>3, <3>4, Zenon
  <2>5. ListInv' /\ SentInv'
    BY <2>3, <2>4, Zenon DEF WorldInv, ListInv, SentInv
  <2>6. AuthedByChallenge'
    <3>1. ASSUME NEW q \in DOMAIN listed, q # p, listed'[q].authed
          PROVE  \/ listed'[q].auth \in answered'[q]
                 \/ \E o \in Peers \ {q} : listed'[q].auth \in answered'[o] \cap challenged'[q] \cap challenged'[o]
      BY <2>3, <2>4, <3>1, Zenon DEF WorldInv, AuthedByChallenge
    <3>2. \/ listed'[p].auth \in answered'[p]
          \/ \E o \in Peers \ {p} : listed'[p].auth \in answered'[o] \cap challenged'[p] \cap challenged'[o]
      <4>1. listed'[p].auth = listed[p].auth
        BY <2>1, <2>4, Zenon
      <4>2. CASE m.peer = p
        BY <2>2, <2>3, <4>1, <4>2, Zenon
      <4>3. CASE m.peer # p
        BY <2>2, <2>3, <2>a, <4>1, <4>3, Zenon
      <4>. QED
        BY <4>2, <4>3, Zenon
    <3>. QED
      BY <2>4, <3>1, <3>2, Zenon DEF AuthedByChallenge
  <2>7. \A k \in mail' \ mail : k.type \in {"tracker", "peer"}
    BY <2>3 DEF FromTracker, Broadcast, Introduction
  <2>8. MessageInv'
    BY <2>3, <2>7 DEF WorldInv, MessageInv
  <2> QED BY <2>5, <2>6, <2>8, Zenon DEF WorldInv
<1> QED BY <1>1, <1>2, Zenon DEF ReadAnswer

\* Every step keeps the invariant.
LEMMA WorldStep ==
    ASSUME WorldInv, [WorldNext]_worldVars
    PROVE  WorldInv'
<1>0. runs \in [Peers -> Nat]
  BY Zenon DEF WorldInv, ListInv
<1>1. ASSUME NEW p \in Peers, Start(p)
      PROVE  WorldInv'
  <2>1. runs' \in [Peers -> Nat]
    BY <1>0, <1>1 DEF Start
  <2> QED BY <1>1, <2>1, SameList, Zenon DEF Start
<1>2. ASSUME NEW p \in Peers, Stop(p)
      PROVE  WorldInv'
  BY <1>0, <1>2, SameList, Zenon DEF Stop
<1>3. ASSUME NEW p \in Peers, NEW late \in BOOLEAN, Check(p, late)
      PROVE  WorldInv'
  BY <1>0, <1>3, SameList, Zenon DEF Check
<1>4. CASE TrackerRestart \/ (\E late \in BOOLEAN : TrackerCheck(late))
                          \/ \E p \in Peers : TrackerPong(p)
  BY <1>4, TrackerStep, Zenon
<1>5. ASSUME NEW m \in mail, ReadIntroduction(m) \/ Lose(m)
      PROVE  WorldInv'
  BY <1>0, <1>5, SameList, Zenon DEF ReadIntroduction, Lose, Take
<1>6. CASE Deliver
  BY <1>5, <1>6, AnnounceStep, AuthStep, AnswerStep, Zenon DEF Deliver
<1>7. ASSUME NEW p \in Peers, NEW a, Pong(p, a) \/ ReadQuery(p, a) \/ ReadReply(p, a)
      PROVE  WorldInv'
  BY <1>0, <1>7, SameList, Zenon DEF Pong, ReadQuery, ReadReply
<1>8. CASE UNCHANGED worldVars
  BY <1>0, <1>8, SameList, Zenon DEF worldVars
<1> QED BY <1>1, <1>2, <1>3, <1>4, <1>5, <1>6, <1>7, <1>8, Zenon DEF WorldNext

\* The invariant holds of tracker, peers and network.
THEOREM WorldInvariant == WorldSpec => []WorldInv
<1>1. WorldInit => WorldInv
  BY DEF WorldInit, Nobody, WorldInv, ListInv, MessageInv, SentInv, AuthedByChallenge
<1>2. WorldInv /\ [WorldNext]_worldVars => WorldInv'
  BY WorldStep
<1> QED BY <1>1, <1>2, PTL DEF WorldSpec

\* dfs_auth_reply makes an entry AUTHED only for the answer to the challenge that
\* announce_prp sent for this very entry, whatever arrives late or twice and whoever
\* was started again in between; the answer is the peer's own, or that of a peer
\* that was challenged with the same string in the same millisecond.
THEOREM AuthenticatedByAnswer == WorldSpec => []AuthedByChallenge
<1>1. WorldInv => AuthedByChallenge
  BY Zenon DEF WorldInv
<1> QED BY <1>1, WorldInvariant, PTL

\* announce_prp makes a string for every entry that its peer has not answered before:
\* with AuthenticatedByAnswer, an entry is AUTHED by an answer that was given after it
\* was made, or by that of a peer with the same string, not by one from an earlier life.
THEOREM EntriesAreFresh == WorldSpec => [][FreshEntries]_worldVars
<1>1. ASSUME WorldInv, WorldNext
      PROVE  FreshEntries
  <2>1. ASSUME NEW m \in mail, ReadAnnounce(m)
        PROVE  FreshEntries
    <3>1. CASE ~Admits(m.peer)
      BY <2>1, <3>1, Zenon DEF ReadAnnounce, FreshEntries
    <3>2. CASE Admits(m.peer)
      <4>1. PICK p \in Peers : p = m.peer /\ p \notin DOMAIN listed
        BY <1>1, <2>1, <3>2 DEF WorldInv, MessageInv, ReadAnnounce, Admits
      <4>2. PICK n \in AuthStrings(p) : listed' = With(listed, p, NewListing(p, n))
        BY <2>1, <3>2, <4>1, Zenon DEF ReadAnnounce
      <4>3. n \notin challenged[p]
        BY <1>1, AuthStringFacts, Zenon
      <4>4. DOMAIN listed' = DOMAIN listed \cup {p} /\ listed'[p].auth = n
        BY <4>2, Zenon DEF With, NewListing
      <4>5. n \notin answered[p]
        BY <1>1, <4>3, Zenon DEF WorldInv, SentInv
      <4> QED BY <4>4, <4>5, Zenon DEF FreshEntries
    <3> QED BY <3>1, <3>2
  <2>2. CASE DOMAIN listed' \subseteq DOMAIN listed
    BY <2>2, Zenon DEF FreshEntries
  <2>3. ASSUME NEW m \in mail, ReadAnswer(m)
        PROVE  FreshEntries
    BY <2>2, <2>3, Zenon DEF ReadAnswer
  <2>4. ASSUME NEW late, TrackerCheck(late)
        PROVE  FreshEntries
    BY <2>2, <2>4, Zenon DEF TrackerCheck
  <2>5. ASSUME NEW p \in Peers, TrackerPong(p)
        PROVE  FreshEntries
    BY <2>2, <2>5, Zenon DEF TrackerPong
  <2>6. CASE TrackerRestart
    BY <2>2, <2>6, Zenon DEF TrackerRestart, Nobody
  <2>7. CASE UNCHANGED listed
    BY <2>2, <2>7, Zenon
  <2> QED BY <1>1, <2>1, <2>3, <2>4, <2>5, <2>6, <2>7, Zenon DEF WorldNext, Deliver, Start, Stop, Check,
             ReadAuth, ReadIntroduction, Lose, Pong, ReadQuery, ReadReply
<1> QED BY <1>1, WorldInvariant, PTL DEF WorldSpec

(***************************************************************************)
(* Jobs.                                                                   *)
(***************************************************************************)

\* The least-element facts of the library, from here on.
INSTANCE WellFoundedInduction

\* The first of a non-empty set of positions.
LEMMA FirstIsMember ==
    ASSUME NEW S \in SUBSET Nat, S # {}
    PROVE  First(S) \in S /\ \A j \in S : First(S) <= j
<1>1. IsWellFoundedOn(OpToRel(<, Nat), Nat)
  BY NatLessThanWellFounded, Zenon
<1>2. PICK i \in S : \A j \in S : ~(<<j, i>> \in OpToRel(<, Nat))
  BY <1>1, WFMin, Zenon
<1>3. ASSUME NEW j \in S, j < i PROVE FALSE
  <2>1. <<j, i>> \in OpToRel(<, Nat)
    BY <1>3 DEF OpToRel
  <2>. QED
    BY <1>2, <2>1, Zenon
<1>4. \A j \in S : i <= j
  BY <1>3
<1>. QED
  BY <1>4, Zenon DEF First

\* net.max.chunk_size is a positive number.
LEMMA ChunkSizeType == ChunkSize \in Nat \ {0}
  BY JobsAssumption, Zenon

\* Multiples of the size of a chunk.
LEMMA ChunkMultiples ==
    /\ \A i \in Nat : i * ChunkSize \in Nat /\ (i + 1) * ChunkSize = i * ChunkSize + ChunkSize
    /\ \A i, j \in Nat : i <= j => i * ChunkSize <= j * ChunkSize
  BY ChunkSizeType

\* file_chunks: the chunks cover the file, and every one begins inside it.
LEMMA ChunkCounted ==
    ASSUME NEW n \in Nat \ {0}
    PROVE  /\ ChunkCount(n) \in Nat \ {0}
           /\ n <= ChunkCount(n) * ChunkSize
           /\ \A i \in 0 .. ChunkCount(n) - 1 : i * ChunkSize < n
<1>. DEFINE q == (n + ChunkSize - 1) \div ChunkSize
            r == (n + ChunkSize - 1) % ChunkSize
<1>1. q \in Nat /\ r \in Nat /\ r < ChunkSize /\ n + ChunkSize - 1 = q * ChunkSize + r
  BY ChunkSizeType
<1>2. ChunkCount(n) = q
  BY DEF ChunkCount
<1>. HIDE DEF q, r
<1>3. q * ChunkSize \in Nat /\ n <= q * ChunkSize /\ q * ChunkSize < n + ChunkSize
  BY <1>1, ChunkMultiples, ChunkSizeType
<1>4. q # 0
  <2>1. 0 * ChunkSize = 0
    BY ChunkSizeType
  <2>. QED
    BY <2>1, <1>3
<1>5. ASSUME NEW i \in 0 .. q - 1
      PROVE  i * ChunkSize < n
  <2>1. i + 1 <= q /\ i \in Nat /\ i + 1 \in Nat
    BY <1>1
  <2>2. (i + 1) * ChunkSize <= q * ChunkSize
    BY <2>1, <1>1, ChunkMultiples, Zenon
  <2>3. i * ChunkSize \in Nat /\ (i + 1) * ChunkSize = i * ChunkSize + ChunkSize
    BY <2>1, ChunkMultiples, Zenon
  <2>. QED
    BY <2>2, <2>3, <1>3, ChunkSizeType
<1>. QED
  BY <1>1, <1>2, <1>3, <1>4, <1>5

\* Where the n-th turn of finalize's loop ends in the file.
EndOf(f, n) == IF n * ChunkSize < Len(Data[f]) THEN n * ChunkSize ELSE Len(Data[f])

\* The chunks of a file lie one behind the other.
LEMMA ChunkByChunk ==
    ASSUME NEW f \in Files
    PROVE  /\ Len(Data[f]) \in Nat \ {0} /\ Data[f] \in Seq(Range(Data[f]))
           /\ Len(FileChunks[f]) \in Nat \ {0} /\ DOMAIN FileChunks[f] = 1 .. Len(FileChunks[f])
           /\ EndOf(f, 0) = 0 /\ EndOf(f, Len(FileChunks[f])) = Len(Data[f])
           /\ \A n \in 1 .. Len(FileChunks[f]) :
                 /\ EndOf(f, n - 1) \in Nat /\ EndOf(f, n) \in Nat
                 /\ EndOf(f, n - 1) <= EndOf(f, n) /\ EndOf(f, n) <= Len(Data[f])
                 /\ FileChunks[f][n] = SubSeq(Data[f], EndOf(f, n - 1) + 1, EndOf(f, n))
<1>. DEFINE L == Len(Data[f])
            k == ChunkCount(L)
<1>1. L \in Nat \ {0} /\ Data[f] \in Seq(Range(Data[f]))
  <2>1. Data[f] \in Seq(Range(Data[f])) /\ Data[f] # <<>>
    BY JobsAssumption
  <2>. HIDE DEF L
  <2>2. Len(Data[f]) \in Nat \ {0}
    BY <2>1
  <2>. QED
    BY <2>1, <2>2 DEF L
<1>2. /\ k \in Nat \ {0} /\ L <= k * ChunkSize
      /\ \A i \in 0 .. k - 1 : i * ChunkSize < L
  BY <1>1, ChunkCounted, Zenon
<1>3. FileChunks[f] = [i \in 1 .. k |-> SubSeq(Data[f], (i - 1) * ChunkSize + 1,
                                       (i - 1) * ChunkSize + ChunkLength(L, i - 1))]
  BY DEF FileChunks, ChunksOf
<1>. HIDE DEF k
<1>4. Len(FileChunks[f]) = k /\ DOMAIN FileChunks[f] = 1 .. k
  BY <1>2, <1>3
<1>5. EndOf(f, 0) = 0
  <2>1. 0 * ChunkSize = 0
    BY JobsAssumption
  <2>. QED
    BY <2>1, <1>1 DEF EndOf
<1>6. EndOf(f, k) = L
  <2>. DEFINE e == k * ChunkSize
  <2>1. e \in Nat /\ L <= e
    BY <1>2, ChunkMultiples, Zenon
  <2>2. EndOf(f, k) = IF e < L THEN e ELSE L
    BY DEF EndOf
  <2>. HIDE DEF e
  <2>. QED
    BY <2>1, <2>2, <1>1
<1>7. ASSUME NEW n \in 1 .. k
      PROVE  /\ EndOf(f, n - 1) \in Nat /\ EndOf(f, n) \in Nat
             /\ EndOf(f, n - 1) <= EndOf(f, n) /\ EndOf(f, n) <= L
             /\ FileChunks[f][n] = SubSeq(Data[f], EndOf(f, n - 1) + 1, EndOf(f, n))
  <2>. DEFINE a == (n - 1) * ChunkSize
              b == n * ChunkSize
  <2>1. n - 1 \in Nat /\ n \in Nat /\ n - 1 \in 0 .. k - 1 /\ (n - 1) + 1 = n
    BY <1>2
  <2>2. a \in Nat /\ b = a + ChunkSize /\ a < L
    <3>1. ((n - 1) + 1) * ChunkSize = (n - 1) * ChunkSize + ChunkSize
      BY <2>1, ChunkMultiples, Zenon
    <3>2. a \in Nat /\ a < L
      BY <2>1, <1>2, ChunkMultiples, Zenon
    <3>3. b = a + ChunkSize
      BY <3>1, <2>1
    <3>. QED
      BY <3>2, <3>3, Zenon
  <2>3. EndOf(f, n - 1) = a
    BY <2>2 DEF EndOf
  <2>4. EndOf(f, n) = IF b < L THEN b ELSE L
    BY DEF EndOf
  <2>5. a + ChunkLength(L, n - 1) = IF b < L THEN b ELSE L
    <3>1. ((n - 1) + 1) * ChunkSize = b
      BY <2>1
    <3>2. L < ChunkSize => a = 0
      <4>. SUFFICES ASSUME L < ChunkSize, n - 1 # 0 PROVE FALSE
        <5>1. 0 * ChunkSize = 0
          BY ChunkSizeType
        <5>. QED
          BY <5>1
      <4>1. 1 <= n - 1 /\ 1 \in Nat
        BY <2>1
      <4>2. 1 * ChunkSize <= a
        BY <4>1, <2>1, ChunkMultiples, Zenon
      <4>3. 1 * ChunkSize = ChunkSize
        BY ChunkSizeType
      <4>. HIDE DEF a
      <4>. QED
        BY <4>2, <4>3, <2>2, <1>1, ChunkSizeType
    <3>3. ChunkLength(L, n - 1) = IF L < ChunkSize THEN L ELSE IF b > L THEN L - a ELSE ChunkSize
      BY <3>1, Zenon DEF ChunkLength
    <3>. HIDE DEF a, b, L
    <3>. QED
      BY <3>2, <3>3, <2>2, <1>1, ChunkSizeType
  <2>6. FileChunks[f][n] = SubSeq(Data[f], a + 1, a + ChunkLength(L, n - 1))
    BY <1>3, Zenon
  <2>. HIDE DEF a, b
  <2>7. FileChunks[f][n] = SubSeq(Data[f], EndOf(f, n - 1) + 1, EndOf(f, n))
    BY <2>3, <2>4, <2>5, <2>6, Zenon
  <2>8. /\ EndOf(f, n - 1) \in Nat /\ EndOf(f, n) \in Nat
        /\ EndOf(f, n - 1) <= EndOf(f, n) /\ EndOf(f, n) <= L
    <3>. HIDE DEF L
    <3>. QED
      BY <2>2, <2>3, <2>4, <1>1, ChunkSizeType
  <2>. QED
    BY <2>7, <2>8
<1>. QED
  BY <1>1, <1>2, <1>4, <1>5, <1>6, <1>7, SMTT(30)

\* The bytes of f up to e, followed by those from e + 1 to g, are those up to g.
LEMMA Adjoined ==
    ASSUME NEW B, NEW d \in Seq(B), NEW e \in Nat, NEW g \in Nat, e <= g, g <= Len(d)
    PROVE  SubSeq(d, 1, e) \o SubSeq(d, e + 1, g) = SubSeq(d, 1, g)
<1>1. SubSeq(d, 1, e) \in Seq(B) /\ SubSeq(d, e + 1, g) \in Seq(B) /\ SubSeq(d, 1, g) \in Seq(B)
  OBVIOUS
<1>2. Len(SubSeq(d, 1, e)) = e /\ Len(SubSeq(d, e + 1, g)) = g - e /\ Len(SubSeq(d, 1, g)) = g
  OBVIOUS
<1>. QED
  BY <1>1, <1>2

\* finalize, turn by turn: after n turns the file has the bytes of the first n
\* chunks, and those are the first bytes of the file that was shared.
LEMMA WrittenPrefix ==
    ASSUME NEW f \in Files, NEW n \in 0 .. Len(FileChunks[f])
    PROVE  Written(f)[n] = SubSeq(Data[f], 1, EndOf(f, n))
<1>. DEFINE K == 0 .. Len(FileChunks[f])
            Loop(g) == [i \in K |-> IF i = 0 THEN <<>> ELSE g[i - 1] \o FileChunks[f][i]]
            prefix == [i \in K |-> SubSeq(Data[f], 1, EndOf(f, i))]
<1>1. /\ Len(Data[f]) \in Nat \ {0} /\ Data[f] \in Seq(Range(Data[f]))
      /\ Len(FileChunks[f]) \in Nat \ {0} /\ EndOf(f, 0) = 0
      /\ \A i \in 1 .. Len(FileChunks[f]) :
            /\ EndOf(f, i - 1) \in Nat /\ EndOf(f, i) \in Nat
            /\ EndOf(f, i - 1) <= EndOf(f, i) /\ EndOf(f, i) <= Len(Data[f])
            /\ FileChunks[f][i] = SubSeq(Data[f], EndOf(f, i - 1) + 1, EndOf(f, i))
  BY ChunkByChunk, Zenon
<1>2. prefix[0] = <<>>
  <2>1. 0 \in K
    BY <1>1
  <2>2. SubSeq(Data[f], 1, 0) = <<>>
    BY <1>1
  <2>. QED
    BY <2>1, <2>2, <1>1
<1>3. ASSUME NEW i \in K, i # 0
      PROVE  i - 1 \in K /\ prefix[i] = prefix[i - 1] \o FileChunks[f][i]
  <2>1. i \in 1 .. Len(FileChunks[f]) /\ i - 1 \in K
    BY <1>3, <1>1
  <2>2. /\ EndOf(f, i - 1) \in Nat /\ EndOf(f, i) \in Nat
        /\ EndOf(f, i - 1) <= EndOf(f, i) /\ EndOf(f, i) <= Len(Data[f])
        /\ FileChunks[f][i] = SubSeq(Data[f], EndOf(f, i - 1) + 1, EndOf(f, i))
    BY <1>1, <2>1, Zenon
  <2>3. SubSeq(Data[f], 1, EndOf(f, i - 1)) \o SubSeq(Data[f], EndOf(f, i - 1) + 1, EndOf(f, i))
           = SubSeq(Data[f], 1, EndOf(f, i))
    BY <2>2, <1>1, Adjoined, Zenon
  <2>. QED
    BY <2>1, <2>2, <2>3, Zenon
<1>. HIDE DEF prefix
<1>4. prefix = Loop(prefix)
  <2>1. prefix = [i \in K |-> prefix[i]]
    BY Zenon DEF prefix
  <2>2. ASSUME NEW i \in K
        PROVE  prefix[i] = IF i = 0 THEN <<>> ELSE prefix[i - 1] \o FileChunks[f][i]
    BY <1>2, <1>3, Zenon
  <2>. QED
    BY <2>1, <2>2, Zenon
<1>5. Written(f) = CHOOSE g : g = Loop(g)
  BY Zenon DEF Written
<1>6. Written(f) = Loop(Written(f))
  BY <1>4, <1>5, Zenon
<1>. DEFINE Bad == {i \in K : Written(f)[i] # prefix[i]}
<1>7. Bad = {}
  <2>. SUFFICES ASSUME Bad # {} PROVE FALSE
    OBVIOUS
  <2>1. Bad \in SUBSET Nat
    BY <1>1
  <2>2. PICK i \in Bad : \A j \in Bad : i <= j
    BY <2>1, FirstIsMember, Zenon
  <2>3. i \in K /\ Written(f)[i] # prefix[i]
    BY <2>2, Zenon
  <2>4. i # 0
    BY <2>3, <1>2, <1>6, Zenon
  <2>5. i - 1 \in K
    BY <1>3, <2>3, <2>4, Zenon
  <2>6. i - 1 \notin Bad
    <3>1. i - 1 \in Bad => i <= i - 1
      BY <2>2, Zenon
    <3>. QED
      BY <3>1, <2>3, <1>1
  <2>7. Written(f)[i - 1] = prefix[i - 1]
    BY <2>5, <2>6, Zenon
  <2>. HIDE DEF Bad
  <2>8. Written(f)[i] = Written(f)[i - 1] \o FileChunks[f][i]
    BY <1>6, <2>3, <2>4, Zenon
  <2>. QED
    BY <1>3, <2>3, <2>4, <2>7, <2>8, Zenon
<1>8. Written(f)[n] = prefix[n]
  BY <1>7, Zenon
<1>. QED
  BY <1>8, Zenon DEF prefix

\* What finalize has written when no chunk was missing is the file.
LEMMA WrittenWhole ==
    ASSUME NEW f \in Files
    PROVE  Len(FileChunks[f]) # 0 /\ Written(f)[Len(FileChunks[f])] = Data[f]
<1>1. /\ Len(Data[f]) \in Nat \ {0} /\ Data[f] \in Seq(Range(Data[f]))
      /\ Len(FileChunks[f]) \in Nat \ {0} /\ EndOf(f, Len(FileChunks[f])) = Len(Data[f])
  BY ChunkByChunk, Zenon
<1>2. Len(FileChunks[f]) \in 0 .. Len(FileChunks[f])
  BY <1>1
<1>3. Written(f)[Len(FileChunks[f])] = SubSeq(Data[f], 1, EndOf(f, Len(FileChunks[f])))
  BY <1>2, WrittenPrefix, Zenon
<1>4. SubSeq(Data[f], 1, Len(Data[f])) = Data[f]
  BY <1>1
<1>. QED
  BY <1>1, <1>3, <1>4

-----------------------------------------------------------------------------
(* Counters *)

ChunkType == [chunk : AllChunks, state : States, net : Owners \cup {NoPeer}]

JobType == [file : Files, chunks : Seq(ChunkType), counter : [States -> Int]]

Agrees(j) == \A s \in States : j.counter[s] = InState(j.chunks, s)

\* Chunks whose state is not touched are counted as before.
LEMMA CountSame ==
    ASSUME NEW c, NEW d, DOMAIN c = DOMAIN d, NEW s,
           \A i \in DOMAIN c : c[i].state = d[i].state
    PROVE  InState(c, s) = InState(d, s)
<1>1. {i \in DOMAIN c : c[i].state = s} = {i \in DOMAIN d : d[i].state = s}
  OBVIOUS
<1>. QED
  BY <1>1, Zenon DEF InState

\* The cardinality facts of the library, from here on.
INSTANCE FiniteSetTheorems

\* chunk_state: one chunk more in the new state, one less in the old one, and
\* nothing changes when they are the same.
LEMMA CountMoved ==
    ASSUME NEW c \in Seq(ChunkType), NEW i \in DOMAIN c, NEW d \in Seq(ChunkType),
           DOMAIN d = DOMAIN c, \A l \in DOMAIN c \ {i} : d[l] = c[l], NEW s \in States
    PROVE  /\ InState(c, s) \in Int
           /\ InState(d, s) = InState(c, s) - (IF c[i].state = s THEN 1 ELSE 0)
                                            + (IF d[i].state = s THEN 1 ELSE 0)
<1>. DEFINE Others == {l \in DOMAIN c \ {i} : c[l].state = s}
<1>1. IsFiniteSet(DOMAIN c) /\ IsFiniteSet(Others)
  <2>1. DOMAIN c = 1 .. Len(c) /\ Len(c) \in Nat
    OBVIOUS
  <2>2. 1 \in Int /\ Len(c) \in Int
    BY <2>1
  <2>3. IsFiniteSet(1 .. Len(c))
    BY <2>2, FS_Interval, Zenon
  <2>4. IsFiniteSet(DOMAIN c)
    BY <2>1, <2>3, Zenon
  <2>. QED
    BY <2>4, FS_Subset, Zenon
<1>2. Cardinality(Others) \in Nat
  BY <1>1, FS_CardinalityType, Zenon
<1>3. i \notin Others
  OBVIOUS
<1>4. Cardinality(Others \cup {i}) = Cardinality(Others) + 1
  BY <1>1, <1>3, FS_AddElement, Zenon
<1>5. {l \in DOMAIN c : c[l].state = s} = IF c[i].state = s THEN Others \cup {i} ELSE Others
  OBVIOUS
<1>6. {l \in DOMAIN d : d[l].state = s} = IF d[i].state = s THEN Others \cup {i} ELSE Others
  OBVIOUS
<1>. HIDE DEF Others
<1>7. InState(c, s) = Cardinality(Others) + (IF c[i].state = s THEN 1 ELSE 0)
  <2>1. InState(c, s) = IF c[i].state = s THEN Cardinality(Others \cup {i}) ELSE Cardinality(Others)
    BY <1>5, Zenon DEF InState
  <2>. QED
    BY <2>1, <1>2, <1>4
<1>8. InState(d, s) = Cardinality(Others) + (IF d[i].state = s THEN 1 ELSE 0)
  <2>1. InState(d, s) = IF d[i].state = s THEN Cardinality(Others \cup {i}) ELSE Cardinality(Others)
    BY <1>6, Zenon DEF InState
  <2>. QED
    BY <2>1, <1>2, <1>4
<1>. QED
  BY <1>2, <1>7, <1>8

\* The number of chunks in a state is a number.
LEMMA CountIsInt ==
    ASSUME NEW c \in Seq(ChunkType), NEW s
    PROVE  InState(c, s) \in Int
<1>1. DOMAIN c = 1 .. Len(c) /\ Len(c) \in Nat
  OBVIOUS
<1>2. IsFiniteSet(DOMAIN c)
  BY <1>1, FS_Interval
<1>3. IsFiniteSet({i \in DOMAIN c : c[i].state = s})
  BY <1>2, FS_Subset, Zenon
<1>. QED
  BY <1>3, FS_CardinalityType DEF InState

\* The chunks of a file are among all chunks.
LEMMA ChunkTyped ==
    ASSUME NEW f \in Files, NEW i \in DOMAIN FileChunks[f]
    PROVE  FileChunks[f][i] \in AllChunks
<1>1. FileChunks[f][i] \in Range(FileChunks[f])
  BY Zenon DEF Range
<1>. QED
  BY <1>1, Zenon DEF AllChunks

\* add: a new job counts all its chunks as not started.
LEMMA NewJobAgrees ==
    ASSUME NEW f \in Files
    PROVE  NewJob(f) \in JobType /\ Agrees(NewJob(f))
<1>. DEFINE j == NewJob(f)
<1>1. Len(FileChunks[f]) \in Nat /\ DOMAIN FileChunks[f] = 1 .. Len(FileChunks[f])
  BY ChunkByChunk, Zenon
<1>2. /\ j.file = f
      /\ j.chunks = [i \in 1 .. Len(FileChunks[f]) |-> [chunk |-> FileChunks[f][i], state |-> "none", net |-> NoPeer]]
      /\ j.counter = [s \in States |-> IF s = "none" THEN Len(FileChunks[f]) ELSE 0]
      /\ j = [file |-> f, chunks |-> j.chunks, counter |-> j.counter]
  BY <1>1 DEF NewJob
<1>. HIDE DEF j
<1>3. \A i \in 1 .. Len(FileChunks[f]) :
         [chunk |-> FileChunks[f][i], state |-> "none", net |-> NoPeer] \in ChunkType
  BY <1>1, ChunkTyped DEF ChunkType, States
<1>4. j.chunks \in Seq(ChunkType) /\ DOMAIN j.chunks = 1 .. Len(FileChunks[f])
  BY <1>1, <1>2, <1>3
<1>5. j.counter \in [States -> Int]
  BY <1>1, <1>2
<1>6. j \in JobType
  BY <1>2, <1>4, <1>5, Zenon DEF JobType
<1>7. ASSUME NEW s \in States
      PROVE  j.counter[s] = InState(j.chunks, s)
  <2>1. CASE s = "none"
    <3>1. {i \in DOMAIN j.chunks : j.chunks[i].state = s} = 1 .. Len(FileChunks[f])
      BY <1>2, <1>4, <2>1
    <3>2. Cardinality(1 .. Len(FileChunks[f])) = Len(FileChunks[f])
      BY <1>1, FS_Interval
    <3>. QED
      BY <3>1, <3>2, <1>2, <2>1, Zenon DEF InState
  <2>2. CASE s # "none"
    <3>1. {i \in DOMAIN j.chunks : j.chunks[i].state = s} = {}
      BY <1>2, <1>4, <2>2
    <3>2. InState(j.chunks, s) = 0
      BY <3>1, FS_EmptySet, Zenon DEF InState
    <3>. QED
      BY <3>2, <1>2, <2>2
  <2>. QED
    BY <2>1, <2>2
<1>. QED
  BY <1>6, <1>7, Zenon DEF Agrees, j

\* The fields of a job and of one of its chunks.
LEMMA JobFields ==
    ASSUME NEW j \in JobType
    PROVE  /\ j.file \in Files /\ j.chunks \in Seq(ChunkType) /\ j.counter \in [States -> Int]
           /\ \A i \in DOMAIN j.chunks :
                 /\ j.chunks[i] \in ChunkType /\ j.chunks[i].chunk \in AllChunks
                 /\ j.chunks[i].state \in States /\ j.chunks[i].net \in Owners \cup {NoPeer}
<1>1. j.file \in Files /\ j.chunks \in Seq(ChunkType) /\ j.counter \in [States -> Int]
  BY DEF JobType
<1>2. \A i \in DOMAIN j.chunks : j.chunks[i] \in ChunkType
  BY <1>1
<1>. QED
  BY <1>1, <1>2 DEF ChunkType

\* A job is made of its three fields.
LEMMA JobOf ==
    ASSUME NEW f \in Files, NEW c \in Seq(ChunkType), NEW n \in [States -> Int]
    PROVE  /\ [file |-> f, chunks |-> c, counter |-> n] \in JobType
           /\ [file |-> f, chunks |-> c, counter |-> n].chunks = c
           /\ [file |-> f, chunks |-> c, counter |-> n].counter = n
  BY DEF JobType

\* The signal handler finds one counter too low, and all else as it was.
LEMMA UncountedFields ==
    ASSUME NEW j \in JobType, NEW i \in DOMAIN j.chunks
    PROVE  /\ Uncounted(j, i) \in JobType
           /\ Uncounted(j, i).file = j.file /\ Uncounted(j, i).chunks = j.chunks
           /\ Uncounted(j, i).counter = [j.counter EXCEPT ![j.chunks[i].state] = @ - 1]
<1>1. /\ j.file \in Files /\ j.chunks \in Seq(ChunkType) /\ j.counter \in [States -> Int]
      /\ j.chunks[i].state \in States
  BY JobFields, Zenon
<1>2. PICK r \in States : r = j.chunks[i].state
  BY <1>1
<1>3. Uncounted(j, i) = [j EXCEPT !.counter = [j.counter EXCEPT ![r] = @ - 1]]
  BY <1>2 DEF Uncounted, JobType
<1>4. [j.counter EXCEPT ![r] = @ - 1] \in [States -> Int]
  BY <1>1
<1>. QED
  BY <1>1, <1>2, <1>3, <1>4 DEF JobType

\* chunk_state with JOBCHUNK_DONE: the job and its counters afterwards.
LEMMA DoneFields ==
    ASSUME NEW j \in JobType, NEW i \in DOMAIN j.chunks
    PROVE  /\ Done(j, i) \in JobType
           /\ Done(j, i).file = j.file
           /\ DOMAIN Done(j, i).chunks = DOMAIN j.chunks
           /\ Done(j, i).chunks[i] = [chunk |-> j.chunks[i].chunk, state |-> "done", net |-> NoPeer]
           /\ \A l \in DOMAIN j.chunks \ {i} : Done(j, i).chunks[l] = j.chunks[l]
           /\ \A s \in States : Done(j, i).counter[s] = j.counter[s]
                 - (IF j.chunks[i].state = s THEN 1 ELSE 0) + (IF s = "done" THEN 1 ELSE 0)
<1>. DEFINE c == [chunk |-> j.chunks[i].chunk, state |-> "done", net |-> NoPeer]
<1>1. /\ j.file \in Files /\ j.chunks \in Seq(ChunkType) /\ j.counter \in [States -> Int]
      /\ j.chunks[i].state \in States /\ j.chunks[i].chunk \in AllChunks
  BY JobFields, Zenon
<1>2. Uncounted(j, i).counter = [j.counter EXCEPT ![j.chunks[i].state] = @ - 1]
  BY UncountedFields, Zenon
<1>3. c \in ChunkType
  BY <1>1 DEF ChunkType, States
<1>4. Done(j, i) = [file |-> j.file, chunks |-> [j.chunks EXCEPT ![i] = c],
                    counter |-> [[j.counter EXCEPT ![j.chunks[i].state] = @ - 1] EXCEPT !["done"] = @ + 1]]
  BY <1>2 DEF Done
<1>. HIDE DEF c
<1>5. [j.chunks EXCEPT ![i] = c] \in Seq(ChunkType)
  BY <1>1, <1>3
<1>6. [[j.counter EXCEPT ![j.chunks[i].state] = @ - 1] EXCEPT !["done"] = @ + 1] \in [States -> Int]
  BY <1>1 DEF States
<1>7. Done(j, i) \in JobType
  BY <1>1, <1>4, <1>5, <1>6, SMTT(30) DEF JobType
<1>8. /\ Done(j, i).file = j.file /\ Done(j, i).chunks = [j.chunks EXCEPT ![i] = c]
      /\ Done(j, i).counter = [[j.counter EXCEPT ![j.chunks[i].state] = @ - 1] EXCEPT !["done"] = @ + 1]
  BY <1>4
<1>9. ASSUME NEW s \in States
      PROVE  Done(j, i).counter[s] = j.counter[s]
                 - (IF j.chunks[i].state = s THEN 1 ELSE 0) + (IF s = "done" THEN 1 ELSE 0)
  BY <1>1, <1>8 DEF States
<1>10. /\ DOMAIN Done(j, i).chunks = DOMAIN j.chunks
       /\ Done(j, i).chunks[i] = c
       /\ \A l \in DOMAIN j.chunks \ {i} : Done(j, i).chunks[l] = j.chunks[l]
  BY <1>1, <1>8
<1>. QED
  BY <1>7, <1>8, <1>9, <1>10, Zenon DEF c

\* update leaves the counters in agreement, also for a chunk that was done before.
LEMMA DoneAgrees ==
    ASSUME NEW j \in JobType, NEW i \in DOMAIN j.chunks, Agrees(j)
    PROVE  Agrees(Done(j, i))
<1>. DEFINE d == Done(j, i)
<1>1. /\ d \in JobType /\ DOMAIN d.chunks = DOMAIN j.chunks
      /\ d.chunks[i] = [chunk |-> j.chunks[i].chunk, state |-> "done", net |-> NoPeer]
      /\ \A l \in DOMAIN j.chunks \ {i} : d.chunks[l] = j.chunks[l]
      /\ \A s \in States : d.counter[s] = j.counter[s]
            - (IF j.chunks[i].state = s THEN 1 ELSE 0) + (IF s = "done" THEN 1 ELSE 0)
  BY DoneFields, Zenon
<1>2. j.chunks \in Seq(ChunkType)
  BY JobFields, Zenon
<1>. HIDE DEF d
<1>3. d.chunks \in Seq(ChunkType) /\ d.chunks[i].state = "done"
  BY <1>1, JobFields
<1>4. ASSUME NEW s \in States
      PROVE  d.counter[s] = InState(d.chunks, s)
  <2>1. /\ InState(j.chunks, s) \in Int
        /\ InState(d.chunks, s) = InState(j.chunks, s) - (IF j.chunks[i].state = s THEN 1 ELSE 0)
                                                       + (IF d.chunks[i].state = s THEN 1 ELSE 0)
    <3>1. DOMAIN d.chunks = DOMAIN j.chunks /\ \A l \in DOMAIN j.chunks \ {i} : d.chunks[l] = j.chunks[l]
      BY <1>1, Zenon
    <3>. QED
      BY <3>1, <1>2, <1>3, CountMoved
  <2>2. j.counter[s] = InState(j.chunks, s)
    BY Zenon DEF Agrees
  <2>. QED
    BY <2>1, <2>2, <1>1, <1>3
<1>. QED
  BY <1>4, Zenon DEF Agrees, d

\* resume: the address of a chunk that is started is that of a known peer, or stays.
LEMMA SourceType ==
    ASSUME remote \in Seq(Owners), NEW f, NEW old \in Owners \cup {NoPeer}
    PROVE  Source(f, old) \in Owners \cup {NoPeer}
<1>. DEFINE able == {k \in DOMAIN remote : f \in Lists[remote[k]] /\ remote[k] \in peers}
<1>1. DOMAIN remote \subseteq Nat /\ \A k \in DOMAIN remote : remote[k] \in Owners
  OBVIOUS
<1>2. able \in SUBSET Nat
  BY <1>1
<1>3. ASSUME able # {} PROVE remote[First(able)] \in Owners
  <2>1. First(able) \in able
    BY <1>2, <1>3, FirstIsMember, Zenon
  <2>2. First(able) \in DOMAIN remote
    BY <2>1, Zenon
  <2>. QED
    BY <1>1, <2>2, Zenon
<1>. QED
  BY <1>3, Zenon DEF Source

\* A chunk after the timer: the same chunk, done only if its file is there.
LEMMA ResumedChunkType ==
    ASSUME remote \in Seq(Owners), NEW f, NEW c \in ChunkType, NEW due
    PROVE  /\ ResumedChunk(f, c, due) \in ChunkType
           /\ ResumedChunk(f, c, due).chunk = c.chunk
           /\ ResumedChunk(f, c, due).state = "done" => c.state = "done" \/ c.chunk \in disk
<1>1. c.chunk \in AllChunks /\ c.net \in Owners \cup {NoPeer}
  BY DEF ChunkType
<1>2. PICK from \in Owners \cup {NoPeer} : from = Source(f, c.net)
  BY <1>1, SourceType, Zenon
<1>3. Started(f, c) \in ChunkType /\ Started(f, c).chunk = c.chunk
      /\ (Started(f, c).state = "done" => c.chunk \in disk)
  BY <1>1, <1>2 DEF Started, ChunkType, States
<1>. QED
  BY <1>3, Zenon DEF ResumedChunk

\* The timer leaves the counters in agreement.
LEMMA ResumedJobAgrees ==
    ASSUME remote \in Seq(Owners), NEW j \in JobType, NEW due
    PROVE  /\ ResumedJob(j, due) \in JobType
           /\ Agrees(j) => Agrees(ResumedJob(j, due))
           /\ ResumedJob(j, due).chunks = [i \in DOMAIN j.chunks |-> ResumedChunk(j.file, j.chunks[i], due)]
<1>. DEFINE new == [i \in DOMAIN j.chunks |-> ResumedChunk(j.file, j.chunks[i], due)]
            r == ResumedJob(j, due)
<1>1. /\ j.file \in Files /\ j.chunks \in Seq(ChunkType) /\ j.counter \in [States -> Int]
      /\ \A i \in DOMAIN j.chunks : j.chunks[i] \in ChunkType
  BY JobFields, Zenon
<1>2. r = [file |-> j.file, chunks |-> new,
           counter |-> [s \in States |-> j.counter[s] + InState(new, s) - InState(j.chunks, s)]]
  BY Zenon DEF ResumedJob
<1>3. \A i \in DOMAIN j.chunks : ResumedChunk(j.file, j.chunks[i], due) \in ChunkType
  BY <1>1, ResumedChunkType, Zenon
<1>4. new \in Seq(ChunkType)
  BY <1>1, <1>3
<1>. HIDE DEF new
<1>5. \A s \in States : InState(new, s) \in Int /\ InState(j.chunks, s) \in Int
  BY <1>1, <1>4, CountIsInt, Zenon
<1>6. PICK n : n = [s \in States |-> j.counter[s] + InState(new, s) - InState(j.chunks, s)]
  BY Zenon
<1>7. /\ n \in [States -> Int]
      /\ \A s \in States : n[s] = j.counter[s] + InState(new, s) - InState(j.chunks, s)
  BY <1>1, <1>5, <1>6
<1>8. r = [file |-> j.file, chunks |-> new, counter |-> n]
  BY <1>2, <1>6, Zenon
<1>. HIDE DEF r
<1>9. r \in JobType /\ r.chunks = new /\ r.counter = n
  BY <1>1, <1>4, <1>7, <1>8, JobOf, Zenon
<1>10. ASSUME Agrees(j), NEW s \in States
       PROVE  n[s] = InState(new, s)
  <2>1. j.counter[s] = InState(j.chunks, s)
    BY <1>10, Zenon DEF Agrees
  <2>. QED
    BY <2>1, <1>5, <1>7
<1>11. Agrees(j) => Agrees(r)
  BY <1>9, <1>10, Zenon DEF Agrees
<1>. QED
  BY <1>9, <1>11, Zenon DEF r, new

-----------------------------------------------------------------------------
(* The inductive invariant *)


\* A job whose counters agree, if they may be relied on, and whose chunks that are
\* done are among D.
Sound(j, D, reliable) ==
    /\ j \in JobType
    /\ reliable => Agrees(j)
    /\ \A i \in DOMAIN j.chunks : j.chunks[i].state = "done" => j.chunks[i].chunk \in D

Reliable == "interrupted" \notin faults

\* Where the chunks of a job can be: a dropped one is missed after a crash only.
Accounted == disk \cup (IF "crashed" \in faults THEN dropped ELSE {})

\* The saved jobs come back after a crash, so their counters have to agree too;
\* their chunks may have been dropped since they were saved.
ListsInv ==
    /\ remote \in Seq(Owners) /\ jobs \in Seq(JobType) /\ saved \in Seq(JobType)
    /\ \A k \in DOMAIN jobs : Sound(jobs[k], Accounted, Reliable)
    /\ \A k \in DOMAIN saved : Sound(saved[k], disk \cup dropped, Reliable)

JobsInv == ListsInv /\ FinalizedWhole

\* A job stays sound when chunks are added to the disk.
LEMMA SoundGrows ==
    ASSUME NEW D, NEW E, D \subseteq E, NEW r, NEW q, q => r, NEW j, Sound(j, D, r)
    PROVE  Sound(j, E, q)
  BY Zenon DEF Sound

\* list.add: the new item comes last.
LEMMA AppendKeeps ==
    ASSUME NEW T, NEW l \in Seq(T), NEW x \in T
    PROVE  /\ Append(l, x) \in Seq(T)
           /\ \A k \in DOMAIN Append(l, x) :
                 Append(l, x)[k] = x \/ (k \in DOMAIN l /\ Append(l, x)[k] = l[k])
<1>1. /\ Append(l, x) \in Seq(T) /\ Len(l) \in Nat
      /\ DOMAIN Append(l, x) = 1 .. Len(l) + 1 /\ DOMAIN l = 1 .. Len(l)
  OBVIOUS
<1>2. ASSUME NEW k \in 1 .. Len(l) + 1
      PROVE  Append(l, x)[k] = x \/ (k \in DOMAIN l /\ Append(l, x)[k] = l[k])
  <2>1. CASE k = Len(l) + 1
    BY <2>1
  <2>2. CASE k # Len(l) + 1
    <3>1. k \in 1 .. Len(l)
      BY <1>1, <2>2
    <3>. QED
      BY <1>1, <3>1
  <2>. QED
    BY <2>1, <2>2
<1>. QED
  BY <1>1, <1>2, Zenon

\* An item of a list.
LEMMA ItemOf ==
    ASSUME NEW T, NEW l \in Seq(T), NEW k \in DOMAIN l
    PROVE  l[k] \in T
  OBVIOUS

\* A part of a list, and two lists in a row, have the items they are made of.
LEMMA PartsOfLists ==
    ASSUME NEW T, NEW l \in Seq(T), NEW k \in 1 .. Len(l)
    PROVE  SubSeq(l, 1, k - 1) \o SubSeq(l, k + 1, Len(l)) \in Seq(T)
<1>1. Len(l) \in Nat
  OBVIOUS
<1>2. SubSeq(l, 1, k - 1) \in Seq(T) /\ SubSeq(l, k + 1, Len(l)) \in Seq(T)
  BY <1>1
<1>. QED
  BY <1>2

\* list.del: the others stay.
LEMMA RemoveKeeps ==
    ASSUME NEW T, NEW l \in Seq(T), NEW k \in DOMAIN l
    PROVE  /\ Deleted(l, k) \in Seq(T)
           /\ \A i \in DOMAIN Deleted(l, k) : \E h \in DOMAIN l : Deleted(l, k)[i] = l[h]
<1>. DEFINE S == {l[h] : h \in DOMAIN l}
            m == Deleted(l, k)
<1>1. k \in 1 .. Len(l)
  OBVIOUS
<1>2. l \in Seq(S)
  OBVIOUS
<1>3. m \in Seq(T) /\ m \in Seq(S)
  BY <1>1, <1>2, PartsOfLists, Zenon DEF Deleted
<1>4. \A i \in DOMAIN m : m[i] \in S
  BY <1>3, ItemOf, Zenon
<1>. QED
  BY <1>3, <1>4, Zenon

\* Steps that leave the jobs, the chunk files and the history of faults alone.
LEMMA ListsQuiet ==
    ASSUME ListsInv, UNCHANGED <<jobs, disk, saved, dropped, faults>>, remote' \in Seq(Owners)
    PROVE  ListsInv'
<1>1. Accounted' = Accounted /\ Reliable' = Reliable
  BY Zenon DEF Accounted, Reliable
<1>2. jobs' = jobs /\ saved' = saved /\ disk' = disk /\ dropped' = dropped
  BY Zenon
<1>. QED
  BY <1>1, <1>2, Zenon DEF ListsInv

\* add.
LEMMA ListsAdd ==
    ASSUME ListsInv, NEW f \in Files, JobAdd(f)
    PROVE  ListsInv'
<1>1. /\ jobs' = Append(jobs, NewJob(f))
      /\ remote' = remote /\ disk' = disk /\ saved' = saved /\ dropped' = dropped /\ faults' = faults
  BY Zenon DEF JobAdd, disks, history
<1>2. Accounted' = Accounted /\ Reliable' = Reliable
  BY <1>1, Zenon DEF Accounted, Reliable
<1>3. NewJob(f) \in JobType /\ Agrees(NewJob(f))
  BY NewJobAgrees, Zenon
<1>4. \A i \in DOMAIN NewJob(f).chunks : NewJob(f).chunks[i].state # "done"
  BY DEF NewJob
<1>5. Sound(NewJob(f), Accounted, Reliable)
  BY <1>3, <1>4, Zenon DEF Sound
<1>6. /\ jobs' \in Seq(JobType)
      /\ \A k \in DOMAIN jobs' : jobs'[k] = NewJob(f) \/ (k \in DOMAIN jobs /\ jobs'[k] = jobs[k])
  <2>1. jobs \in Seq(JobType)
    BY Zenon DEF ListsInv
  <2>. QED
    BY <2>1, <1>1, <1>3, AppendKeeps
<1>7. \A k \in DOMAIN jobs' : Sound(jobs'[k], Accounted, Reliable)
  BY <1>5, <1>6, Zenon DEF ListsInv
<1>. QED
  BY <1>1, <1>2, <1>6, <1>7, Zenon DEF ListsInv

\* remove.
LEMMA ListsRemove ==
    ASSUME ListsInv, NEW f \in Files, JobRemove(f)
    PROVE  ListsInv'
<1>. DEFINE at == {l \in DOMAIN jobs : jobs[l].file = f}
<1>1. PICK k : k = First(at) /\ jobs' = Deleted(jobs, k)
  BY Zenon DEF JobRemove
<1>2. remote' = remote /\ disk' = disk /\ saved' = saved /\ dropped' = dropped /\ faults' = faults
  BY Zenon DEF JobRemove, disks
<1>3. Accounted' = Accounted /\ Reliable' = Reliable
  BY <1>2, Zenon DEF Accounted, Reliable
<1>4. k \in DOMAIN jobs
  <2>1. at \in SUBSET Nat
    BY DEF ListsInv
  <2>2. at # {}
    BY Zenon DEF JobRemove, HasJob
  <2>. QED
    BY <2>1, <2>2, <1>1, FirstIsMember, Zenon
<1>5. jobs' \in Seq(JobType) /\ \A i \in DOMAIN jobs' : \E h \in DOMAIN jobs : jobs'[i] = jobs[h]
  <2>1. jobs \in Seq(JobType)
    BY Zenon DEF ListsInv
  <2>2. /\ Deleted(jobs, k) \in Seq(JobType)
        /\ \A i \in DOMAIN Deleted(jobs, k) : \E h \in DOMAIN jobs : Deleted(jobs, k)[i] = jobs[h]
    BY <2>1, <1>4, RemoveKeeps, ZenonT(60)
  <2>. QED
    BY <1>1, <2>2, Zenon
<1>6. \A i \in DOMAIN jobs' : Sound(jobs'[i], Accounted, Reliable)
  BY <1>5, Zenon DEF ListsInv
<1>. QED
  BY <1>2, <1>3, <1>5, <1>6, Zenon DEF ListsInv

\* clean.
LEMMA ListsClean ==
    ASSUME ListsInv, JobClean
    PROVE  ListsInv'
<1>1. /\ jobs' = <<>>
      /\ remote' = remote /\ disk' = disk /\ saved' = saved /\ dropped' = dropped /\ faults' = faults
  BY Zenon DEF JobClean, disks
<1>2. Accounted' = Accounted /\ Reliable' = Reliable
  BY <1>1, Zenon DEF Accounted, Reliable
<1>3. jobs' \in Seq(JobType) /\ DOMAIN jobs' = {}
  BY <1>1
<1>. QED
  BY <1>1, <1>2, <1>3, Zenon DEF ListsInv

\* resume.
LEMMA ListsResume ==
    ASSUME ListsInv, NEW due \in BOOLEAN, Resume(due)
    PROVE  ListsInv'
<1>1. /\ jobs' = [k \in DOMAIN jobs |-> ResumedJob(jobs[k], due)]
      /\ remote' = remote /\ disk' = disk /\ saved' = saved /\ dropped' = dropped /\ faults' = faults
  BY Zenon DEF Resume, disks
<1>2. Accounted' = Accounted /\ Reliable' = Reliable
  BY <1>1, Zenon DEF Accounted, Reliable
<1>3. ASSUME NEW k \in DOMAIN jobs
      PROVE  Sound(ResumedJob(jobs[k], due), Accounted, Reliable)
  <2>. DEFINE j == jobs[k]
              r == ResumedJob(j, due)
  <2>1. Sound(j, Accounted, Reliable) /\ remote \in Seq(Owners)
    BY Zenon DEF ListsInv
  <2>2. j \in JobType
    BY <2>1, Zenon DEF Sound
  <2>. HIDE DEF j
  <2>3. /\ r \in JobType /\ (Agrees(j) => Agrees(r))
        /\ r.chunks = [i \in DOMAIN j.chunks |-> ResumedChunk(j.file, j.chunks[i], due)]
    BY <2>1, <2>2, ResumedJobAgrees, Zenon
  <2>. HIDE DEF r
  <2>4. ASSUME NEW i \in DOMAIN r.chunks, r.chunks[i].state = "done"
        PROVE  r.chunks[i].chunk \in Accounted
    <3>1. i \in DOMAIN j.chunks /\ r.chunks[i] = ResumedChunk(j.file, j.chunks[i], due)
      BY <2>3, Zenon
    <3>2. j.chunks[i] \in ChunkType
      BY <3>1, <2>2, JobFields, Zenon
    <3>3. /\ r.chunks[i].chunk = j.chunks[i].chunk
          /\ j.chunks[i].state = "done" \/ j.chunks[i].chunk \in disk
      <4>1. ResumedChunk(j.file, j.chunks[i], due).state = "done"
        BY <3>1, <2>4, Zenon
      <4>2. /\ ResumedChunk(j.file, j.chunks[i], due).chunk = j.chunks[i].chunk
            /\ j.chunks[i].state = "done" \/ j.chunks[i].chunk \in disk
        BY <4>1, <3>2, <2>1, ResumedChunkType
      <4>. QED
        BY <4>2, <3>1, Zenon
    <3>. QED
      BY <3>1, <3>3, <2>1, Zenon DEF Sound, Accounted
  <2>5. Sound(r, Accounted, Reliable)
    BY <2>1, <2>3, <2>4, Zenon DEF Sound
  <2>. QED
    BY <2>5, Zenon DEF r, j
<1>4. DOMAIN jobs' = DOMAIN jobs /\ \A k \in DOMAIN jobs' : Sound(jobs'[k], Accounted, Reliable)
  BY <1>1, <1>3, Zenon
<1>5. jobs' \in Seq(JobType)
  <2>1. \A k \in DOMAIN jobs : ResumedJob(jobs[k], due) \in JobType
    BY <1>3, Zenon DEF Sound
  <2>. QED
    BY <1>1, <2>1 DEF ListsInv
<1>. QED
  BY <1>1, <1>2, <1>4, <1>5, Zenon DEF ListsInv

\* A chunk file that nobody wants is removed: no job has the chunk, but a saved
\* one may.
LEMMA ListsArriveUnwanted ==
    ASSUME ListsInv, NEW c, JobsWaiting(c) = {},
           disk' = disk \ {c}, dropped' = dropped \cup {c},
           UNCHANGED <<remote, jobs, saved, faults>>
    PROVE  ListsInv'
<1>1. Reliable' = Reliable /\ Accounted \ {c} \subseteq Accounted' /\ disk \cup dropped \subseteq disk' \cup dropped'
  BY Zenon DEF Reliable, Accounted
<1>2. ASSUME NEW k \in DOMAIN jobs
      PROVE  Sound(jobs[k], Accounted', Reliable')
  <2>1. Sound(jobs[k], Accounted, Reliable) /\ \A i \in DOMAIN jobs[k].chunks : jobs[k].chunks[i].chunk # c
    BY Zenon DEF ListsInv, JobsWaiting
  <2>. QED
    BY <1>1, <2>1, Zenon DEF Sound
<1>3. ASSUME NEW k \in DOMAIN saved
      PROVE  Sound(saved[k], disk' \cup dropped', Reliable')
  <2>1. Sound(saved[k], disk \cup dropped, Reliable)
    BY Zenon DEF ListsInv
  <2>. QED
    BY <1>1, <2>1, SoundGrows, Zenon
<1>. QED
  BY <1>2, <1>3, Zenon DEF ListsInv

\* A chunk file stays, and perhaps a job is told.
LEMMA ListsArriveKept ==
    ASSUME ListsInv, NEW c, disk' = disk \cup {c},
           UNCHANGED <<remote, saved, dropped, faults>>,
           \/ jobs' = jobs
           \/ \E k \in JobsWaiting(c) : jobs' = [jobs EXCEPT ![k] = Updated(jobs[k], c)]
    PROVE  ListsInv'
<1>1. /\ Reliable' = Reliable /\ Accounted \subseteq Accounted' /\ c \in Accounted'
      /\ disk \cup dropped \subseteq disk' \cup dropped'
  BY Zenon DEF Reliable, Accounted
<1>2. \A k \in DOMAIN jobs : Sound(jobs[k], Accounted', Reliable') /\ jobs[k] \in JobType
  <2>1. \A k \in DOMAIN jobs : Sound(jobs[k], Accounted, Reliable)
    BY Zenon DEF ListsInv
  <2>2. \A k \in DOMAIN jobs : Sound(jobs[k], Accounted', Reliable')
    BY <1>1, <2>1, SoundGrows, Zenon
  <2>. QED
    BY <2>2, Zenon DEF Sound
<1>3. \A k \in DOMAIN saved : Sound(saved[k], disk' \cup dropped', Reliable')
  <2>1. \A k \in DOMAIN saved : Sound(saved[k], disk \cup dropped, Reliable)
    BY Zenon DEF ListsInv
  <2>. QED
    BY <1>1, <2>1, SoundGrows, Zenon
<1>4. ASSUME NEW k \in JobsWaiting(c), jobs' = [jobs EXCEPT ![k] = Updated(jobs[k], c)]
      PROVE  jobs' \in Seq(JobType) /\ \A h \in DOMAIN jobs' : Sound(jobs'[h], Accounted', Reliable')
  <2>. DEFINE j == jobs[k]
              at == {i \in DOMAIN j.chunks : j.chunks[i].chunk = c}
              i == First(at)
              d == Done(j, i)
  <2>1. k \in DOMAIN jobs /\ at # {}
    BY Zenon DEF JobsWaiting
  <2>2. j \in JobType /\ Sound(j, Accounted', Reliable')
    BY <1>2, <2>1, Zenon
  <2>3. at \in SUBSET Nat
    <3>1. j.chunks \in Seq(ChunkType)
      BY <2>2, JobFields, Zenon
    <3>2. DOMAIN j.chunks \subseteq Nat
      BY <3>1
    <3>. QED
      BY <3>2, Zenon
  <2>4. i \in DOMAIN j.chunks /\ j.chunks[i].chunk = c
    BY <2>1, <2>3, FirstIsMember, Zenon
  <2>5. Updated(jobs[k], c) = d
    BY Zenon DEF Updated
  <2>. HIDE DEF i, j
  <2>6. /\ d \in JobType /\ DOMAIN d.chunks = DOMAIN j.chunks
        /\ d.chunks[i] = [chunk |-> j.chunks[i].chunk, state |-> "done", net |-> NoPeer]
        /\ \A l \in DOMAIN j.chunks \ {i} : d.chunks[l] = j.chunks[l]
    BY <2>2, <2>4, DoneFields, Zenon
  <2>7. Agrees(j) => Agrees(d)
    BY <2>2, <2>4, DoneAgrees, Zenon
  <2>. HIDE DEF d
  <2>8. d.chunks[i].chunk = c
    BY <2>4, <2>6
  <2>9. Sound(d, Accounted', Reliable')
    <3>1. ASSUME NEW l \in DOMAIN d.chunks, d.chunks[l].state = "done"
          PROVE  d.chunks[l].chunk \in Accounted'
      <4>1. CASE l = i
        BY <4>1, <2>8, <1>1, Zenon
      <4>2. CASE l # i
        BY <4>2, <3>1, <2>6, <2>2, Zenon DEF Sound
      <4>. QED
        BY <4>1, <4>2
    <3>. QED
      BY <3>1, <2>2, <2>6, <2>7, Zenon DEF Sound
  <2>10. jobs' = [jobs EXCEPT ![k] = d]
    BY <1>4, <2>5, Zenon
  <2>11. jobs' \in Seq(JobType) /\ DOMAIN jobs' = DOMAIN jobs
    <3>1. jobs \in Seq(JobType)
      BY Zenon DEF ListsInv
    <3>. QED
      BY <3>1, <2>1, <2>6, <2>10
  <2>12. jobs'[k] = d /\ \A h \in DOMAIN jobs \ {k} : jobs'[h] = jobs[h]
    BY <2>1, <2>10, Zenon
  <2>. QED
    BY <1>2, <2>9, <2>11, <2>12, Zenon
<1>5. jobs' \in Seq(JobType) /\ \A h \in DOMAIN jobs' : Sound(jobs'[h], Accounted', Reliable')
  <2>1. ASSUME jobs' = jobs
        PROVE  jobs' \in Seq(JobType) /\ \A h \in DOMAIN jobs' : Sound(jobs'[h], Accounted', Reliable')
    BY <2>1, <1>2, Zenon DEF ListsInv
  <2>. QED
    BY <1>4, <2>1, Zenon
<1>. QED
  BY <1>3, <1>5, Zenon DEF ListsInv

\* update, and the removal of what it does not want.
LEMMA ListsArrive ==
    ASSUME ListsInv, NEW m, NEW again, Arrive(m, again)
    PROVE  ListsInv'
<1>1. UNCHANGED <<remote, saved, faults>>
  BY Zenon DEF Arrive
<1>2. CASE m.from \notin peers \/ Len(m.chunk) <= 1
  <2>1. disk' = disk \cup {m.chunk} /\ UNCHANGED <<jobs, dropped>>
    BY <1>2, Zenon DEF Arrive
  <2>. QED
    BY <1>1, <2>1, ListsArriveKept, Zenon
<1>3. CASE ~(m.from \notin peers \/ Len(m.chunk) <= 1) /\ JobsWaiting(m.chunk) = {}
  <2>1. disk' = disk \ {m.chunk} /\ dropped' = dropped \cup {m.chunk} /\ jobs' = jobs
    BY <1>3, Zenon DEF Arrive
  <2>. QED
    BY <1>1, <1>3, <2>1, ListsArriveUnwanted, Zenon
<1>4. CASE ~(m.from \notin peers \/ Len(m.chunk) <= 1) /\ JobsWaiting(m.chunk) # {}
  <2>. DEFINE k == First(JobsWaiting(m.chunk))
  <2>1. /\ disk' = disk \cup {m.chunk} /\ UNCHANGED dropped
        /\ jobs' = [jobs EXCEPT ![k] = Updated(jobs[k], m.chunk)]
    BY <1>4, Zenon DEF Arrive
  <2>2. JobsWaiting(m.chunk) \in SUBSET Nat
    <3>1. jobs \in Seq(JobType)
      BY Zenon DEF ListsInv
    <3>2. DOMAIN jobs \subseteq Nat
      BY <3>1
    <3>. QED
      BY <3>2, Zenon DEF JobsWaiting
  <2>3. k \in JobsWaiting(m.chunk)
    BY <1>4, <2>2, FirstIsMember, Zenon
  <2>. HIDE DEF k
  <2>. QED
    BY <1>1, <2>1, <2>3, ListsArriveKept, Zenon
<1>. QED
  BY <1>2, <1>3, <1>4, Zenon

\* init: the chains come back in some order.
LEMMA ChainsReread ==
    ASSUME remote \in Seq(Owners), NEW list, Begin(list)
    PROVE  remote' \in Seq(Owners) /\ jobs' = list
<1>1. remote' \in [DOMAIN remote -> Owners] /\ jobs' = list
  BY Zenon DEF Begin
<1>. QED
  BY <1>1

\* SIGINT between two callbacks.
LEMMA ListsShutdown ==
    ASSUME ListsInv, Shutdown
    PROVE  ListsInv'
<1>1. saved' = jobs /\ Begin(jobs) /\ UNCHANGED <<disk, dropped, faults>>
  BY Zenon DEF Shutdown
<1>2. remote' \in Seq(Owners) /\ jobs' = jobs
  BY <1>1, ChainsReread, Zenon DEF ListsInv
<1>3. /\ Reliable' = Reliable /\ Accounted' = Accounted
      /\ Accounted \subseteq disk' \cup dropped'
  BY <1>1, Zenon DEF Reliable, Accounted
<1>4. \A k \in DOMAIN jobs : Sound(jobs[k], Accounted, Reliable)
  BY Zenon DEF ListsInv
<1>5. \A k \in DOMAIN jobs : Sound(jobs[k], disk' \cup dropped', Reliable)
  BY <1>3, <1>4, SoundGrows, Zenon
<1>. QED
  BY <1>1, <1>2, <1>3, <1>4, <1>5, Zenon DEF ListsInv

\* SIGINT inside chunk_state: the counters may not be relied on afterwards.
LEMMA ListsShutdownInside ==
    ASSUME ListsInv, NEW k \in DOMAIN jobs, NEW i \in DOMAIN jobs[k].chunks, ShutdownInside(k, i)
    PROVE  ListsInv'
<1>1. /\ saved' = [jobs EXCEPT ![k] = Uncounted(jobs[k], i)] /\ Begin(saved')
      /\ faults' = faults \cup {"interrupted"} /\ disk' = disk /\ dropped' = dropped
  BY Zenon DEF ShutdownInside
<1>2. remote' \in Seq(Owners) /\ jobs' = saved'
  BY <1>1, ChainsReread, Zenon DEF ListsInv
<1>3. /\ Reliable' = FALSE
      /\ Accounted' = Accounted /\ Accounted \subseteq disk' \cup dropped'
  BY <1>1 DEF Reliable, Accounted
<1>4. \A h \in DOMAIN jobs : Sound(jobs[h], Accounted, Reliable)
  BY Zenon DEF ListsInv
<1>5. jobs[k] \in JobType
  BY <1>4, Zenon DEF Sound
<1>6. Uncounted(jobs[k], i) \in JobType /\ Uncounted(jobs[k], i).chunks = jobs[k].chunks
  BY <1>5, UncountedFields, Zenon
<1>7. saved' \in Seq(JobType)
  <2>1. jobs \in Seq(JobType)
    BY Zenon DEF ListsInv
  <2>. QED
    BY <1>1, <1>6, <2>1
<1>8. DOMAIN saved' = DOMAIN jobs /\ \A h \in DOMAIN jobs : saved'[h] = IF h = k THEN Uncounted(jobs[k], i) ELSE jobs[h]
  BY <1>1, Zenon
<1>9. \A h \in DOMAIN saved' : Sound(saved'[h], Accounted', Reliable')
  <2>1. Sound(Uncounted(jobs[k], i), Accounted, FALSE)
    BY <1>4, <1>6, Zenon DEF Sound
  <2>2. \A h \in DOMAIN jobs : Sound(jobs[h], Accounted, FALSE)
    BY <1>4, Zenon DEF Sound
  <2>. QED
    BY <1>3, <1>8, <2>1, <2>2, Zenon
<1>10. \A h \in DOMAIN saved' : Sound(saved'[h], disk' \cup dropped', Reliable')
  BY <1>3, <1>9, SoundGrows, Zenon
<1>. QED
  BY <1>2, <1>7, <1>9, <1>10 DEF ListsInv

\* The process dies, and the jobs are those that were saved.
LEMMA ListsCrash ==
    ASSUME ListsInv, PeerCrash
    PROVE  ListsInv'
<1>1. Begin(saved) /\ faults' = faults \cup {"crashed"} /\ UNCHANGED <<disk, saved, dropped>>
  BY Zenon DEF PeerCrash
<1>2. remote' \in Seq(Owners) /\ jobs' = saved
  BY <1>1, ChainsReread, Zenon DEF ListsInv
<1>3. Reliable' = Reliable /\ Accounted' = disk \cup dropped
  BY <1>1 DEF Reliable, Accounted
<1>. QED
  BY <1>1, <1>2, <1>3, Zenon DEF ListsInv

\* The process dies inside data_save, and the file is removed by hand.
LEMMA ListsCrashSaving ==
    ASSUME ListsInv, CrashSaving
    PROVE  ListsInv'
<1>1. saved' = <<>> /\ Begin(<<>>) /\ faults' = faults \cup {"crashed"} /\ UNCHANGED <<disk, dropped>>
  BY Zenon DEF CrashSaving
<1>2. remote' \in Seq(Owners) /\ jobs' = <<>>
  BY <1>1, ChainsReread, Zenon DEF ListsInv
<1>3. /\ jobs' \in Seq(JobType) /\ DOMAIN jobs' = {}
      /\ saved' \in Seq(JobType) /\ DOMAIN saved' = {}
  BY <1>1, <1>2
<1>. QED
  BY <1>2, <1>3, Zenon DEF ListsInv

-----------------------------------------------------------------------------
(* Finished files *)

\* What finalize writes or forgets under one name leaves the other names alone.
LEMMA OtherNames ==
    ASSUME NEW f \in Files, NEW n \in Nat, NEW d \in DOMAIN final, d # Desc[f]
    PROVE  d \in DOMAIN Appended(f, n) /\ Appended(f, n)[d] = final[d]
  BY Zenon DEF Appended, Restrict

\* finalize, with success or without, and a crash inside it.
LEMMA FinalStep ==
    ASSUME FinalizedWhole, NEW f \in Files, NEW n \in Nat, final' = Appended(f, n),
           \/ result' = Forgotten(f)
           \/ /\ n = Len(FileChunks[f])
              /\ result' = [d \in DOMAIN result \cup {Desc[f]} |-> IF d = Desc[f] THEN f ELSE result[d]]
    PROVE  FinalizedWhole'
<1>1. ASSUME NEW d \in DOMAIN result, d # Desc[f], result'[d] = result[d]
      PROVE  d \in DOMAIN final' /\ final'[d] = Data[result'[d]]
  <2>1. d \in DOMAIN final /\ final[d] = Data[result[d]]
    BY Zenon DEF FinalizedWhole
  <2>. QED
    BY <1>1, <2>1, OtherNames, Zenon
<1>2. CASE result' = Forgotten(f)
  <2>1. \A d \in DOMAIN result' : d \in DOMAIN result /\ d # Desc[f] /\ result'[d] = result[d]
    BY <1>2, Zenon DEF Forgotten, Restrict
  <2>. QED
    BY <1>1, <2>1, Zenon DEF FinalizedWhole
<1>3. CASE /\ n = Len(FileChunks[f])
           /\ result' = [d \in DOMAIN result \cup {Desc[f]} |-> IF d = Desc[f] THEN f ELSE result[d]]
  <2>1. \A d \in DOMAIN result' : \/ d = Desc[f] /\ result'[d] = f
                                  \/ d \in DOMAIN result /\ d # Desc[f] /\ result'[d] = result[d]
    BY <1>3, Zenon
  <2>2. n # 0 /\ Written(f)[n] = Data[f]
    BY <1>3, WrittenWhole, Zenon
  <2>3. Desc[f] \in DOMAIN final' /\ final'[Desc[f]] = Data[f]
    BY <2>2, Zenon DEF Appended
  <2>. QED
    BY <1>1, <2>1, <2>3, Zenon DEF FinalizedWhole
<1>. QED
  BY <1>2, <1>3, Zenon

\* How far finalize gets is a number of chunks.
LEMMA ReadableType ==
    ASSUME NEW f \in Files
    PROVE  Readable(f) \in 0 .. Len(FileChunks[f]) /\ Len(FileChunks[f]) \in Nat
<1>. DEFINE missing == {i \in 1 .. Len(FileChunks[f]) : FileChunks[f][i] \notin disk}
            Right(n) == /\ \A i \in 1 .. n : FileChunks[f][i] \in disk
                        /\ n < Len(FileChunks[f]) => FileChunks[f][n + 1] \notin disk
<1>1. Len(FileChunks[f]) \in Nat
  BY ChunkByChunk, Zenon
<1>2. CASE missing = {}
  <2>1. Right(Len(FileChunks[f])) /\ Len(FileChunks[f]) \in 0 .. Len(FileChunks[f])
    BY <1>1, <1>2
  <2>. QED
    BY <1>1, <2>1, Zenon DEF Readable
<1>3. CASE missing # {}
  <2>1. missing \in SUBSET Nat
    OBVIOUS
  <2>2. PICK m \in missing : \A j \in missing : m <= j
    BY <1>3, <2>1, FirstIsMember, Zenon
  <2>3. m - 1 \in 0 .. Len(FileChunks[f]) /\ Right(m - 1)
    BY <1>1, <2>2
  <2>. QED
    BY <1>1, <2>3, Zenon DEF Readable
<1>. QED
  BY <1>2, <1>3

-----------------------------------------------------------------------------
(* Theorems *)

\* The invariant holds of a peer that has never run.
LEMMA InitJobsInv == JobsInit => JobsInv
<1>. SUFFICES ASSUME JobsInit PROVE JobsInv
  OBVIOUS
<1>1. remote = <<>> /\ jobs = <<>> /\ saved = <<>> /\ result = <<>>
  BY Zenon DEF JobsInit
<1>2. remote \in Seq(Owners) /\ jobs \in Seq(JobType) /\ saved \in Seq(JobType)
  BY <1>1
<1>3. DOMAIN jobs = {} /\ DOMAIN saved = {} /\ DOMAIN result = {}
  BY <1>1
<1>. QED
  BY <1>2, <1>3, Zenon DEF JobsInv, ListsInv, FinalizedWhole

\* Every step keeps it.
LEMMA NextJobsInv == JobsInv /\ [JobsNext]_jobsVars => JobsInv'
<1>. SUFFICES ASSUME JobsInv, [JobsNext]_jobsVars PROVE JobsInv'
  OBVIOUS
<1>. USE DEF JobsInv
<1>1. ASSUME NEW o \in Owners, Learn(o)
      PROVE  JobsInv'
  <2>1. /\ UNCHANGED <<jobs, disk, saved, dropped, faults>> /\ UNCHANGED <<final, result>>
        /\ remote' = Append(remote, o)
    BY <1>1, Zenon DEF Learn, disks, history
  <2>2. remote' \in Seq(Owners)
    BY <2>1 DEF ListsInv
  <2>. QED
    BY <2>1, <2>2, ListsQuiet DEF FinalizedWhole
<1>2. ASSUME NEW o \in Owners, PeerComes(o) \/ PeerGoes(o)
      PROVE  JobsInv'
  <2>1. UNCHANGED <<jobs, disk, saved, dropped, faults>> /\ UNCHANGED <<remote, final, result>>
    BY <1>2, Zenon DEF PeerComes, PeerGoes, disks, history
  <2>. QED
    BY <2>1, ListsQuiet, Zenon DEF FinalizedWhole, ListsInv
<1>3. ASSUME NEW f \in Files, JobAdd(f)
      PROVE  JobsInv'
  <2>1. UNCHANGED <<final, result>>
    BY <1>3, Zenon DEF JobAdd, disks, history
  <2>. QED
    BY <1>3, <2>1, ListsAdd DEF FinalizedWhole
<1>4. ASSUME NEW f \in Files, JobRemove(f)
      PROVE  JobsInv'
  <2>1. UNCHANGED <<final, result>>
    BY <1>4, Zenon DEF JobRemove, disks
  <2>. QED
    BY <1>4, <2>1, ListsRemove DEF FinalizedWhole
<1>5. ASSUME NEW f \in Files, Finalize(f)
      PROVE  JobsInv'
  <2>1. UNCHANGED <<jobs, disk, saved, dropped, faults>> /\ remote' = remote
    BY <1>5, Zenon DEF Finalize
  <2>2. PICK n \in 0 .. Readable(f) :
        /\ final' = Appended(f, n)
        /\ \/ result' = Forgotten(f)
           \/ /\ n = Len(FileChunks[f])
              /\ result' = [d \in DOMAIN result \cup {Desc[f]} |-> IF d = Desc[f] THEN f ELSE result[d]]
    BY <1>5, Zenon DEF Finalize
  <2>3. n \in Nat
    BY ReadableType
  <2>4. FinalizedWhole'
    BY <2>2, <2>3, FinalStep, Zenon
  <2>. QED
    BY <2>1, <2>4, ListsQuiet, Zenon DEF ListsInv
<1>6. ASSUME JobClean
      PROVE  JobsInv'
  <2>1. UNCHANGED <<final, result>>
    BY <1>6, Zenon DEF JobClean, disks
  <2>. QED
    BY <1>6, <2>1, ListsClean DEF FinalizedWhole
<1>7. ASSUME NEW due \in BOOLEAN, Resume(due)
      PROVE  JobsInv'
  <2>1. UNCHANGED <<final, result>>
    BY <1>7, Zenon DEF Resume, disks
  <2>. QED
    BY <1>7, <2>1, ListsResume DEF FinalizedWhole
<1>8. ASSUME NEW a, Serve(a)
      PROVE  JobsInv'
  <2>1. UNCHANGED <<jobs, disk, saved, dropped, faults>> /\ UNCHANGED <<remote, final, result>>
    BY <1>8, Zenon DEF Serve, disks, history
  <2>. QED
    BY <2>1, ListsQuiet, Zenon DEF FinalizedWhole, ListsInv
<1>9. ASSUME NEW m, NEW again, Arrive(m, again)
      PROVE  JobsInv'
  <2>1. UNCHANGED <<final, result>>
    BY <1>9, Zenon DEF Arrive
  <2>. QED
    BY <1>9, <2>1, ListsArrive DEF FinalizedWhole
<1>10. ASSUME Shutdown
       PROVE  JobsInv'
  <2>1. UNCHANGED <<final, result>>
    BY <1>10, Zenon DEF Shutdown
  <2>. QED
    BY <1>10, <2>1, ListsShutdown DEF FinalizedWhole
<1>11. ASSUME NEW k \in DOMAIN jobs, NEW i \in DOMAIN jobs[k].chunks, ShutdownInside(k, i)
       PROVE  JobsInv'
  <2>1. UNCHANGED <<final, result>>
    BY <1>11, Zenon DEF ShutdownInside
  <2>. QED
    BY <1>11, <2>1, ListsShutdownInside DEF FinalizedWhole
<1>12. ASSUME PeerCrash
       PROVE  JobsInv'
  <2>1. ListsInv'
    BY <1>12, ListsCrash, Zenon
  <2>2. ASSUME UNCHANGED <<final, result>>
        PROVE  FinalizedWhole'
    BY <2>2 DEF FinalizedWhole
  <2>3. ASSUME NEW f \in Files, NEW n \in 0 .. Readable(f), final' = Appended(f, n), result' = Forgotten(f)
        PROVE  FinalizedWhole'
    <3>1. n \in Nat
      BY ReadableType
    <3>. QED
      BY <2>3, <3>1, FinalStep, Zenon
  <2>4. \/ UNCHANGED <<final, result>>
        \/ \E f \in Files : \E n \in 0 .. Readable(f) : final' = Appended(f, n) /\ result' = Forgotten(f)
    BY <1>12, Zenon DEF PeerCrash
  <2>. QED
    BY <2>1, <2>2, <2>3, <2>4, Zenon
<1>13. ASSUME CrashSaving
       PROVE  JobsInv'
  <2>1. UNCHANGED <<final, result>>
    BY <1>13, Zenon DEF CrashSaving
  <2>. QED
    BY <1>13, <2>1, ListsCrashSaving DEF FinalizedWhole
<1>14. ASSUME LoseMessage
       PROVE  JobsInv'
  <2>1. UNCHANGED <<jobs, disk, saved, dropped, faults>> /\ UNCHANGED <<remote, final, result>>
    BY <1>14, Zenon DEF LoseMessage, disks, history
  <2>. QED
    BY <2>1, ListsQuiet, Zenon DEF FinalizedWhole, ListsInv
<1>15. ASSUME UNCHANGED jobsVars
       PROVE  JobsInv'
  <2>1. UNCHANGED <<jobs, disk, saved, dropped, faults>> /\ UNCHANGED <<remote, final, result>>
    BY <1>15, Zenon DEF jobsVars
  <2>. QED
    BY <2>1, ListsQuiet, Zenon DEF FinalizedWhole, ListsInv
<1>. HIDE DEF JobsInv
<1>. QED
  BY <1>1, <1>2, <1>3, <1>4, <1>5, <1>6, <1>7, <1>8, <1>9, <1>10, <1>11, <1>12, <1>13, <1>14, <1>15, Zenon DEF JobsNext

\* Jobs, saved jobs, chunk files and finished files fit together in every state.
THEOREM JobsInvariant == JobsSpec => []JobsInv
<1>. QED
  BY InitJobsInv, NextJobsInv, PTL DEF JobsSpec

\* The counters of a job are the numbers of its chunks in each state, for every
\* number of peers, files and chunks, through timers, answers and crashes, unless a
\* signal came inside chunk_state.
THEOREM CountersAlwaysAgree == JobsSpec => []CountersAgree
<1>1. JobsInv => CountersAgree
  BY Zenon DEF JobsInv, ListsInv, Sound, Agrees, Reliable, CountersAgree
<1>. QED
  BY <1>1, JobsInvariant, PTL

\* A chunk that a job has as done is on disk, unless it was dropped as unwanted and
\* a crash brought the job back.
THEOREM DoneChunksAreOnDisk == JobsSpec => []DoneIsOnDisk
<1>1. JobsInv => DoneIsOnDisk
  BY Zenon DEF JobsInv, ListsInv, Sound, Accounted, DoneIsOnDisk
<1>. QED
  BY <1>1, JobsInvariant, PTL

\* A file that finalize has reported as finished is the file that was shared, byte
\* for byte, for every size of file and of chunk.
THEOREM FinalizedFilesAreWhole == JobsSpec => []FinalizedWhole
<1>1. JobsInv => FinalizedWhole
  BY Zenon DEF JobsInv
<1>. QED
  BY <1>1, JobsInvariant, PTL

==============================================================================
