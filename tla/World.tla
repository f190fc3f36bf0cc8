-------------------------------- MODULE World --------------------------------
(***************************************************************************)
(* Who knows whom: world.c with the payloads announce, auth, auth_reply,   *)
(* ping, pong, query and query_reply, the callbacks of distfs.c, mpeer.c   *)
(* and mtracker.c behind them, and whitelist.c.                            *)
(*                                                                         *)
(* A peer that starts announces itself to the tracker, once.  The tracker  *)
(* lists it, if its key is on the whitelist and its address is not listed  *)
(* yet, and sends a challenge; the answer makes it AUTHED, and it and the  *)
(* listed peers are announced to each other.  Everybody pings everybody    *)
(* listed.  The tracker drops who does not answer.  A peer asks the        *)
(* tracker first: who the tracker still lists becomes a SHADOW, reached    *)
(* through a proxy, who it does not list is dropped.                       *)
(*                                                                         *)
(* Messages arrive late, in any order, even after the process they were    *)
(* for has started again at its old address (localport.c).  A late pong, a *)
(* query and its answer are kept with the entry they are about.            *)
(***************************************************************************)
EXTENDS Naturals, FiniteSets

CONSTANTS Peers,          \* by address; a restart keeps it
          Tracker,        \* the address of the tracker
          Keys,           \* the peers whose keys are on the tracker's whitelist
          MaxUnreachable, \* cfg.net.max.peer_unreachable
          MaxRuns,        \* bound: starts of a peer
          MaxMishaps      \* bound: stops, tracker restarts, lost or repeated
                          \* messages and early timers

ASSUME WorldAssumption == /\ Tracker \notin Peers
                          /\ MaxUnreachable \in Nat \ {0}

VARIABLES runs,           \* how often each peer was started
          up,             \* the peers that run
          world,          \* p->peers of each peer: address -> entry
          listed,         \* p->peers of the tracker: address -> entry
          admitted,       \* how often the tracker has listed a peer
          challenged,     \* the strings each peer was challenged with
          mail,           \* messages on their way
          mishaps,
          \* history
          answered,       \* the strings each peer has sent back
          quiet           \* no message was lost, no pong late, no tracker restart,
                          \* no announcement of a restarted peer ignored, no two
                          \* peers challenged in the same millisecond, nobody
                          \* dropped on an answer that was out of date

worldVars == <<runs, up, world, listed, admitted, challenged, mail, mishaps, answered, quiet>>

Nobody == [a \in {} |-> 0]

With(f, a, e) == [x \in DOMAIN f \cup {a} |-> IF x = a THEN e ELSE f[x]]

Without(f, S) == [x \in DOMAIN f \ S |-> f[x]]

\* A peer's entry for an address it has learned.
NewEntry == [unreachable |-> 0, late |-> FALSE, queried |-> FALSE,
             shadow |-> FALSE, query |-> {}]

\* The tracker's entry, with the challenge s and its place in the list.
NewListing(p, s) == [unreachable |-> 0, late |-> FALSE, auth |-> s,
                     authed |-> FALSE, of |-> runs[p], pos |-> admitted + 1]

WorldInit ==
    /\ runs = [p \in Peers |-> 0]
    /\ up = {}
    /\ world = [p \in Peers |-> Nobody]
    /\ listed = Nobody
    /\ admitted = 0
    /\ challenged = [p \in Peers |-> {}]
    /\ mail = {}
    /\ mishaps = 0
    /\ answered = [p \in Peers |-> {}]
    /\ quiet = TRUE

Mishap == mishaps < MaxMishaps /\ mishaps' = mishaps + 1

-----------------------------------------------------------------------------
(* Messages: what announce_pwp, auth, auth_reply, announce_twt and twp write *)

Announcement(p) == [type |-> "announce", peer |-> p]

Challenge(p, s) == [type |-> "auth", peer |-> p, str |-> s]

Answer(p, s) == [type |-> "answer", peer |-> p, str |-> s]

FromTracker(p) == [type |-> "tracker", to |-> p]

Introduction(to, p) == [type |-> "peer", to |-> to, peer |-> p]

-----------------------------------------------------------------------------
(* Starting, stopping, and the network *)

\* init_peer and main: the peer announces itself, once per run.
Start(p) ==
    /\ p \notin up
    /\ runs[p] < MaxRuns
    /\ runs' = [runs EXCEPT ![p] = @ + 1]
    /\ up' = up \cup {p}
    /\ mail' = mail \cup {Announcement(p)}
    /\ UNCHANGED <<world, listed, admitted, challenged, mishaps, answered, quiet>>

\* The process ends; what it knew is lost.
Stop(p) ==
    /\ p \in up
    /\ Mishap
    /\ up' = up \ {p}
    /\ world' = [world EXCEPT ![p] = Nobody]
    /\ UNCHANGED <<runs, listed, admitted, challenged, mail, answered, quiet>>

\* The tracker ends and starts again; it keeps its whitelist only.
TrackerRestart ==
    /\ Mishap
    /\ listed' = Nobody
    /\ quiet' = FALSE
    /\ UNCHANGED <<runs, up, world, admitted, challenged, mail, answered>>

\* The transport gives a message up.
Lose(m) ==
    /\ Mishap
    /\ mail' = mail \ {m}
    /\ quiet' = FALSE
    /\ UNCHANGED <<runs, up, world, listed, admitted, challenged, answered>>

\* A message is taken from the network; the transport may have another copy.
Take(m, sends) == \/ mail' = (mail \ {m}) \cup sends /\ UNCHANGED mishaps
                  \/ mail' = mail \cup sends /\ Mishap

-----------------------------------------------------------------------------
(* Introductions *)

\* announce_prp: a listed address is neither challenged nor announced again.
Admits(p) == p \in Keys /\ p \notin DOMAIN listed

\* The address is still listed for an earlier run of the peer.
Stale(p) == p \in DOMAIN listed /\ listed[p].of < runs[p]

\* peer_auth: the string is a hash of the time in milliseconds and the tracker's
\* key, named here after the first entry that has it.  Two peers challenged in
\* the same millisecond get the same one.
AuthStrings(p) ==
    {admitted + 1} \cup
    {listed[q].auth : q \in {r \in DOMAIN listed : /\ listed[r].pos = admitted
                                                   /\ listed[r].auth \notin challenged[p]}}

ReadAnnounce(m) ==
    /\ m.type = "announce"
    /\ \/ /\ Admits(m.peer)
          /\ \E s \in AuthStrings(m.peer) :
                /\ challenged' = [challenged EXCEPT ![m.peer] = @ \cup {s}]
                /\ listed' = With(listed, m.peer, NewListing(m.peer, s))
                /\ Take(m, {Challenge(m.peer, s)})
                /\ quiet' = (quiet /\ s = admitted + 1)
          /\ admitted' = admitted + 1
       \/ /\ ~Admits(m.peer)
          /\ Take(m, {})
          /\ quiet' = (quiet /\ ~Stale(m.peer))
          /\ UNCHANGED <<listed, admitted, challenged>>
    /\ UNCHANGED <<runs, up, world, answered>>

\* dfs_auth: the peer decrypts the challenge and sends it back.  The tracker has
\* encrypted it with the key of this peer's announcement, so the decryption works;
\* if it failed the peer would end, as in Stop.
ReadAuth(m) ==
    /\ m.type = "auth"
    /\ m.peer \in up
    /\ Take(m, {Answer(m.peer, m.str)})
    /\ answered' = [answered EXCEPT ![m.peer] = @ \cup {m.str}]
    /\ UNCHANGED <<runs, up, world, listed, admitted, challenged, quiet>>

\* Variant: the entry is found by the address, not by the challenge.
ChallengedAnyTime(m) == {p \in DOMAIN listed : p = m.peer /\ ~listed[p].authed}

\* world.peer.findauthstr: the first entry with the string, whoever sent it, if it
\* is not AUTHED yet.
Challenged(m) ==
    {p \in DOMAIN listed :
        /\ listed[p].auth = m.str /\ ~listed[p].authed
        /\ \A q \in DOMAIN listed : listed[q].auth = m.str => listed[p].pos <= listed[q].pos}

\* Variant: the listed peers are announced to the newcomer only.
BroadcastOneWay(p) ==
    {Introduction(p, q) : q \in DOMAIN listed \ {p}}

\* world.peer.broadcast: p and every other listed peer to each other.
Broadcast(p) ==
    UNION {{Introduction(p, q), Introduction(q, p)} : q \in DOMAIN listed \ {p}}

\* dfs_auth_reply of the tracker.
ReadAnswer(m) ==
    /\ m.type = "answer"
    /\ \/ \E p \in Challenged(m) :
             /\ listed' = [listed EXCEPT ![p].authed = TRUE]
             /\ Take(m, {FromTracker(p)} \cup Broadcast(p))
       \/ Challenged(m) = {} /\ Take(m, {}) /\ UNCHANGED listed
    /\ UNCHANGED <<runs, up, world, admitted, challenged, answered, quiet>>

\* world.peer.add
Added(p, a) == IF a \in DOMAIN world[p] THEN world
               ELSE [world EXCEPT ![p] = With(@, a, NewEntry)]

\* announce_trt and announce_trp.
ReadIntroduction(m) ==
    /\ m.type \in {"tracker", "peer"}
    /\ m.to \in up
    /\ world' = Added(m.to, IF m.type = "tracker" THEN Tracker ELSE m.peer)
    /\ Take(m, {})
    /\ UNCHANGED <<runs, up, listed, admitted, challenged, answered, quiet>>

-----------------------------------------------------------------------------
(* Who answers *)

Running(a) == a = Tracker \/ a \in up

\* peer_check counts first and pings only below the limit.
GivenUp(e) == e.unreachable + 1 >= MaxUnreachable

\* A ping to address a.  Who runs answers, and dfs_pong_reply counts from 0
\* again; the flags of the entry stay.  The interval is long enough for the
\* answer to be here before the next check, except when the answer is `late'.
Pinged(e, a, late) ==
    IF Running(a) /\ ~late THEN [e EXCEPT !.unreachable = 0]
    ELSE [e EXCEPT !.unreachable = @ + 1, !.late = Running(a)]

Interval(late) == \/ ~late /\ UNCHANGED <<mishaps, quiet>>
                  \/ late /\ Mishap /\ quiet' = FALSE

\* peer_check of a peer: ping, or peer_offline_shadow, which asks the tracker.
Checked(e, a, late) ==
    IF GivenUp(e)
    THEN [e EXCEPT !.unreachable = MaxUnreachable, !.queried = TRUE,
                   !.query = @ \cup {"asked"}]
    ELSE Pinged(e, a, late)

Check(p, late) ==
    /\ p \in up
    /\ Interval(late)
    /\ world' = [world EXCEPT ![p] = [a \in DOMAIN @ |-> Checked(@[a], a, late)]]
    /\ UNCHANGED <<runs, up, listed, admitted, challenged, mail, answered>>

\* peer_check of the tracker: ping, or drop the entry.
TrackerCheck(late) ==
    /\ Interval(late)
    /\ listed' = [p \in {q \in DOMAIN listed : ~GivenUp(listed[q])} |->
                     Pinged(listed[p], p, late)]
    /\ UNCHANGED <<runs, up, world, admitted, challenged, mail, answered>>

\* The late answer.
Answered(e) == [e EXCEPT !.unreachable = 0, !.late = FALSE]

Pong(p, a) ==
    /\ a \in DOMAIN world[p]
    /\ world[p][a].late
    /\ world' = [world EXCEPT ![p][a] = Answered(@)]
    /\ UNCHANGED <<runs, up, listed, admitted, challenged, mail, mishaps, answered, quiet>>

TrackerPong(p) ==
    /\ p \in DOMAIN listed
    /\ listed[p].late
    /\ listed' = [listed EXCEPT ![p] = Answered(@)]
    /\ UNCHANGED <<runs, up, world, admitted, challenged, mail, mishaps, answered, quiet>>

\* dfs_query of the tracker: does it list the address?
Reachable(a) == IF a \in DOMAIN listed THEN "yes" ELSE "no"

ReadQuery(p, a) ==
    /\ a \in DOMAIN world[p]
    /\ "asked" \in world[p][a].query
    /\ world' = [world EXCEPT ![p][a].query =
                    (@ \ {"asked"}) \cup {Reachable(a)}]
    /\ UNCHANGED <<runs, up, listed, admitted, challenged, mail, mishaps, answered, quiet>>

\* Variant: who is not listed is kept as a shadow.
RepliedKept(p, a, r) ==
    [world EXCEPT ![p][a].query = @ \ {r}, ![p][a].queried = FALSE,
                  ![p][a].shadow = TRUE, ![p][a].unreachable = 0]

\* dfs_query_reply: only an entry that is QUERIED is changed.
Replied(p, a, r) ==
    IF ~world[p][a].queried THEN [world EXCEPT ![p][a].query = @ \ {r}]
    ELSE IF r = "yes"
    THEN [world EXCEPT ![p][a].query = @ \ {r}, ![p][a].queried = FALSE,
                       ![p][a].shadow = TRUE, ![p][a].unreachable = 0]
    ELSE [world EXCEPT ![p] = Without(@, {a})]

ReadReply(p, a) ==
    /\ a \in DOMAIN world[p]
    /\ \E r \in world[p][a].query \ {"asked"} : world' = Replied(p, a, r)
    /\ quiet' = (quiet /\ (a \in DOMAIN listed => a \in DOMAIN world'[p]))
    /\ UNCHANGED <<runs, up, listed, admitted, challenged, mail, mishaps, answered>>

-----------------------------------------------------------------------------
Deliver == \E m \in mail : \/ ReadAnnounce(m) \/ ReadAuth(m) \/ ReadAnswer(m)
                           \/ ReadIntroduction(m)

Addresses == Peers \cup {Tracker}

WorldNext ==
    \/ \E p \in Peers : Start(p) \/ Stop(p) \/ TrackerPong(p)
    \/ \E p \in Peers, late \in BOOLEAN : Check(p, late)
    \/ TrackerRestart
    \/ \E late \in BOOLEAN : TrackerCheck(late)
    \/ Deliver
    \/ \E m \in mail : Lose(m)
    \/ \E p \in Peers, a \in Addresses :
          Pong(p, a) \/ ReadQuery(p, a) \/ ReadReply(p, a)

WorldSpec == WorldInit /\ [][WorldNext]_worldVars

\* Timers go off, and what was sent to a process that runs arrives.
WorldFairSpec ==
    /\ WorldSpec
    /\ WF_worldVars(Deliver)
    /\ WF_worldVars(TrackerCheck(FALSE))
    /\ \A p \in Peers : WF_worldVars(Check(p, FALSE))
    /\ \A p \in Peers : WF_worldVars(TrackerPong(p))
    /\ \A p \in Peers, a \in Addresses :
          /\ WF_worldVars(Pong(p, a))
          /\ WF_worldVars(ReadQuery(p, a))
          /\ WF_worldVars(ReadReply(p, a))

-----------------------------------------------------------------------------
(* Properties *)

\* The tracker holds a peer for authenticated only if it, or a peer that was
\* challenged with the same string in the same millisecond, has answered the very
\* challenge of this entry, not one of an earlier entry whose answer comes late,
\* after a restart of the peer, of the tracker, or of both.
AuthedByChallenge ==
    \A p \in DOMAIN listed :
        listed[p].authed =>
            \/ listed[p].auth \in answered[p]
            \/ \E q \in Peers \ {p} : listed[p].auth \in answered[q] \cap challenged[p] \cap challenged[q]

Meets(p, q) == q \in DOMAIN world[p] /\ p \in DOMAIN world[q]

\* Two peers that run come to list each other and the tracker, whatever the
\* order in which they start and their messages arrive.  Left out are a peer
\* that came back before the tracker missed it, two that were challenged in the
\* same millisecond, of which the second is not authenticated, and one that is introduced to
\* a peer that still lists it and then drops it, on an answer of the tracker
\* from before.
Meet ==
    \A p, q \in Keys :
        p # q /\ {p, q} \subseteq up
            ~> \/ Meets(p, q) /\ Tracker \in DOMAIN world[p]
               \/ ~({p, q} \subseteq up) \/ ~quiet

\* A peer that is gone for good is in the end dropped by the tracker and then
\* by the others, whatever queries and answers were under way.
GoneIsDropped ==
    \A q \in Peers :
        <>[](q \notin up) =>
            <>[](q \notin DOMAIN listed /\ \A p \in up : q \notin DOMAIN world[p])

=============================================================================
