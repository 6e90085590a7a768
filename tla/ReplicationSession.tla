------------------------- MODULE ReplicationSession -------------------------
(***************************************************************************)
(* Replication between an authority and one replica: the AuthoritySession  *)
(* that captures its world, tells the replica what enters and leaves its   *)
(* interest and sends it diffs against the last state it acknowledged, and *)
(* the ReplicaSession that rebuilds those states, over a connection that   *)
(* loses snapshots, lets them and the reliable messages overtake each      *)
(* other, and may drop and be dialled again.                               *)
(*                                                                         *)
(* An instance is its network id, and its fields are one value.  A state   *)
(* is a function from ids to values; the checksum is the state it is of.   *)
(* Which instances are near the replica's character is an input.  A        *)
(* session's receive is one step for every message it polls.               *)
(***************************************************************************)
EXTENDS Naturals, Sequences, SequencesExt

CONSTANTS Ent,           \* network ids, never given twice
          Value,         \* what an instance's fields may hold
          StateHistory,  \* how many states, and sends, either end remembers
          Ordered,       \* whether one ordered stream carries everything
          MaxTick, MaxWire, MaxChanges, MaxConns  \* bounds: sends, messages in
                         \* flight, changes of the authority's world, connections

ASSUME SessionAssumption ==
    /\ IsFiniteSet(Ent) /\ IsFiniteSet(Value) /\ StateHistory \in Nat \ {0}
    /\ Ordered \in BOOLEAN
    /\ MaxTick \in Nat /\ MaxWire \in Nat /\ MaxChanges \in Nat /\ MaxConns \in Nat \ {0}

Conn == 1..MaxConns

VARIABLES
    world, born, near,   \* the instances there are, with their fields; those there
                         \* have been; those the replica should be sent
    tick, history,       \* m_tick; m_history
    peers,               \* m_peers, by connection
    users, nextUser,     \* m_identities, by token; m_nextUserId
    rep,                 \* the ReplicaSession
    up, wire, acks,      \* whether its connection stands; what is on its way to the
                         \* replica; what is on its way to the authority
    changes, calm        \* history: changes made; sends, since the last change or
                         \* loss, made when everything sent before had arrived

authority == <<tick, history, peers, users, nextUser>>
network   == <<up, wire, acks>>
scene     == <<world, born, near>>
vars == <<scene, authority, rep, network, changes, calm>>

Nobody  == [there |-> FALSE, welcomed |-> FALSE, user |-> 0, acked |-> 0,
            known |-> {}, interest |-> <<>>]
Arrived == [Nobody EXCEPT !.there = TRUE]
Empty   == [e \in {} |-> 0]

Init ==
    /\ world = Empty /\ born = {} /\ near \in SUBSET Ent
    /\ tick = 0 /\ history = <<>> /\ peers = [c \in Conn |-> Nobody]
    /\ users = {} /\ nextUser = 2
    /\ rep = [conn |-> 0, welcomed |-> FALSE, lost |-> TRUE, joined |-> FALSE, token |-> 0,
              locals |-> {}, departed |-> {}, states |-> <<>>, applied |-> 0, written |-> Empty]
    /\ up = FALSE /\ wire = <<>> /\ acks = <<>>
    /\ changes = 0 /\ calm = 0

Only(f, S)  == [e \in DOMAIN f \cap S |-> f[e]]
Newest(s)   == IF Len(s) <= StateHistory THEN s
               ELSE SubSeq(s, Len(s) - StateHistory + 1, Len(s))
Holds(s, t) == \E i \in DOMAIN s : s[i].tick = t
At(s, t)    == s[CHOOSE i \in DOMAIN s : s[i].tick = t]

-----------------------------------------------------------------------------
(* The authority's world.                                                  *)

Changed == changes < MaxChanges /\ changes' = changes + 1 /\ calm' = 0
Beside(v) == /\ UNCHANGED <<authority, rep, network>> /\ UNCHANGED v

\* A script makes an instance or writes to one ...
Write(e, v) ==
    /\ Changed /\ (e \in DOMAIN world => world[e] # v) /\ (e \notin DOMAIN world => e \notin born)
    /\ world' = [x \in DOMAIN world \cup {e} |-> IF x = e THEN v ELSE world[x]]
    /\ born' = born \cup {e}
    /\ Beside(near)
\* ... or destroys one.
Destroy(e) ==
    /\ Changed /\ e \in DOMAIN world
    /\ world' = Only(world, DOMAIN world \ {e})
    /\ Beside(<<born, near>>)
\* Something comes near the replica's character, or goes away from it.
Approach(e) ==
    /\ Changed /\ near' = (near \cup {e}) \ (near \cap {e})
    /\ Beside(<<world, born>>)

-----------------------------------------------------------------------------
(* The connection.                                                         *)

Quiet == UNCHANGED <<scene, changes>>

\* The replica dials, for the first time or again (redial); both ends learn of
\* the connection, and the replica says hello with the token it has.
Dial ==
    /\ rep.lost /\ ~up /\ rep.conn < MaxConns
    /\ up' = TRUE /\ wire' = <<>> /\ acks' = <<[type |-> "Hello", token |-> rep.token]>>
    /\ rep' = [rep EXCEPT !.conn = @ + 1, !.lost = FALSE, !.welcomed = FALSE]
    /\ peers' = [peers EXCEPT ![rep.conn + 1] = Arrived]
    /\ calm' = 0
    /\ UNCHANGED <<tick, history, users, nextUser>> /\ Quiet

\* The connection breaks: what was on its way is lost.  The replica, which has
\* nothing more to receive, learns of it here ...
Break ==
    /\ up /\ up' = FALSE /\ wire' = <<>> /\ acks' = <<>> /\ calm' = 0
    /\ rep' = [rep EXCEPT !.lost = TRUE, !.welcomed = FALSE]
    /\ UNCHANGED authority /\ Quiet
\* ... and the authority in its own time, before the replica is back or after.
AuthorityHears(c) ==
    /\ peers[c].there /\ ~(up /\ c = rep.conn)
    /\ peers' = [peers EXCEPT ![c] = Nobody]
    /\ UNCHANGED <<tick, history, users, nextUser, rep, network, calm>> /\ Quiet

Reliable(msg) == msg.type # "Snapshot"
\* Messages of one channel arrive in order, the channels in any; the transport of
\* the tests lets snapshots overtake each other too.
Deliverable(i) ==
    IF Ordered THEN i = 1
    ELSE Reliable(wire[i]) => \A j \in 1..(i - 1) : ~Reliable(wire[j])

\* Only snapshots are lost.
Lose(i) ==
    /\ ~Reliable(wire[i]) /\ wire' = RemoveAt(wire, i) /\ calm' = 0
    /\ UNCHANGED <<authority, rep, up, acks>> /\ Quiet

-----------------------------------------------------------------------------
(* AuthoritySession::receive                                               *)

\* A token this authority gave is the same player again, and a connection that
\* still holds that player is let go; anything else is a new player.
Stale(c, user) == {d \in Conn \ {c} : peers[d].welcomed /\ peers[d].user = user}
Hello(token) ==
    LET c     == rep.conn
        again == token \in users
        user  == IF again THEN token ELSE nextUser
        stale == Stale(c, user)
    IN  /\ peers' = [d \in Conn |-> IF d \in stale THEN Nobody
                                    ELSE IF d = c THEN [peers[d] EXCEPT !.welcomed = TRUE, !.user = user]
                                    ELSE peers[d]]
        /\ users' = users \cup {user} /\ nextUser' = IF again THEN nextUser ELSE nextUser + 1
        /\ wire' = Append(wire, [type |-> "Welcome", user |-> user])

Acked(t) ==
    /\ peers' = [peers EXCEPT ![rep.conn].acked = IF t > @ THEN t ELSE @]
    /\ UNCHANGED <<users, nextUser, wire>>

AuthorityReceive ==
    /\ acks # <<>> /\ acks' = Tail(acks)
    /\ peers[rep.conn].there
    /\ LET msg == Head(acks) IN \/ msg.type = "Hello" /\ ~peers[rep.conn].welcomed /\ Hello(msg.token)
                                \/ msg.type = "Ack" /\ Acked(msg.tick)
    /\ UNCHANGED <<tick, history, rep, up, calm>> /\ Quiet

-----------------------------------------------------------------------------
(* AuthoritySession::send: capture, then sendTo every welcomed peer.       *)

\* The state a peer's next snapshot is diffed against: what was captured at the
\* tick it acknowledged, cut to what it was told of then.
Baseline(p, hist, interest) ==
    IF p.acked # 0 /\ Holds(hist, p.acked) /\ Holds(interest, p.acked)
    THEN [tick |-> p.acked, ents |-> Only(At(hist, p.acked).ents, At(interest, p.acked).ids)]
    ELSE [tick |-> 0, ents |-> Empty]

\* Whole if it enters now or the baseline has not got it, else if it changed.
Records(base, now, entering) ==
    LET whole == {e \in DOMAIN now : e \in entering \/ e \notin DOMAIN base}
    IN  [e \in {x \in DOMAIN now : x \in whole \/ base[x] # now[x]} |->
            [full |-> e \in whole, v |-> now[e]]]

Told(p, t, now) ==
    [p EXCEPT !.known = DOMAIN now,
              !.interest = Newest(Append(@, [tick |-> t, ids |-> DOMAIN now]))]

\* Despawns, spawns, then the snapshot.
SentTo(p, t, now, hist) ==
    LET entering == DOMAIN now \ p.known
        leaving  == p.known \ DOMAIN now
        base     == Baseline(p, hist, Told(p, t, now).interest)
    IN  (IF leaving = {} THEN <<>> ELSE <<[type |-> "Despawn", ids |-> leaving]>>)
        \o (IF entering = {} THEN <<>> ELSE <<[type |-> "Spawn", ids |-> entering]>>)
        \o <<[type |-> "Snapshot", tick |-> t, base |-> base.tick,
              records |-> Records(base.ents, now, entering), checksum |-> now]>>

Send ==
    LET now  == Only(world, near)
        hist == Newest(Append(history, [tick |-> tick + 1, ents |-> world]))
        c    == rep.conn
    IN  /\ tick < MaxTick /\ Len(wire) < MaxWire
        /\ tick' = tick + 1 /\ history' = hist
        /\ peers' = [d \in Conn |-> IF peers[d].welcomed THEN Told(peers[d], tick + 1, now)
                                    ELSE peers[d]]
        /\ wire' = IF up /\ peers[c].welcomed THEN wire \o SentTo(peers[c], tick + 1, now, hist)
                   ELSE wire
        /\ calm' = IF up /\ rep.welcomed /\ wire = <<>> /\ acks = <<>>
                    THEN calm + (IF calm < StateHistory THEN 1 ELSE 0) ELSE 0
        /\ UNCHANGED <<users, nextUser, rep, up, acks>> /\ Quiet

-----------------------------------------------------------------------------
(* ReplicaSession::receive                                                 *)

\* Mutant of Welcome: the world of the lost connection is kept.
WelcomeBack(user) == rep' = [rep EXCEPT !.joined = TRUE, !.welcomed = TRUE, !.token = user]

\* A welcome after a lost connection starts the world again (resetForRejoin).
Welcome(user) ==
    rep' = [(IF rep.joined THEN [rep EXCEPT !.locals = {}, !.departed = {}, !.states = <<>>,
                                            !.applied = 0, !.written = Empty]
             ELSE rep) EXCEPT !.joined = TRUE, !.welcomed = TRUE, !.token = user]

OnSpawn(ids) ==
    rep' = [rep EXCEPT !.departed = @ \ (ids \ rep.locals), !.locals = @ \cup ids]

\* Every remembered state, without them.
Scrubbed(ids) == [i \in DOMAIN rep.states |->
                     [rep.states[i] EXCEPT !.ents = Only(@, Ent \ ids)]]

\* Mutant of OnDespawn: the instance is forgotten and left in the world.
OnDespawnForgetting(ids) ==
    rep' = [rep EXCEPT !.departed = @ \cup ids, !.locals = @ \ ids,
                       !.states = Scrubbed(ids)]

\* forget: out of every remembered state too.
OnDespawn(ids) ==
    rep' = [rep EXCEPT !.departed = @ \cup ids, !.locals = @ \ ids,
                       !.written = Only(@, Ent \ ids),
                       !.states = Scrubbed(ids)]

\* onSnapshot.  A snapshot older than the world shows, against a baseline that
\* is not held, or with a diff of what the baseline has not got, is dropped; one
\* whose rebuilt state is not what the authority described is refused.
Rebuilt(base, records) ==
    Only([e \in DOMAIN base \cup DOMAIN records |->
              IF e \in DOMAIN records THEN records[e].v ELSE base[e]], Ent \ rep.departed)
Unbased(s)  == s.base # 0 /\ ~Holds(rep.states, s.base)
Against(s)  == IF s.base = 0 THEN Empty ELSE At(rep.states, s.base).ents
DiffOfNone(s) == \E e \in DOMAIN s.records : ~s.records[e].full /\ e \notin DOMAIN Against(s)
Described(s) == Rebuilt(Against(s), s.records) = s.checksum

\* Mutant of Unusable: a snapshot overtaken by another is applied.
UnusableIfUnbased(s) == Unbased(s) \/ DiffOfNone(s)
Unusable(s) == s.tick <= rep.applied \/ Unbased(s) \/ DiffOfNone(s)

\* Mutant of Shown: what the last state had already is not written.
ShownIfNew(ents) ==
    LET last == IF rep.states = <<>> THEN Empty ELSE Last(rep.states).ents
        new  == {e \in DOMAIN ents \cap rep.locals : e \notin DOMAIN last \/ last[e] # ents[e]}
    IN  [e \in DOMAIN rep.written \cup new |-> IF e \in new THEN ents[e] ELSE rep.written[e]]

\* applyToWorld: what has not been spawned yet is not shown.
Shown(ents) == [e \in DOMAIN rep.written \cup (DOMAIN ents \cap rep.locals) |->
                    IF e \in DOMAIN ents THEN ents[e] ELSE rep.written[e]]

OnSnapshot(s) ==
    IF Unusable(s) \/ ~Described(s) THEN UNCHANGED <<rep, acks>>
    ELSE /\ rep' = [rep EXCEPT !.states = Newest(Append(@, [tick |-> s.tick, ents |-> s.checksum])),
                               !.applied = s.tick, !.written = Shown(s.checksum)]
         /\ acks' = Append(acks, [type |-> "Ack", tick |-> s.tick])

ReplicaReceive(i) ==
    /\ up /\ Deliverable(i) /\ wire' = RemoveAt(wire, i)
    /\ LET msg == wire[i] IN
        \/ msg.type = "Welcome" /\ Welcome(msg.user) /\ UNCHANGED acks
        \/ msg.type = "Spawn" /\ OnSpawn(msg.ids) /\ UNCHANGED acks
        \/ msg.type = "Despawn" /\ OnDespawn(msg.ids) /\ UNCHANGED acks
        \/ msg.type = "Snapshot" /\ OnSnapshot(msg)
    /\ UNCHANGED <<authority, scene, up, changes, calm>>

Next ==
    \/ \E e \in Ent : (\E v \in Value : Write(e, v)) \/ Destroy(e) \/ Approach(e)
    \/ Dial \/ Break \/ (\E c \in Conn : AuthorityHears(c))
    \/ (\E i \in DOMAIN wire : Lose(i) \/ ReplicaReceive(i))
    \/ AuthorityReceive \/ Send
Spec == Init /\ [][Next]_vars

-----------------------------------------------------------------------------
States == UNION {[S -> Value] : S \in SUBSET Ent}
TypeOK ==
    /\ world \in States /\ DOMAIN world \subseteq born /\ near \subseteq Ent
    /\ tick \in 0..MaxTick /\ Len(history) <= StateHistory /\ Len(rep.states) <= StateHistory
    /\ \A c \in Conn : peers[c].known \subseteq Ent /\ Len(peers[c].interest) <= StateHistory
    /\ rep.locals \subseteq Ent /\ rep.written \in States /\ rep.applied <= tick

\* What a replica that has S has once it has received the reliable messages among
\* msgs, in their order.
Brings(msg, e) == msg.type = "Spawn" /\ e \in msg.ids
Takes(msg, e)  == msg.type = "Welcome" \/ (msg.type = "Despawn" /\ e \in msg.ids)
After(msgs, S) ==
    {e \in Ent : \/ /\ e \in S
                    /\ \A j \in DOMAIN msgs : ~Takes(msgs[j], e)
                 \/ \E i \in DOMAIN msgs :
                       /\ Brings(msgs[i], e)
                       /\ \A j \in DOMAIN msgs : j > i => ~Takes(msgs[j], e)}

\* What a welcomed peer is taken to know is what its replica has or is about to
\* be told, through every disconnection: nothing stale survives a rejoin to be
\* updated by nobody, and nothing is missing for good.
KnownIsTold ==
    up /\ peers[rep.conn].welcomed => After(wire, rep.locals) = peers[rep.conn].known

\* The world a replica shows is one state of the authority's, that of the tick it
\* applied last.  Where the channels overtake each other it may show an instance
\* besides whose despawn is on its way, or which has come back since: an older
\* snapshot, behind its second spawn, is applied to it.
OneMoment ==
    \A e \in DOMAIN rep.written : up /\ rep.welcomed /\ rep.states # <<>> =>
        LET last == Last(rep.states).ents
        IN  IF e \in DOMAIN last THEN rep.written[e] = last[e]
            ELSE /\ ~Ordered
                 /\ \/ \E i \in DOMAIN wire : wire[i].type = "Despawn" /\ e \in wire[i].ids
                    \/ e \in peers[rep.conn].known

\* One player has one connection, however it came back.
OneConnectionEach ==
    \A c, d \in Conn : peers[c].welcomed /\ peers[d].welcomed /\ peers[c].user = peers[d].user => c = d

\* What the authority keeps of its peers is true of them.
PeersExact == TypeOK /\ KnownIsTold /\ OneConnectionEach

\* After as many quiet sends as the history is long, the replica shows what the
\* authority has.
Converged == /\ rep.written = Only(world, near) /\ rep.locals = DOMAIN world \cap near
Recovers == calm >= StateHistory /\ wire = <<>> => Converged

\* A replica's world moves forward only, until a welcome starts it again.
NeverBack ==
    [][rep'.applied >= rep.applied \/ rep'.applied = 0]_vars

\* No snapshot is refused because the reconstruction did not match what the
\* authority described.
NoChecksumFailure ==
    \A i \in DOMAIN wire : Deliverable(i) /\ ~Reliable(wire[i]) =>
        Unusable(wire[i]) \/ Described(wire[i])

=============================================================================
