------------------------------- MODULE Relay -------------------------------
(***************************************************************************)
(* The relay server (internal/relay/server.go): who is connected, who is   *)
(* told about whom, and which envelope goes where.                         *)
(*                                                                         *)
(* Every connection is served by a goroutine of its own, so the state of   *)
(* that goroutine is kept per connection: pc[c] is the point of            *)
(* handleConnect it has reached.  The maps online and queued are guarded   *)
(* by Server.mu and the workspace store by its own lock, so one action is  *)
(* one critical section, one write to a socket, or one read from it, and   *)
(* everything between two of them can interleave with other goroutines.    *)
(*                                                                         *)
(* A connection is used once and always belongs to the member whose key    *)
(* answered the challenge, so MemberOf is a constant; an envelope has one  *)
(* recipient, so AddressedTo is one too.                                   *)
(***************************************************************************)
EXTENDS Naturals, Sequences, Functions

CONSTANTS
    Members,      \* people with a key, members of the workspace or not yet
    Founders,     \* those who are members when the relay starts
    Revocable,    \* members whose membership may be revoked: not the owner
    Conns,        \* connections, each accepted at most once
    MemberOf,     \* the member a connection belongs to
    Envelopes,    \* envelopes, each sent at most once
    AddressedTo,  \* the recipient an envelope names
    Sessions,     \* names of the sessions a member may expose
    Publishers,   \* connections whose connector reports sessions
    QueueLimit,   \* how many envelopes are held for one member
    None          \* no connection, or no roster

ASSUME RelayAssumption ==
    /\ Founders \subseteq Members
    /\ Revocable \subseteq Members
    /\ MemberOf \in [Conns -> Members]
    /\ AddressedTo \in [Envelopes -> Members]
    /\ Publishers \subseteq Conns
    /\ Members \cap Conns = {}
    /\ QueueLimit \in Nat \ {0}
    /\ None \notin Conns
    /\ None \notin Members

VARIABLES
    status,    \* store: the standing of each member
    shared,    \* store: the sessions the roster lists for each member
    online,    \* Server.online: the connection registered for each member
    queued,    \* Server.queued: the envelopes waiting for each member
    stale,     \* how many of those, from the front, are older than queueTTL
    link,      \* the socket of a connection, as its two ends know it
    pc,        \* where the goroutine of a connection is
    hand,      \* envelopes the goroutine holds outside the queues
    target,    \* the connection its envelope is about to be written to
    todo,      \* connections it still has to send a roster to
    snap,      \* the roster it has built but not written yet
    reported,  \* client.machineID has been learned
    view,      \* the last roster the peer of a connection was sent
    fate       \* history: what became of each envelope

vars == <<status, shared, online, queued, stale, link, pc, hand, target,
          todo, snap, reported, view, fate>>

Statuses == {"absent", "active", "revoked"}

(* "up": both ends hold the connection; "halfopen": the peer is gone and   *)
(* the relay has not noticed, so that a write still succeeds; "down": the  *)
(* relay's end is closed and every read or write of it fails.              *)
Links == {"unused", "up", "halfopen", "down"}
Writable(c) == link[c] \in {"up", "halfopen"}

(* sendRoster runs in three places, and is followed by a stage of its own  *)
(* in each: after registration, after sessions, and after unregistration.  *)
AfterRosters == [greet |-> "take", tell |-> "serve", farewell |-> "done"]
RosterStages == DOMAIN AfterRosters
AfterGather == [gatherTell |-> "tell", gatherFarewell |-> "farewell"]

Stages == {"idle", "auth", "register", "take", "flush", "putBack", "serve",
           "write", "enqueue", "unregister", "drop", "done"}
          \cup RosterStages \cup DOMAIN AfterGather

(* The stages in which a connection is the business of Server.online.      *)
Registered == {"greet", "take", "flush", "putBack", "serve", "write",
               "enqueue", "gatherTell", "tell", "unregister"}

Fates == {"unsent", "refused", "waiting", "handed",
          "evicted", "expired", "abandoned"}

(* A roster: the sessions listed for each member.  The names and standing  *)
(* of the members it also carries are left out.                            *)
Rosters == [Members -> SUBSET Sessions]

-----------------------------------------------------------------------------
(* What sendRoster reads from the store for connection c: the sessions of  *)
(* the active members other than the one asking.                           *)
RosterFor(c) ==
    [m \in Members |->
       IF status[m] = "active" /\ m # MemberOf[c] THEN shared[m] ELSE {}]

(* Goroutine c moves on from stage s to stage t.                           *)
GoTo(c, s, t) == pc[c] = s /\ pc' = [pc EXCEPT ![c] = t]

(* enqueue: at the limit the oldest envelope makes room.                   *)
Full(m) == Len(queued[m]) >= QueueLimit
Evicted(m) == IF Full(m) THEN {Head(queued[m])} ELSE {}

(* The new envelope turned away at the limit, instead of the oldest.       *)
EnqueueRefusing(m, e) ==
    /\ queued' = [queued EXCEPT ![m] = IF Full(m) THEN @ ELSE Append(@, e)]
    /\ UNCHANGED stale

Enqueue(m, e) ==
    /\ queued' = [queued EXCEPT ![m] = Append(IF Full(m) THEN Tail(@) ELSE @, e)]
    /\ stale' = [stale EXCEPT ![m] = IF Full(m) /\ @ > 0 THEN @ - 1 ELSE @]

(* The envelopes of S come to the end f.                                   *)
Settle(S, f) == [e \in Envelopes |-> IF e \in S THEN f ELSE fate[e]]

-----------------------------------------------------------------------------
Init ==
    /\ status = [m \in Members |-> IF m \in Founders THEN "active" ELSE "absent"]
    /\ shared = [m \in Members |-> {}]
    /\ online = [m \in Members |-> None]
    /\ queued = [m \in Members |-> <<>>]
    /\ stale = [m \in Members |-> 0]
    /\ link = [c \in Conns |-> "unused"]
    /\ pc = [c \in Conns |-> "idle"]
    /\ hand = [c \in Conns |-> <<>>]
    /\ target = [c \in Conns |-> None]
    /\ todo = [c \in Conns |-> {}]
    /\ snap = [c \in Conns |-> None]
    /\ reported = [c \in Conns |-> FALSE]
    /\ view = [c \in Conns |-> None]
    /\ fate = [e \in Envelopes |-> "unsent"]

-----------------------------------------------------------------------------
(* The world around the relay.                                             *)

store == <<status, shared>>
mail == <<queued, stale, fate>>
routing == <<hand, target>>
rosters == <<todo, snap, view>>

(* handleJoin redeems an invitation.  Nobody is told.                      *)
Join(m) ==
    /\ status[m] = "absent"
    /\ status' = [status EXCEPT ![m] = "active"]
    /\ UNCHANGED <<shared, online, link, pc, reported, mail, routing, rosters>>

(* The command line revokes a member in the store the relay reads; a       *)
(* connection the member has is left as it is.                             *)
Revoke(m) ==
    /\ status[m] = "active" /\ m \in Revocable
    /\ status' = [status EXCEPT ![m] = "revoked"]
    /\ shared' = [shared EXCEPT ![m] = {}]
    /\ UNCHANGED <<online, link, pc, reported, mail, routing, rosters>>

(* Time passes: some more of the oldest envelopes outlive queueTTL.        *)
Age(m) ==
    /\ stale[m] < Len(queued[m])
    /\ \E n \in (stale[m] + 1)..Len(queued[m]) : stale' = [stale EXCEPT ![m] = n]
    /\ UNCHANGED <<store, online, link, pc, reported, queued, fate, routing, rosters>>

(* The peer closes the connection, or vanishes without a word.             *)
Leave(c) ==
    /\ link[c] = "up"
    /\ \E l \in {"halfopen", "down"} : link' = [link EXCEPT ![c] = l]
    /\ UNCHANGED <<store, online, pc, reported, mail, routing, rosters>>

(* The relay learns that a vanished peer is gone: a read fails, or a write *)
(* times out and the library closes the socket.                            *)
Notice(c) ==
    /\ link[c] = "halfopen"
    /\ link' = [link EXCEPT ![c] = "down"]
    /\ UNCHANGED <<store, online, pc, reported, mail, routing, rosters>>

-----------------------------------------------------------------------------
(* From dialling to the read loop.                                         *)

(* handshake, up to the challenge: the key must be an active member's.  A  *)
(* connector has one connection at a time, so it dials after losing the    *)
(* one before.                                                             *)
Hello(c) ==
    /\ GoTo(c, "idle", "auth")
    /\ status[MemberOf[c]] = "active"
    /\ \A d \in Conns : MemberOf[d] = MemberOf[c] => link[d] # "up"
    /\ link' = [link EXCEPT ![c] = "up"]
    /\ UNCHANGED <<store, online, reported, mail, routing, rosters>>

(* The challenge is answered and the welcome written.                      *)
Auth(c) ==
    /\ GoTo(c, "auth", "register")
    /\ Writable(c)
    /\ UNCHANGED <<store, online, link, reported, mail, routing, rosters>>

(* It is not answered in handshakeTimeout, or not correctly.               *)
HandshakeFails(c) ==
    /\ GoTo(c, "auth", "done")
    /\ link' = [link EXCEPT ![c] = "down"]
    /\ UNCHANGED <<store, online, reported, mail, routing, rosters>>

(* register: one connection per member, and a newer one closes the older.  *)
Register(c) ==
    /\ GoTo(c, "register", "greet")
    /\ online' = [online EXCEPT ![MemberOf[c]] = c]
    /\ link' = [d \in Conns |-> IF d = online[MemberOf[c]] THEN "down" ELSE link[d]]
    /\ todo' = [todo EXCEPT ![c] = {c}]
    /\ UNCHANGED <<store, reported, mail, routing, snap, view>>

(* flushQueue takes the whole queue under the lock, and passes over what   *)
(* has been waiting for longer than queueTTL.                              *)
TakeQueue(c) ==
    LET m == MemberOf[c]
        fresh == SubSeq(queued[m], stale[m] + 1, Len(queued[m]))
    IN  /\ GoTo(c, "take", IF fresh = <<>> THEN "serve" ELSE "flush")
        /\ hand' = [hand EXCEPT ![c] = fresh]
        /\ queued' = [queued EXCEPT ![m] = <<>>]
        /\ stale' = [stale EXCEPT ![m] = 0]
        /\ fate' = Settle({queued[m][i] : i \in 1..stale[m]}, "expired")
        /\ UNCHANGED <<store, online, link, reported, target, rosters>>

(* The envelope written, and kept for the next round.                      *)
FlushRepeating(c) ==
    /\ pc[c] = "flush" /\ Writable(c)
    /\ fate' = Settle({Head(hand[c])}, "handed")
    /\ UNCHANGED <<store, online, link, reported, pc, hand, queued, stale, target, rosters>>

(* The next envelope of the queue is written to the peer.                  *)
FlushOne(c) ==
    /\ GoTo(c, "flush", IF Tail(hand[c]) = <<>> THEN "serve" ELSE "flush")
    /\ Writable(c)
    /\ fate' = Settle({Head(hand[c])}, "handed")
    /\ hand' = [hand EXCEPT ![c] = Tail(@)]
    /\ UNCHANGED <<store, online, link, reported, queued, stale, target, rosters>>

(* The write fails.                                                        *)
FlushFails(c) ==
    /\ GoTo(c, "flush", "putBack")
    /\ ~Writable(c)
    /\ UNCHANGED <<store, online, link, reported, mail, routing, rosters>>

(* The envelope whose write failed goes back to the queue, and flushQueue  *)
(* returns: those after it are in a local variable nobody reads again.     *)
PutBack(c) ==
    LET m == MemberOf[c]
    IN  /\ GoTo(c, "putBack", "serve")
        /\ Enqueue(m, Head(hand[c]))
        /\ fate' = [e \in Envelopes |->
                      IF e \in Evicted(m) THEN "evicted"
                      ELSE IF e \in Range(Tail(hand[c])) THEN "abandoned"
                      ELSE fate[e]]
        /\ hand' = [hand EXCEPT ![c] = <<>>]
        /\ UNCHANGED <<store, online, link, reported, target, rosters>>

-----------------------------------------------------------------------------
(* handleEnvelope.                                                         *)

(* An envelope is read.  A recipient who is not an active member is        *)
(* refused; for another one the registered connection is looked up.  The   *)
(* sender's own standing is not asked for.                                 *)
Send(c, e) ==
    LET r == AddressedTo[e]
    IN  /\ pc[c] = "serve" /\ Writable(c)
        /\ fate[e] = "unsent"
        /\ \/ /\ status[r] # "active"
              /\ fate' = Settle({e}, "refused")
              /\ UNCHANGED <<pc, routing>>
           \/ /\ status[r] = "active"
              /\ fate' = Settle({e}, "waiting")
              /\ hand' = [hand EXCEPT ![c] = <<e>>]
              /\ target' = [target EXCEPT ![c] = online[r]]
              /\ GoTo(c, "serve", IF online[r] = None THEN "enqueue" ELSE "write")
        /\ UNCHANGED <<store, online, link, reported, queued, stale, rosters>>

(* It is written to the connection that was looked up ...                  *)
Forward(c) ==
    /\ GoTo(c, "write", "serve")
    /\ Writable(target[c])
    /\ fate' = Settle({Head(hand[c])}, "handed")
    /\ hand' = [hand EXCEPT ![c] = <<>>]
    /\ target' = [target EXCEPT ![c] = None]
    /\ UNCHANGED <<store, online, link, reported, queued, stale, rosters>>

(* ... which may have gone away since.                                     *)
ForwardFails(c) ==
    /\ GoTo(c, "write", "enqueue")
    /\ ~Writable(target[c])
    /\ target' = [target EXCEPT ![c] = None]
    /\ UNCHANGED <<store, online, link, reported, mail, hand, rosters>>

(* The envelope queued under the name of whoever sent it.                  *)
EnqueueForSender(c) ==
    LET m == MemberOf[c]
    IN  /\ GoTo(c, "enqueue", "serve")
        /\ Enqueue(m, Head(hand[c]))
        /\ fate' = Settle(Evicted(m), "evicted")
        /\ hand' = [hand EXCEPT ![c] = <<>>]
        /\ UNCHANGED <<store, online, link, reported, target, rosters>>

EnqueueOne(c) ==
    LET e == Head(hand[c])
        m == AddressedTo[e]
    IN  /\ GoTo(c, "enqueue", "serve")
        /\ Enqueue(m, e)
        /\ fate' = Settle(Evicted(m), "evicted")
        /\ hand' = [hand EXCEPT ![c] = <<>>]
        /\ UNCHANGED <<store, online, link, reported, target, rosters>>

-----------------------------------------------------------------------------
(* Sessions and rosters.                                                   *)

(* The sessions recorded, and nobody told.                                 *)
PublishQuietly(c, S) ==
    /\ Writable(c) /\ pc[c] = "serve" /\ status[MemberOf[c]] = "active"
    /\ shared' = [shared EXCEPT ![MemberOf[c]] = S]
    /\ reported' = [reported EXCEPT ![c] = TRUE]
    /\ UNCHANGED <<status, online, link, pc, mail, routing, rosters>>

(* Whatever the member's standing is.                                      *)
PublishAnyway(c, S) ==
    LET m == MemberOf[c]
    IN  /\ Writable(c)
        /\ GoTo(c, "serve", "gatherTell")
        /\ shared' = [shared EXCEPT ![m] = S]
        /\ reported' = [reported EXCEPT ![c] = TRUE]
        /\ UNCHANGED <<status, online, link, mail, routing, rosters>>

(* handleSessions: ReplaceSessions, then the machine is remembered on the  *)
(* connection.  A member revoked meanwhile is refused and nothing happens. *)
Publish(c, S) ==
    LET m == MemberOf[c]
    IN  /\ Writable(c)
        /\ status[m] = "active"
        /\ GoTo(c, "serve", "gatherTell")
        /\ shared' = [shared EXCEPT ![m] = S]
        /\ reported' = [reported EXCEPT ![c] = TRUE]
        /\ UNCHANGED <<status, online, link, mail, routing, rosters>>

(* broadcastRoster copies the registered connections under the lock ...    *)
Gather(c) ==
    LET clients == {online[m] : m \in Members} \ {None}
        next == AfterGather[pc[c]]
    IN  /\ pc[c] \in DOMAIN AfterGather
        /\ todo' = [todo EXCEPT ![c] = clients]
        /\ pc' = [pc EXCEPT ![c] = IF clients = {} THEN AfterRosters[next] ELSE next]
        /\ UNCHANGED <<store, online, link, reported, mail, routing, snap, view>>

(* ... and sendRoster then reads the store for each of them in turn ...    *)
BuildRoster(c) ==
    /\ pc[c] \in RosterStages
    /\ snap[c] = None
    /\ \E d \in todo[c] :
         /\ snap' = [snap EXCEPT ![c] = [to |-> d, roster |-> RosterFor(d)]]
         /\ todo' = [todo EXCEPT ![c] = @ \ {d}]
    /\ UNCHANGED <<store, online, link, pc, reported, mail, routing, view>>

(* ... and writes what it read.  A write that fails is not looked at.      *)
WriteRoster(c) ==
    /\ pc[c] \in RosterStages
    /\ snap[c] # None
    /\ view' = [view EXCEPT ![snap[c].to] =
                  IF link[snap[c].to] = "up" THEN snap[c].roster ELSE @]
    /\ snap' = [snap EXCEPT ![c] = None]
    /\ pc' = [pc EXCEPT ![c] = IF todo[c] = {} THEN AfterRosters[@] ELSE @]
    /\ UNCHANGED <<store, online, link, reported, mail, routing, todo>>

-----------------------------------------------------------------------------
(* The end of a connection.                                                *)

(* A failed read tried again, for ever.                                    *)
ReadRetries(c) ==
    /\ GoTo(c, "serve", "serve")
    /\ ~Writable(c)
    /\ UNCHANGED <<store, online, link, reported, mail, routing, rosters>>

(* serve returns when a read fails.                                        *)
ReadFails(c) ==
    /\ GoTo(c, "serve", "unregister")
    /\ ~Writable(c)
    /\ UNCHANGED <<store, online, link, reported, mail, routing, rosters>>

(* The member's entry deleted whichever connection it names ...            *)
UnregisterMember(c) ==
    /\ GoTo(c, "unregister", "drop")
    /\ online' = [online EXCEPT ![MemberOf[c]] = None]
    /\ UNCHANGED <<store, link, reported, mail, routing, rosters>>

(* unregister forgets the connection unless a newer one has replaced it.   *)
Unregister(c) ==
    LET m == MemberOf[c]
    IN  /\ GoTo(c, "unregister", "drop")
        /\ online' = [online EXCEPT ![m] = IF @ = c THEN None ELSE @]
        /\ UNCHANGED <<store, link, reported, mail, routing, rosters>>

(* The machine of the connection left in the store.                        *)
DropNothing(c) ==
    /\ GoTo(c, "drop", "gatherFarewell")
    /\ UNCHANGED <<store, online, link, reported, mail, routing, rosters>>

(* It then drops the machine the connection reported, replaced or not.     *)
DropSessions(c) ==
    LET m == MemberOf[c]
    IN  /\ GoTo(c, "drop", "gatherFarewell")
        /\ shared' = [shared EXCEPT ![m] = IF reported[c] THEN {} ELSE @]
        /\ UNCHANGED <<status, online, link, reported, mail, routing, rosters>>

-----------------------------------------------------------------------------
(* What the goroutine of c does without anything from outside.             *)
Goroutine(c) ==
    \/ Register(c) \/ TakeQueue(c) \/ FlushOne(c) \/ FlushFails(c) \/ PutBack(c)
    \/ Forward(c) \/ ForwardFails(c) \/ EnqueueOne(c)
    \/ Gather(c) \/ BuildRoster(c) \/ WriteRoster(c)
    \/ ReadFails(c) \/ Unregister(c) \/ DropSessions(c)

Next ==
    \/ \E m \in Members : Join(m) \/ Revoke(m) \/ Age(m)
    \/ \E c \in Conns :
         \/ Leave(c) \/ Notice(c) \/ Hello(c) \/ Auth(c) \/ HandshakeFails(c)
         \/ Goroutine(c)
         \/ \E e \in Envelopes : Send(c, e)
    \/ \E c \in Publishers, S \in SUBSET Sessions : Publish(c, S)

Spec == Init /\ [][Next]_vars

(* A goroutine that can go on does, a handshake that is not answered times *)
(* out, and a peer that vanished is noticed.  Nothing makes a peer send,   *)
(* dial or leave.                                                          *)
FairSpec ==
    /\ Spec
    /\ \A c \in Conns : /\ WF_vars(Goroutine(c))
                        /\ WF_vars(Notice(c))
                        /\ WF_vars(Auth(c) \/ HandshakeFails(c))
(* A connector polls, and tells the relay what it exposes every time.      *)
ReportingSpec ==
    /\ FairSpec
    /\ \A c \in Publishers : WF_vars(\E S \in SUBSET Sessions : Publish(c, S))

-----------------------------------------------------------------------------
(* Properties.                                                             *)

Boxes == Members \cup Conns
Box(b) == IF b \in Members THEN queued[b] ELSE hand[b]
Held == UNION {Range(Box(b)) : b \in Boxes}
Ended(f) == {e \in Envelopes : fate[e] \in f}
Lost == Ended({"evicted", "expired", "abandoned"})

Shapes ==
    /\ status \in [Members -> Statuses]
    /\ shared \in [Members -> SUBSET Sessions]
    /\ online \in [Members -> Conns \cup {None}]
    /\ queued \in [Members -> Seq(Envelopes)]
    /\ stale \in [Members -> Nat]
    /\ link \in [Conns -> Links]
    /\ pc \in [Conns -> Stages]
    /\ hand \in [Conns -> Seq(Envelopes)]
    /\ target \in [Conns -> Conns \cup {None}]
    /\ todo \in [Conns -> SUBSET Conns]
    /\ snap \in [Conns -> {None} \cup [to : Conns, roster : Rosters]]
    /\ reported \in [Conns -> BOOLEAN]
    /\ view \in [Conns -> {None} \cup Rosters]
    /\ fate \in [Envelopes -> Fates]

(* The local variables of flushQueue and handleEnvelope are alive only     *)
(* while those run.                                                        *)
HandsFit ==
    \A c \in Conns :
        /\ hand[c] # <<>> <=> pc[c] \in {"flush", "putBack", "write", "enqueue"}
        /\ pc[c] \in {"write", "enqueue"} => Len(hand[c]) = 1
        /\ target[c] # None <=> pc[c] = "write"

(* The variables have the shapes the code gives them, and a goroutine      *)
(* holds envelopes or a target only where its local variables are alive.   *)
TypeOK == Shapes /\ HandsFit

(* enqueue never lets a queue grow past queueLimit, whichever goroutines   *)
(* put envelopes back into it while others forward to it.                  *)
QueueBounded == \A m \in Members : stale[m] <= Len(queued[m]) /\ Len(queued[m]) <= QueueLimit

(* An accepted envelope is in one place: taking a queue empties it, a      *)
(* failed write puts back what was not written, and nothing else copies.   *)
OneCopy ==
    \A a, b \in Boxes : \A i \in DOMAIN Box(a), j \in DOMAIN Box(b) :
        Box(a)[i] = Box(b)[j] => a = b /\ i = j

(* The relay holds exactly the envelopes it accepted and has neither       *)
(* handed over nor given up: none disappears without one of the reasons    *)
(* the code has for it, and none is still held after it was handed over.   *)
Accounted == Held = Ended({"waiting"})

(* An envelope waits, travels and is handed over on its recipient's        *)
(* account only, through both ways a failed write comes back to a queue.   *)
RightRecipient ==
    /\ \A m \in Members : \A e \in Range(queued[m]) : AddressedTo[e] = m
    /\ \A c \in Conns :
         /\ pc[c] \in {"flush", "putBack"} =>
              \A e \in Range(hand[c]) : AddressedTo[e] = MemberOf[c]
         /\ target[c] # None => MemberOf[target[c]] = AddressedTo[Head(hand[c])]

(* server.go:353: the map names exactly the connections envelopes are to   *)
(* be written to.  One past registration whose socket both ends still hold *)
(* is the one for its member, although the connection it replaced          *)
(* unregisters late; and no connection stays there, under any name, once   *)
(* its goroutine has gone past unregister.                                 *)
OnlineExact ==
    /\ \A c \in Conns : link[c] = "up" /\ pc[c] \in Registered => online[MemberOf[c]] = c
    /\ \A m \in Members : online[m] # None =>
           MemberOf[online[m]] = m /\ pc[online[m]] \in Registered

(* Sessions are listed only while a connection that reported them has yet  *)
(* to leave: a connector going away takes its sessions out of the store.   *)
NoOrphanSessions ==
    \A m \in Members : shared[m] # {} =>
        \E c \in Conns : /\ MemberOf[c] = m /\ reported[c]
                         /\ pc[c] \in Registered \cup {"drop"}

(* The workspace as the relay sees it: everybody has an invitation of      *)
(* their own, which is used once they are, or have been, a member.         *)
Kept == [created |-> Members,
         uses    |-> [m \in Members |-> IF status[m] = "absent" THEN 0 ELSE 1],
         status  |-> [m \in Members |-> IF status[m] = "absent" THEN "none" ELSE status[m]],
         exposed |-> {m \in Members : shared[m] # {}},
         settled |-> {}]

Store == INSTANCE Workspace
           WITH People <- Members, Invs <- Members, MaxUses <- [m \in Members |-> 1], ws <- Kept

(* server.go:219, 360, store.go:525: the goroutines of all connections,    *)
(* those of replaced ones included, people who join and the command line   *)
(* change the store by its own operations only.  So sessions are listed of *)
(* active members alone, although a connection outlives its membership and *)
(* reports until the end.                                                  *)
WorkspaceKept == [][Store!Next]_Kept

(* What the relay does with envelopes is what a mailbox may do.            *)
Promise == INSTANCE Mailbox WITH held <- Held, handed <- Ended({"handed"}), lost <- Lost
Mailbox == Promise!Spec

(* The goroutine of a connection whose socket is closed comes to an end,   *)
(* whatever it was doing, and with it the connection leaves the map.       *)
ClosedEnds == \A c \in Conns : (link[c] = "down") ~> (pc[c] = "done")

(* Rosters are built and written without a lock, so an older one can       *)
(* overtake a newer one; but once the sessions stop changing, the reports  *)
(* of a member that stays connected repair every roster it was sent.       *)
RostersConverge ==
    \A c \in Publishers : \A r \in Rosters :
        <>[](link[c] = "up" /\ status[MemberOf[c]] = "active" /\ RosterFor(c) = r)
            => <>[](view[c] = r)

-----------------------------------------------------------------------------
(* A statement of the source that the code does not keep.                  *)

(* server.go:297: "Put back what could not be sent, so a connection that   *)
(* drops mid flush does not lose the rest."                                *)
FlushKeepsTheRest == \A e \in Envelopes : fate[e] # "abandoned"
=============================================================================
