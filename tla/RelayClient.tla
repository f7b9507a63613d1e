---------------------------- MODULE RelayClient ----------------------------
(***************************************************************************)
(* The client of the relay (internal/transport/relay.go), which keeps one  *)
(* connection at a time and redials for ever.                              *)
(*                                                                         *)
(* Its goroutines are: keepConnected, which dials, publishes, reads and    *)
(* hands deliveries on (pc is the point it has reached); the daemon's      *)
(* poll, which calls Expose and in the end Close; the callers of Send; and *)
(* the daemon's routeInbound, which takes deliveries.  What RelayClient.mu *)
(* protects changes in one action per critical section; between looking a  *)
(* connection up and writing to it anything can happen.                    *)
(*                                                                         *)
(* The relay is the environment: it sends rosters and envelopes in any     *)
(* order, and keeps the last report of sessions it was sent.               *)
(***************************************************************************)
EXTENDS Naturals, Sequences, Functions

CONSTANTS
    People,        \* the other members of the workspace
    Sessions,      \* the sessions they may expose
    OwnerOf,       \* the member a session belongs to
    Exposures,     \* the lists of sessions this machine may expose
    Unexposed,     \* the one it starts with
    Senders,       \* goroutines that call Send
    Targets,       \* bound: the addresses they call it for
    InboxLimit,    \* capacity of the deliveries channel
    WireLimit,     \* bound: messages in flight from the relay
    DialLimit,     \* bound: connections that are dialled
    NumberLimit,   \* bound: calls of Send for one address
    Nothing        \* no report, or no message

ASSUME ClientAssumption ==
    /\ OwnerOf \in [Sessions -> People]
    /\ Sessions \cap People = {}
    /\ Targets \subseteq Sessions \cup People
    /\ Unexposed \in Exposures
    /\ Nothing \notin Exposures
    /\ Nothing \notin People
    /\ InboxLimit \in Nat \ {0}
    /\ WireLimit \in Nat
    /\ DialLimit \in Nat
    /\ NumberLimit \in Nat

VARIABLES
    pc,         \* where keepConnected is
    dialled,    \* how many connections have been dialled
    link,       \* the state of the latest one
    conn,       \* c.conn: the connection in use, by its number, or 0
    members,    \* c.members
    sessions,   \* c.sessions
    lastKnown,  \* c.lastKnown: the addresses in it
    exposed,    \* c.exposed
    seq,        \* c.seq
    health,     \* c.health
    wire,       \* messages from the relay that have not been read
    report,     \* what publishSessions is about to write
    published,  \* the last report the relay has of this connection
    pending,    \* the sender of the envelope being handed on
    deliveries, \* the channel: the senders of the messages in it
    replyTo,    \* daemon.replyTo: whom the daemon expects to be able to answer
    writing,    \* poll: the connection Expose is about to write to, or 0
    sending,    \* what each caller of Send is about to write
    written,    \* history: the numbers written for each address, in order
    life        \* "open", "cancelled" once Close began, "closed"

vars == <<pc, dialled, link, conn, members, sessions, lastKnown, exposed, seq,
          health, wire, report, published, pending, deliveries, replyTo,
          writing, sending, written, life>>

Stages == {"dial", "install", "healthy", "copy", "publish", "read", "deliver",
           "drop", "backoff", "stopped"}

(* An address is a session, or the member it reaches when it carries       *)
(* memberPrefix.                                                           *)
Addresses == Sessions \cup People
Owner(a) == IF a \in People THEN a ELSE OwnerOf[a]

Rosters == [kind : {"roster"}, peers : SUBSET Sessions]
Incoming == Rosters \cup [kind : {"envelope"}, from : People]

(* Only the latest connection can be up: runOnce closes its own.           *)
Up(k) == k = dialled /\ link = "up"

(* What Send can find an address in.                                       *)
Reachable == sessions \cup lastKnown

-----------------------------------------------------------------------------
Init ==
    /\ pc = "dial"
    /\ dialled = 0
    /\ link = "down"
    /\ conn = 0
    /\ members = {}
    /\ sessions = {}
    /\ lastKnown = {}
    /\ exposed = Unexposed
    /\ seq = [a \in Addresses |-> 0]
    /\ health = [connected |-> FALSE, ever |-> FALSE]
    /\ wire = <<>>
    /\ report = Nothing
    /\ published = Nothing
    /\ pending = Nothing
    /\ deliveries = <<>>
    /\ replyTo = {}
    /\ writing = 0
    /\ sending = [g \in Senders |-> Nothing]
    /\ written = [a \in Addresses |-> <<>>]
    /\ life = "open"

known == <<members, sessions, lastKnown>>
outward == <<exposed, published, writing>>
sends == <<seq, sending, written>>
inward == <<deliveries, replyTo>>

GoTo(s, t) == pc = s /\ pc' = t

-----------------------------------------------------------------------------
(* keepConnected and runOnce.                                              *)

(* The relay accepted the connection and welcomed this member; from here   *)
(* on it may send.                                                         *)
Dial ==
    /\ GoTo("dial", "install")
    /\ life = "open"
    /\ dialled < DialLimit
    /\ dialled' = dialled + 1
    /\ link' = "up"
    /\ UNCHANGED <<conn, health, wire, report, pending, life, known, outward, sends, inward>>

(* It could not be reached, refused, or did not answer in time.            *)
DialFails ==
    /\ GoTo("dial", "drop")
    /\ UNCHANGED <<dialled, link, conn, health, wire, report, pending, life,
                   known, outward, sends, inward>>

(* The connection is used from here on ...                                 *)
Install ==
    /\ GoTo("install", "healthy")
    /\ conn' = dialled
    /\ UNCHANGED <<dialled, link, health, wire, report, pending, life,
                   known, outward, sends, inward>>

(* ... and reported as healthy under another hold of the lock.             *)
Healthy ==
    /\ GoTo("healthy", "copy")
    /\ health' = [connected |-> TRUE, ever |-> TRUE]
    /\ UNCHANGED <<dialled, link, conn, wire, report, pending, life,
                   known, outward, sends, inward>>

(* publishSessions copies c.exposed under the lock ...                     *)
Copy ==
    /\ GoTo("copy", "publish")
    /\ report' = exposed
    /\ UNCHANGED <<dialled, link, conn, health, wire, pending, life,
                   known, outward, sends, inward>>

(* ... and writes it without.  A write that fails is logged.               *)
Publish ==
    /\ GoTo("publish", "read")
    /\ published' = IF link = "up" THEN report ELSE published
    /\ report' = Nothing
    /\ UNCHANGED <<dialled, link, conn, health, wire, pending, life,
                   exposed, writing, known, sends, inward>>

(* applyRoster replaces what is known by what the roster says.             *)
ApplyRoster ==
    /\ GoTo("read", "read")
    /\ wire # <<>> /\ Head(wire).kind = "roster"
    /\ members' = People
    /\ sessions' = Head(wire).peers
    /\ wire' = Tail(wire)
    /\ UNCHANGED <<dialled, link, conn, health, report, pending, life,
                   lastKnown, outward, sends, inward>>

(* A sender handed on without being remembered.                            *)
ApplyUnremembered ==
    /\ GoTo("read", "deliver")
    /\ wire # <<>> /\ Head(wire).kind = "envelope" /\ Head(wire).from \in members
    /\ pending' = Head(wire).from
    /\ wire' = Tail(wire)
    /\ UNCHANGED <<dialled, link, conn, health, report, life, known, outward, sends, inward>>

(* applyEnvelope: one from a stranger is dropped; the sender of any other  *)
(* can be answered from now on, and the message is handed on.              *)
ApplyEnvelope ==
    /\ pc = "read"
    /\ wire # <<>> /\ Head(wire).kind = "envelope"
    /\ LET p == Head(wire).from
       IN  \/ p \notin members /\ UNCHANGED <<pc, lastKnown, pending>>
           \/ /\ p \in members
              /\ pc' = "deliver"
              /\ lastKnown' = lastKnown \cup {p}
              /\ pending' = p
    /\ wire' = Tail(wire)
    /\ UNCHANGED <<dialled, link, conn, health, report, life,
                   members, sessions, outward, sends, inward>>

(* The channel waited for, whatever becomes of the context.                *)
DeliverOnly ==
    /\ GoTo("deliver", "read")
    /\ Len(deliveries) < InboxLimit
    /\ deliveries' = Append(deliveries, pending)
    /\ pending' = Nothing
    /\ UNCHANGED <<dialled, link, conn, health, wire, report, life,
                   replyTo, known, outward, sends>>

(* The channel has room, or the client is being closed.                    *)
Deliver ==
    /\ GoTo("deliver", "read")
    /\ \/ /\ Len(deliveries) < InboxLimit
          /\ deliveries' = Append(deliveries, pending)
       \/ /\ life # "open"
          /\ UNCHANGED deliveries
    /\ pending' = Nothing
    /\ UNCHANGED <<dialled, link, conn, health, wire, report, life,
                   replyTo, known, outward, sends>>

(* A read fails when the connection is gone or the context is cancelled;   *)
(* what had arrived and was not read is lost with it.                      *)
ReadFails ==
    /\ GoTo("read", "drop")
    /\ link = "down" \/ life # "open"
    /\ link' = "down"
    /\ wire' = <<>>
    /\ published' = Nothing
    /\ UNCHANGED <<dialled, conn, health, report, pending, life,
                   exposed, writing, known, sends, inward>>

(* runOnce has returned: nothing is reachable any more, and what the       *)
(* roster loses lastKnown keeps.                                           *)
Drop ==
    /\ GoTo("drop", "backoff")
    /\ life = "open"
    /\ conn' = 0
    /\ lastKnown' = lastKnown \cup sessions
    /\ sessions' = {}
    /\ health' = [health EXCEPT !.connected = FALSE]
    /\ UNCHANGED <<dialled, link, wire, report, pending, life, members,
                   outward, sends, inward>>

Retry ==
    /\ GoTo("backoff", "dial")
    /\ life = "open"
    /\ UNCHANGED <<dialled, link, conn, health, wire, report, pending, life,
                   known, outward, sends, inward>>

(* The cancelled context is looked at before a dial, after a connection    *)
(* and during the wait, and nothing is tidied up.                          *)
Stop ==
    /\ pc \in {"dial", "drop", "backoff"}
    /\ pc' = "stopped"
    /\ life # "open"
    /\ UNCHANGED <<dialled, link, conn, health, wire, report, pending, life,
                   known, outward, sends, inward>>

KeepConnected ==
    \/ Dial \/ DialFails \/ Install \/ Healthy \/ Copy \/ Publish
    \/ ApplyRoster \/ ApplyEnvelope \/ Deliver \/ ReadFails
    \/ Drop \/ Retry \/ Stop

-----------------------------------------------------------------------------
(* The daemon's poll: Expose, and in the end Close.                        *)

(* A list that did not change is not sent again.                           *)
ExposeChanges(x) ==
    /\ life = "open" /\ writing = 0
    /\ exposed' = x
    /\ writing' = IF x = exposed THEN 0 ELSE conn
    /\ UNCHANGED <<pc, dialled, link, conn, health, wire, report, pending, life,
                   published, known, sends, inward>>

Expose(x) ==
    /\ life = "open" /\ writing = 0
    /\ exposed' = x
    /\ writing' = conn
    /\ UNCHANGED <<pc, dialled, link, conn, health, wire, report, pending, life,
                   published, known, sends, inward>>

(* publishSessions, on the connection there was.  Nobody else changes      *)
(* c.exposed, so it writes what Expose just set.                           *)
ExposeWrite ==
    /\ writing # 0
    /\ published' = IF Up(writing) THEN exposed ELSE published
    /\ writing' = 0
    /\ UNCHANGED <<pc, dialled, link, conn, health, wire, report, pending, life,
                   exposed, known, sends, inward>>

(* Close cancels the context ...                                           *)
Close ==
    /\ life = "open" /\ writing = 0
    /\ life' = "cancelled"
    /\ UNCHANGED <<pc, dialled, link, conn, health, wire, report, pending,
                   known, outward, sends, inward>>

(* ... waits for keepConnected, and closes the channel.                    *)
Closed ==
    /\ life = "cancelled"
    /\ pc = "stopped"
    /\ life' = "closed"
    /\ UNCHANGED <<pc, dialled, link, conn, health, wire, report, pending,
                   known, outward, sends, inward>>

-----------------------------------------------------------------------------
(* Send.                                                                   *)

(* The number read with the rest, and stored once the envelope is written. *)
SendStoringLate(g, a) ==
    /\ sending[g] = Nothing
    /\ life # "closed"
    /\ seq[a] < NumberLimit
    /\ a \in Reachable /\ Owner(a) \in members /\ conn # 0
    /\ sending' = [sending EXCEPT ![g] = [to |-> a, number |-> seq[a] + 1, on |-> conn]]
    /\ seq' = [seq EXCEPT ![a] = Len(written[a])]
    /\ UNCHANGED <<pc, dialled, link, conn, health, wire, report, pending, life,
                   written, known, outward, inward>>

(* Everything is looked up, and the number taken, under one hold of the    *)
(* lock.  The number is gone even if the message is then refused.          *)
Send(g, a) ==
    /\ sending[g] = Nothing
    /\ life # "closed"
    /\ seq[a] < NumberLimit
    /\ seq' = [seq EXCEPT ![a] = @ + 1]
    /\ sending' = [sending EXCEPT ![g] =
                     IF a \in Reachable /\ Owner(a) \in members /\ conn # 0
                       THEN [to |-> a, number |-> seq[a] + 1, on |-> conn]
                       ELSE Nothing]
    /\ UNCHANGED <<pc, dialled, link, conn, health, wire, report, pending, life,
                   written, known, outward, inward>>

(* The sealed envelope is written to the connection there was, if it is    *)
(* still there.                                                            *)
SendWrite(g) ==
    LET s == sending[g]
    IN  /\ s # Nothing
        /\ written' = IF Up(s.on) THEN [written EXCEPT ![s.to] = Append(@, s.number)]
                                  ELSE written
        /\ sending' = [sending EXCEPT ![g] = Nothing]
        /\ UNCHANGED <<pc, dialled, link, conn, health, wire, report, pending, life,
                       seq, known, outward, inward>>

-----------------------------------------------------------------------------
(* The world around the client.                                            *)

(* routeInbound takes a message and remembers how to answer it.            *)
Take ==
    /\ deliveries # <<>>
    /\ replyTo' = replyTo \cup {Head(deliveries)}
    /\ deliveries' = Tail(deliveries)
    /\ UNCHANGED <<pc, dialled, link, conn, health, wire, report, pending, life,
                   known, outward, sends>>

(* The relay writes to the connection: rosters, and envelopes which may    *)
(* come before the first of them.                                          *)
RelaySends(msg) ==
    /\ link = "up"
    /\ Len(wire) < WireLimit
    /\ wire' = Append(wire, msg)
    /\ UNCHANGED <<pc, dialled, link, conn, health, report, pending, life,
                   known, outward, sends, inward>>

(* The connection is lost, and the relay drops what it had reported.       *)
LinkDrops ==
    /\ link = "up"
    /\ link' = "down"
    /\ published' = Nothing
    /\ UNCHANGED <<pc, dialled, conn, health, wire, report, pending, life,
                   exposed, writing, known, sends, inward>>

-----------------------------------------------------------------------------
Next ==
    \/ KeepConnected
    \/ \E x \in Exposures : Expose(x)
    \/ ExposeWrite \/ Close \/ Closed
    \/ \E g \in Senders : SendWrite(g) \/ \E a \in Targets : Send(g, a)
    \/ Take \/ LinkDrops
    \/ \E msg \in Incoming : RelaySends(msg)

Spec == Init /\ [][Next]_vars

(* keepConnected runs, and the consumer takes deliveries while the client  *)
(* is open.  The daemon polls: it calls Expose again even if its           *)
(* list is still the same.  A read whose context is cancelled has its      *)
(* connection closed by the library, so it fails in the end, whatever the  *)
(* relay goes on sending.                                                  *)
FairSpec ==
    /\ Spec
    /\ WF_vars(KeepConnected)
    /\ SF_vars(ReadFails)
    /\ WF_vars(life = "open" /\ Take)
    /\ WF_vars(Expose(exposed))
    /\ WF_vars(ExposeWrite)
    /\ WF_vars(Closed)

-----------------------------------------------------------------------------
(* Properties.                                                             *)

(* The fields of the client, and the locals of its goroutines, have the    *)
(* shapes the code gives them.                                             *)
TypeOK ==
    /\ pc \in Stages
    /\ dialled \in 0..DialLimit
    /\ link \in {"up", "down"}
    /\ conn \in {0, dialled}
    /\ members \in {{}, People}
    /\ sessions \subseteq Sessions
    /\ lastKnown \subseteq Addresses
    /\ exposed \in Exposures
    /\ seq \in [Addresses -> 0..NumberLimit]
    /\ health \in [connected : BOOLEAN, ever : BOOLEAN]
    /\ wire \in Seq(Incoming)
    /\ report \in Exposures \cup {Nothing}
    /\ published \in Exposures \cup {Nothing}
    /\ pending \in People \cup {Nothing}
    /\ deliveries \in Seq(People) /\ Len(deliveries) <= InboxLimit
    /\ replyTo \subseteq People
    /\ writing \in 0..DialLimit
    /\ sending \in [Senders -> {Nothing} \cup
                      [to : Addresses, number : 1..NumberLimit, on : 1..DialLimit]]
    /\ written \in [Addresses -> Seq(1..NumberLimit)]
    /\ life \in {"open", "cancelled", "closed"}

(* relay.go:206: two sends never take the same number for one address, in  *)
(* whatever order they are written, across reconnects.                     *)
NumbersDistinct ==
    \A a \in Addresses : \A i, j \in DOMAIN written[a] :
        written[a][i] = written[a][j] => i = j

(* relay.go:565: whoever sent a message can be sent one back: the daemon   *)
(* never remembers a sender the client could not address, be it connected  *)
(* or not.                                                                 *)
SendersAnswerable ==
    replyTo \cup Range(deliveries) \subseteq Reachable \cap members

(* relay.go:293 and 590: a lost connection is dialled again for as long as *)
(* the client lives, and once Close was called it returns, even though     *)
(* keepConnected may be handing on a delivery nobody takes any more.       *)
RedialsOrCloses ==
    (life = "cancelled" \/ (link = "down" /\ dialled > 0))
        ~> (life = "closed" \/ (life = "open" /\ pc = "dial"))

(* Expose and the report after a dial are written without a lock, so the   *)
(* older one can come last; but once the daemon's list has settled and the *)
(* connection stays, the relay ends up with that list.                     *)
ReportsConverge ==
    \A x \in Exposures :
        <>[](exposed = x /\ link = "up" /\ conn = dialled /\ life = "open")
            => <>[](published = x)

=============================================================================
