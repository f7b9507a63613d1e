------------------------------- MODULE Control -------------------------------
(***************************************************************************)
(* The control endpoint of the daemon (daemon/control.go): the loop that   *)
(* binds it, the watchdog that notices that its socket has been removed,   *)
(* and the processes that call it.                                         *)
(*                                                                         *)
(* stage is where serveControl is, with serveControlOnce inlined.  Each    *)
(* round binds a socket of its own, numbered here by bound, and starts     *)
(* three kinds of goroutine: the watchdog, the one that closes the         *)
(* listener when the round is cancelled, and one per connection.  A round  *)
(* waits for its connections and its watchdog, and not for its closer.     *)
(*                                                                         *)
(* A command reads the address file for each call; the MCP server reads it *)
(* once, when it starts.  What a request does belongs to Receiver and      *)
(* Promotion, and is left out here.                                        *)
(***************************************************************************)
EXTENDS Naturals

CONSTANTS
    Callers,  \* processes that call the connector
    Keepers,  \* those that keep the first address they read: MCP servers
    Binds,    \* bound: endpoints that are bound
    Faults    \* bound: binds, writes and accepts that fail

ASSUME ControlAssumption ==
    /\ Keepers \subseteq Callers
    /\ Binds \in Nat \ {0}
    /\ Faults \in Nat

VARIABLES
    stage,    \* where serveControl is
    bound,    \* the endpoint bound last, or 0
    open,     \* the endpoints whose listener is open
    there,    \* the endpoints whose socket is in the file system
    addr,     \* the address file: the endpoint it names, or 0
    told,     \* the context of the daemon is cancelled
    stopped,  \* that of the present round is, beside it
    watchdog, \* "watching", "found" between its two last steps, "ended"
    vanished, \* the channel of that name is closed
    handlers, \* the callers whose connection has its goroutine
    call,     \* what each caller is doing
    path,     \* the endpoint whose address it read last, or 0
    faults    \* how often something failed

vars == <<stage, bound, open, there, addr, told, stopped, watchdog, vanished,
          handlers, call, path, faults>>

Stages == {"bind", "publish", "accept", "drain", "decide", "done", "failed"}
Endpoints == 1..Binds

(* The context of the round, derived from that of the daemon.              *)
Cancelled == told \/ stopped

Init ==
    /\ stage = "bind" /\ bound = 0
    /\ open = {} /\ there = {} /\ addr = 0
    /\ told = FALSE /\ stopped = FALSE
    /\ watchdog = "ended" /\ vanished = FALSE
    /\ handlers = {}
    /\ call = [k \in Callers |-> "idle"]
    /\ path = [k \in Callers |-> 0]
    /\ faults = 0

sockets == <<open, there>>
round == <<stopped, watchdog, vanished>>
callers == <<call, path>>

GoTo(s, t) == stage = s /\ stage' = t
Fault == faults < Faults /\ faults' = faults + 1

-----------------------------------------------------------------------------
(* serveControl and serveControlOnce.                                      *)

Bind ==
    /\ GoTo("bind", "publish")
    /\ bound < Binds
    /\ bound' = bound + 1
    /\ open' = open \cup {bound'} /\ there' = there \cup {bound'}
    /\ UNCHANGED <<addr, told, round, handlers, callers, faults>>

(* An error ends the loop, which removes the address file on its way out.  *)
BindFails ==
    /\ GoTo("bind", "failed")
    /\ Fault
    /\ addr' = 0
    /\ UNCHANGED <<bound, sockets, told, round, handlers, callers>>

(* An address that is written once, for the first round.                   *)
PublishFirst ==
    /\ GoTo("publish", "accept")
    /\ addr' = IF addr = 0 THEN bound ELSE addr
    /\ stopped' = FALSE /\ watchdog' = "watching" /\ vanished' = FALSE
    /\ UNCHANGED <<bound, sockets, told, handlers, callers, faults>>

(* The address is written, and the round begins.                           *)
Publish ==
    /\ GoTo("publish", "accept")
    /\ addr' = bound
    /\ stopped' = FALSE /\ watchdog' = "watching" /\ vanished' = FALSE
    /\ UNCHANGED <<bound, sockets, told, handlers, callers, faults>>

PublishFails ==
    /\ GoTo("publish", "failed")
    /\ Fault
    /\ open' = open \ {bound} /\ there' = there \ {bound}
    /\ addr' = 0
    /\ UNCHANGED <<bound, told, round, handlers, callers>>

Accept(k) ==
    /\ GoTo("accept", "accept")
    /\ call[k] = "queued" /\ path[k] = bound /\ bound \in open
    /\ k \notin handlers
    /\ call' = [call EXCEPT ![k] = "served"]
    /\ handlers' = handlers \cup {k}
    /\ UNCHANGED <<bound, sockets, addr, told, round, path, faults>>

(* Accept fails because the listener was closed ...                        *)
AcceptEnds ==
    /\ GoTo("accept", "drain")
    /\ bound \notin open
    /\ UNCHANGED <<bound, sockets, addr, told, round, handlers, callers, faults>>

(* ... or for a reason of its own, such as no descriptor being left.       *)
AcceptFails ==
    /\ GoTo("accept", "drain")
    /\ Fault
    /\ UNCHANGED <<bound, sockets, addr, told, round, handlers, callers>>

(* Connections left to themselves.                                         *)
DrainAtOnce ==
    /\ GoTo("drain", "decide")
    /\ stopped' = TRUE
    /\ UNCHANGED <<bound, sockets, addr, told, watchdog, vanished, handlers, callers, faults>>

(* The connections are waited for, and the round is cancelled.             *)
Drain ==
    /\ GoTo("drain", "decide")
    /\ handlers = {}
    /\ stopped' = TRUE
    /\ UNCHANGED <<bound, sockets, addr, told, watchdog, vanished, handlers, callers, faults>>

(* So is the watchdog.  The context looked at is that of the round, which  *)
(* has just been cancelled.                                                *)
Decide ==
    /\ stage = "decide"
    /\ watchdog = "ended"
    /\ stage' = IF vanished THEN IF told THEN "done" ELSE "bind"
                ELSE IF Cancelled THEN "done" ELSE "failed"
    /\ addr' = IF stage' = "bind" THEN addr ELSE 0
    /\ UNCHANGED <<bound, sockets, told, round, handlers, callers, faults>>

-----------------------------------------------------------------------------
(* The goroutines of a round.                                              *)

(* A watchdog that only cancels the round.                                 *)
WatchFindsSilently ==
    /\ watchdog = "watching"
    /\ bound \notin there
    /\ watchdog' = "found"
    /\ UNCHANGED <<stage, bound, sockets, addr, told, stopped, vanished, handlers, callers, faults>>

(* The watchdog finds the socket missing, which it may also do because the *)
(* closer was faster ...                                                   *)
WatchFinds ==
    /\ watchdog = "watching"
    /\ bound \notin there
    /\ watchdog' = "found" /\ vanished' = TRUE
    /\ UNCHANGED <<stage, bound, sockets, addr, told, stopped, handlers, callers, faults>>

(* ... and then cancels the round.                                         *)
WatchStops ==
    /\ watchdog = "found"
    /\ watchdog' = "ended" /\ stopped' = TRUE
    /\ UNCHANGED <<stage, bound, sockets, addr, told, vanished, handlers, callers, faults>>

WatchEnds ==
    /\ watchdog = "watching"
    /\ Cancelled
    /\ watchdog' = "ended"
    /\ UNCHANGED <<stage, bound, sockets, addr, told, stopped, vanished, handlers, callers, faults>>

(* A listener closed once the next one is there.                           *)
CloseReplaced(e) ==
    /\ e \in open
    /\ e < bound
    /\ open' = open \ {e} /\ there' = there \ {e}
    /\ UNCHANGED <<stage, bound, addr, told, round, handlers, callers, faults>>

(* The closer of a round.  Closing a listener removes its socket.  An      *)
(* earlier round is cancelled, whatever the present one is.                *)
CloseListener(e) ==
    /\ e \in open
    /\ e < bound \/ (stage \notin {"bind", "publish"} /\ Cancelled)
    /\ open' = open \ {e} /\ there' = there \ {e}
    /\ UNCHANGED <<stage, bound, addr, told, round, handlers, callers, faults>>

(* A connection's goroutine answers, ...                                   *)
Answer(k) ==
    /\ k \in handlers
    /\ call[k] = "served"
    /\ call' = [call EXCEPT ![k] = "answered"]
    /\ UNCHANGED <<stage, bound, sockets, addr, told, round, handlers, path, faults>>

(* ... and ends when the caller hangs up, as both do when their 30 seconds *)
(* have passed.                                                            *)
HandlerEnds(k) ==
    /\ k \in handlers
    /\ call[k] # "served"
    /\ handlers' = handlers \ {k}
    /\ UNCHANGED <<stage, bound, sockets, addr, told, round, callers, faults>>

-----------------------------------------------------------------------------
(* The world around it.                                                    *)

Cancel ==
    /\ ~ told
    /\ told' = TRUE
    /\ UNCHANGED <<stage, bound, sockets, addr, round, handlers, callers, faults>>

(* The runtime directory is cleaned, as long as endpoints are left to be   *)
(* bound in its place: a failing accept may cost one each, see WatchFinds. *)
SocketRemoved(e) ==
    /\ e \in there
    /\ e + Faults < Binds
    /\ there' = there \ {e}
    /\ UNCHANGED <<stage, bound, open, addr, told, round, handlers, callers, faults>>

(* A process that finds no address file reports that the connector does    *)
(* not appear to be running.                                               *)
DialControl(k) ==
    /\ call[k] = "idle"
    /\ k \notin Keepers \/ path[k] = 0
    /\ addr # 0
    /\ path' = [path EXCEPT ![k] = addr]
    /\ call' = [call EXCEPT ![k] = "dialling"]
    /\ UNCHANGED <<stage, bound, sockets, addr, told, round, handlers, faults>>

(* The next call of a process that has its address.                        *)
CallAgain(k) ==
    /\ call[k] = "idle"
    /\ k \in Keepers /\ path[k] # 0
    /\ call' = [call EXCEPT ![k] = "dialling"]
    /\ UNCHANGED <<stage, bound, sockets, addr, told, round, handlers, path, faults>>

Dial(k) ==
    /\ call[k] = "dialling"
    /\ call' = [call EXCEPT ![k] =
                  IF path[k] \in open \cap there THEN "queued" ELSE "idle"]
    /\ UNCHANGED <<stage, bound, sockets, addr, told, round, handlers, path, faults>>

(* A connection nobody accepted goes with its listener, ...                *)
Refused(k) ==
    /\ call[k] = "queued"
    /\ path[k] \notin open
    /\ call' = [call EXCEPT ![k] = "idle"]
    /\ UNCHANGED <<stage, bound, sockets, addr, told, round, handlers, path, faults>>

(* ... and a call is given up when its 30 seconds have passed.             *)
Expires(k) ==
    /\ call[k] \in {"queued", "served"}
    /\ call' = [call EXCEPT ![k] = "idle"]
    /\ UNCHANGED <<stage, bound, sockets, addr, told, round, handlers, path, faults>>

HangUp(k) ==
    /\ call[k] = "answered"
    /\ call' = [call EXCEPT ![k] = "idle"]
    /\ UNCHANGED <<stage, bound, sockets, addr, told, round, handlers, path, faults>>

-----------------------------------------------------------------------------
Serve ==
    \/ Bind \/ Publish \/ AcceptEnds \/ Drain \/ Decide
    \/ \E k \in Callers : Accept(k)

Watch == WatchFinds \/ WatchStops \/ WatchEnds

Next ==
    \/ Serve \/ Watch
    \/ BindFails \/ PublishFails \/ AcceptFails
    \/ Cancel
    \/ \E e \in Endpoints : CloseListener(e) \/ SocketRemoved(e)
    \/ \E k \in Callers :
          \/ Answer(k) \/ HandlerEnds(k)
          \/ DialControl(k) \/ CallAgain(k) \/ Dial(k)
          \/ Refused(k) \/ Expires(k) \/ HangUp(k)

Spec == Init /\ [][Next]_vars

(* The goroutines of the daemon run, and the watchdog looks again and      *)
(* again.  A process tries its call again until it has an answer, and      *)
(* its deadlines pass; a connection that waits to be accepted, or for its  *)
(* answer, again and again is not overlooked for ever.                     *)
FairSpec ==
    /\ Spec
    /\ WF_vars(Serve) /\ WF_vars(Watch)
    /\ \A e \in Endpoints : WF_vars(CloseListener(e))
    /\ \A k \in Callers :
          /\ SF_vars(Accept(k)) /\ SF_vars(Answer(k))
          /\ WF_vars(HandlerEnds(k))
          /\ WF_vars(DialControl(k)) /\ WF_vars(Dial(k))
          /\ WF_vars(Refused(k)) /\ WF_vars(Expires(k)) /\ WF_vars(HangUp(k))
-----------------------------------------------------------------------------
(* Properties.                                                             *)

(* The locals of serveControl, the sockets and the callers have the shapes *)
(* the code gives them.                                                    *)
Flags == told \in BOOLEAN /\ stopped \in BOOLEAN /\ vanished \in BOOLEAN

TypeOK ==
    /\ Flags
    /\ stage \in Stages
    /\ bound \in 0..Binds
    /\ open \subseteq 1..bound /\ there \subseteq open
    /\ addr \in 0..bound
    /\ watchdog \in {"watching", "found", "ended"}
    /\ handlers \subseteq Callers
    /\ call \in [Callers -> {"idle", "dialling", "queued", "served", "answered"}]
    /\ path \in [Callers -> 0..bound]
    /\ faults \in 0..Faults

(* control.go:144 and 147: whatever ended a round, another one is bound,   *)
(* or the loop left, only when every connection of the round and its       *)
(* watchdog have ended: no request is carried out for an endpoint that has *)
(* been replaced, nor after Run has stopped everything it started.         *)
OldIsQuiet ==
    /\ \A k \in handlers : path[k] = bound /\ stage \in {"accept", "drain"}
    /\ watchdog # "ended" => stage \in {"accept", "drain", "decide"}

(* control.go:75 and 169: the control endpoint is there until the context  *)
(* is cancelled.  A removed socket, found whenever and by whomever the     *)
(* listener is closed then, never ends the loop: the reason is recorded    *)
(* before anything it causes can be seen.                                  *)
AvailableUntilTold == stage \in {"done", "failed"} => told \/ faults > 0

(* control.go:173: the socket may be removed at any time, also while a     *)
(* command is between reading its address and dialling it.  A command that *)
(* is tried again is answered in the end, unless the daemon is being       *)
(* stopped or something else failed.                                       *)
CommandsGetThrough ==
    \A k \in Callers \ Keepers :
        (call[k] = "idle") ~> (call[k] = "answered" \/ told \/ faults > 0)

(* control.go:137: however the cancellation meets a removal, a failing     *)
(* Accept and open connections, serveControl returns, which Run waits for. *)
EndsWhenTold == told ~> (stage \in {"done", "failed"})

=============================================================================
