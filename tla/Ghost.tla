------------------------------- MODULE Ghost -------------------------------
(***************************************************************************)
(* One ghost process: ghost/ghost.go, with its inbox (ccpeer/inbox.go) and *)
(* what its heartbeat does to its record (ccpeer/registry.go).             *)
(*                                                                         *)
(* Its goroutines are Run itself (main is the point it has reached), the   *)
(* one that accepts connections and one for each of them, the forwarder of *)
(* frames, the heartbeat, and the reader of commands.  The parent is the   *)
(* daemon at the other end of standard input and output; the sessions of   *)
(* this machine connect.  Writing an event takes a lock, so a write is one *)
(* action that waits for room in the pipe.                                 *)
(***************************************************************************)
EXTENDS Naturals

CONSTANTS
    Conns,       \* connections sessions may open
    InboxLimit,  \* capacity of Inbox.frames
    PipeLimit,   \* events the pipe to the parent holds
    Arrivals     \* bound: frames that arrive

ASSUME GhostAssumption ==
    /\ InboxLimit \in Nat \ {0}
    /\ PipeLimit \in Nat \ {0}
    /\ Arrivals \in Nat

VARIABLES
    main,       \* where Run is
    endpoint,   \* the listener: "none", "bound", "closed"
    removed,    \* the socket file was removed from outside
    record,     \* the record is in the session directory
    kept,       \* history: removing the record failed
    cancelled,  \* the context of serve
    conn,       \* each connection
    inbox,      \* how many frames are in Inbox.frames
    accepting,  \* Inbox.frames is open: accept has not returned
    deaf,       \* Accept has failed with the listener open
    forwarder,  \* where the forwarder is
    heart,      \* where the heartbeat is
    control,    \* where the reader of commands is
    eof,        \* standard input is closed
    pipe,       \* how many events are in standard output
    broken,     \* nobody is at the other end of it
    received,   \* history: frames put into Inbox.frames
    forwarded,  \* history: frames written to standard output
    alarm       \* history: the parent was told the endpoint is gone

vars == <<main, endpoint, removed, record, kept, cancelled, conn, inbox, accepting,
          deaf, forwarder, heart, control, eof, pipe, broken, received, forwarded,
          alarm>>

MainStages == {"waiting", "bind", "publish", "key", "report", "serve", "closing",
               "forwarding", "beating", "withdraw", "unwind", "unwinding",
               "done", "killed"}

sessions == <<conn, inbox, accepting, deaf, received>>
parent == <<eof, broken>>
output == <<pipe, forwarded, alarm>>
files == <<endpoint, removed, record, kept>>
helpers == <<forwarder, heart, control>>

(* The process runs; goroutines that are not waited for outlast Run.       *)
Alive == main # "killed"
GoTo(s, t) == main = s /\ main' = t

Room == ~broken /\ pipe < PipeLimit

Init ==
    /\ main = "waiting"
    /\ endpoint = "none" /\ removed = FALSE /\ record = FALSE /\ kept = FALSE
    /\ cancelled = FALSE
    /\ conn = [c \in Conns |-> "none"]
    /\ inbox = 0 /\ accepting = FALSE /\ deaf = FALSE
    /\ forwarder = "off" /\ heart = "off" /\ control = "off"
    /\ eof = FALSE /\ pipe = 0 /\ broken = FALSE
    /\ received = 0 /\ forwarded = 0 /\ alarm = FALSE

-----------------------------------------------------------------------------
(* Run.                                                                    *)

(* init arrives, or standard input ends without it.                        *)
ReadInit ==
    /\ GoTo("waiting", "bind") \/ (GoTo("waiting", "done") /\ eof)
    /\ UNCHANGED <<files, cancelled, sessions, helpers, parent, output>>

(* The endpoint is bound before there is a record that names it.           *)
Listen ==
    /\ \/ GoTo("bind", "publish") /\ endpoint' = "bound" /\ accepting' = TRUE
       \/ GoTo("bind", "done") /\ UNCHANGED <<endpoint, accepting>>
    /\ UNCHANGED <<removed, record, kept, cancelled, conn, inbox, deaf, received, helpers,
                   parent, output>>

(* The record is removed; a failure to is logged, if at all, and removing  *)
(* it is not tried again.                                                  *)
Remove ==
    \/ record' = FALSE /\ UNCHANGED kept
    \/ kept' = TRUE /\ UNCHANGED record

(* The record is written, and the key after it.  Either can fail, and the  *)
(* record goes again when the key does.                                    *)
Publish ==
    /\ \/ GoTo("publish", "key") /\ record' = TRUE /\ UNCHANGED kept
       \/ GoTo("publish", "unwind") /\ UNCHANGED <<record, kept>>
       \/ GoTo("key", "report") /\ UNCHANGED <<record, kept>>
       \/ GoTo("key", "unwind") /\ Remove
    /\ UNCHANGED <<endpoint, removed, cancelled, sessions, helpers, parent, output>>

(* Once the parent knows, serve starts its goroutines.                     *)
Report ==
    /\ GoTo("report", "serve")
    /\ Room
    /\ pipe' = pipe + 1
    /\ forwarder' = "take" /\ heart' = "wait" /\ control' = "read"
    /\ UNCHANGED <<files, cancelled, sessions, parent, forwarded, alarm>>

(* The record left to the sweep when there is nobody to report to.         *)
ReportFailsLeaving ==
    /\ GoTo("report", "unwind")
    /\ broken
    /\ UNCHANGED <<files, cancelled, sessions, helpers, parent, output>>

(* Nobody to report to: the deferred calls withdraw and close the inbox.   *)
ReportFails ==
    /\ GoTo("report", "unwind")
    /\ broken
    /\ Remove
    /\ UNCHANGED <<endpoint, removed, cancelled, sessions, helpers, parent, output>>

Unwind ==
    /\ \/ GoTo("unwind", "unwinding") /\ endpoint' = "closed"
       \/ GoTo("unwinding", "done") /\ ~accepting /\ UNCHANGED endpoint
    /\ UNCHANGED <<removed, record, kept, cancelled, sessions, helpers, parent, output>>

(* serve stops when its context is cancelled or the commands end: nothing  *)
(* more is accepted, ...                                                   *)
Select ==
    /\ GoTo("serve", "closing")
    /\ cancelled \/ control = "done"
    /\ cancelled' = TRUE
    /\ endpoint' = "closed"
    /\ UNCHANGED <<removed, record, kept, sessions, helpers, parent, output>>

(* ... and one after the other the connections, ...                        *)
InboxClosed ==
    /\ GoTo("closing", "forwarding")
    /\ ~accepting
    /\ UNCHANGED <<files, cancelled, sessions, helpers, parent, output>>

(* The forwarder not waited for.                                           *)
ForwarderSkipped ==
    /\ GoTo("forwarding", "beating")
    /\ UNCHANGED <<files, cancelled, sessions, helpers, parent, output>>

(* ... the forwarder ...                                                   *)
ForwarderDone ==
    /\ GoTo("forwarding", "beating")
    /\ forwarder = "done"
    /\ UNCHANGED <<files, cancelled, sessions, helpers, parent, output>>

(* The heartbeat not waited for.                                           *)
HeartbeatSkipped ==
    /\ GoTo("beating", "withdraw")
    /\ UNCHANGED <<files, cancelled, sessions, helpers, parent, output>>

(* ... and the heartbeat are waited for.                                   *)
HeartbeatDone ==
    /\ GoTo("beating", "withdraw")
    /\ heart = "done"
    /\ UNCHANGED <<files, cancelled, sessions, helpers, parent, output>>

(* Only then is the record removed.                                        *)
Withdraw ==
    /\ GoTo("withdraw", "done")
    /\ Remove
    /\ UNCHANGED <<endpoint, removed, cancelled, sessions, helpers, parent, output>>

Run ==
    \/ ReadInit \/ Listen \/ Publish \/ Report \/ ReportFails \/ Unwind
    \/ Select \/ InboxClosed \/ ForwarderDone \/ HeartbeatDone \/ Withdraw

-----------------------------------------------------------------------------
(* The reader of commands.                                                 *)
Commands ==
    /\ Alive /\ control = "read" /\ eof
    /\ control' = "done"
    /\ UNCHANGED <<main, files, cancelled, sessions, forwarder, heart, parent, output>>

(* The parent tells it to stop, or a signal does (main.go:35).              *)
ShutdownCommand ==
    /\ Alive /\ control = "read" /\ ~eof
    /\ cancelled' = TRUE
    /\ UNCHANGED <<main, files, sessions, helpers, parent, output>>

-----------------------------------------------------------------------------
(* The forwarder.                                                          *)
Take ==
    /\ Alive /\ forwarder = "take"
    /\ \/ inbox > 0 /\ inbox' = inbox - 1 /\ forwarder' = "write"
       \/ inbox = 0 /\ ~accepting /\ forwarder' = "done" /\ UNCHANGED inbox
    /\ UNCHANGED <<main, files, cancelled, conn, accepting, deaf, received, heart, control,
                   parent, output>>

(* A frame that cannot be written ends the forwarder.                      *)
Forward ==
    /\ Alive /\ forwarder = "write"
    /\ \/ /\ Room
          /\ pipe' = pipe + 1 /\ forwarded' = forwarded + 1
          /\ forwarder' = "take"
       \/ /\ broken
          /\ forwarder' = "done"
          /\ UNCHANGED <<pipe, forwarded>>
    /\ UNCHANGED <<main, files, cancelled, sessions, heart, control, parent, alarm>>

-----------------------------------------------------------------------------
(* The heartbeat.                                                          *)

Beat(s, t) == Alive /\ heart = s /\ heart' = t

(* The timer fires, or the context is seen to be cancelled; and the        *)
(* endpoint is looked at.                                                  *)
Tick ==
    /\ \/ Beat("wait", "update") /\ endpoint = "bound" /\ ~removed
       \/ Beat("wait", "gone") /\ (endpoint # "bound" \/ removed)
       \/ Beat("wait", "done") /\ cancelled
    /\ UNCHANGED <<main, files, cancelled, sessions, forwarder, control, parent, output>>

(* The record written again, or not if that fails.                         *)
Update ==
    /\ Beat("update", "wait")
    /\ record' \in {TRUE, record}
    /\ UNCHANGED <<main, endpoint, removed, kept, cancelled, sessions, forwarder, control,
                   parent, output>>

(* A shutdown closes the endpoint too, and cancels the context before.     *)
Gone ==
    /\ \/ Beat("gone", "done") /\ cancelled
       \/ Beat("gone", "report") /\ ~cancelled
    /\ UNCHANGED <<main, files, cancelled, sessions, forwarder, control, parent, output>>

(* The parent is told before the context is cancelled.                     *)
GiveUp ==
    /\ \/ Beat("report", "cancel") /\ Room /\ pipe' = pipe + 1 /\ alarm' = TRUE
       \/ Beat("report", "cancel") /\ broken /\ UNCHANGED <<pipe, alarm>>
    /\ UNCHANGED <<main, files, cancelled, sessions, forwarder, control, parent, forwarded>>

(* The end of the heartbeat only.                                          *)
GiveUpQuietly ==
    /\ Beat("cancel", "done")
    /\ UNCHANGED <<main, files, cancelled, sessions, forwarder, control, parent, output>>

CancelServe ==
    /\ Beat("cancel", "done")
    /\ cancelled' = TRUE
    /\ UNCHANGED <<main, files, sessions, forwarder, control, parent, output>>

Heartbeat == Tick \/ Update \/ Gone \/ GiveUp \/ CancelServe

-----------------------------------------------------------------------------
(* The inbox.                                                              *)

(* A session connects, as long as it finds the record and the socket.      *)
Accept(c) ==
    /\ Alive /\ conn[c] = "none" /\ record
    /\ endpoint = "bound" /\ ~removed /\ ~deaf
    /\ conn' = [conn EXCEPT ![c] = "reading"]
    /\ UNCHANGED <<main, files, cancelled, inbox, accepting, deaf, received, helpers,
                   parent, output>>

(* A frame arrives, ...                                                    *)
Receive(c) ==
    /\ Alive /\ conn[c] = "reading"
    /\ received < Arrivals
    /\ conn' = [conn EXCEPT ![c] = "sending"]
    /\ UNCHANGED <<main, files, cancelled, inbox, accepting, deaf, received, helpers,
                   parent, output>>

(* ... and is put into the channel when it has room.                       *)
Offer(c) ==
    /\ Alive /\ conn[c] = "sending"
    /\ inbox < InboxLimit
    /\ inbox' = inbox + 1
    /\ received' = received + 1
    /\ conn' = [conn EXCEPT ![c] = "reading"]
    /\ UNCHANGED <<main, files, cancelled, accepting, deaf, helpers, parent, output>>

(* The session closes its connection, or is refused.                       *)
Hangup(c) ==
    /\ Alive /\ conn[c] = "reading"
    /\ conn' = [conn EXCEPT ![c] = "closed"]
    /\ UNCHANGED <<main, files, cancelled, inbox, accepting, deaf, received, helpers,
                   parent, output>>

(* Accept fails on its own, which is logged: nobody is accepted any more,  *)
(* and nobody but accept knows.                                            *)
AcceptFails ==
    /\ Alive /\ accepting /\ ~deaf /\ endpoint = "bound"
    /\ deaf' = TRUE
    /\ UNCHANGED <<main, files, cancelled, conn, inbox, accepting, received, helpers,
                   parent, output>>

(* The listener is closed or failed, and every connection has ended:       *)
(* accept closes the channel.                                              *)
AcceptEnds ==
    /\ Alive /\ accepting /\ (endpoint = "closed" \/ deaf)
    /\ \A c \in Conns : conn[c] \in {"none", "closed"}
    /\ accepting' = FALSE
    /\ UNCHANGED <<main, files, cancelled, conn, inbox, deaf, received, helpers, parent, output>>

-----------------------------------------------------------------------------
(* The world around the ghost.                                             *)

(* The socket file disappears, as it may on Unix.                          *)
EndpointRemoved ==
    /\ endpoint = "bound" /\ ~removed
    /\ removed' = TRUE
    /\ UNCHANGED <<main, endpoint, record, kept, cancelled, sessions, helpers, parent, output>>

ParentCloses ==
    /\ ~eof /\ eof' = TRUE
    /\ UNCHANGED <<main, files, cancelled, sessions, helpers, broken, output>>

ParentReads ==
    /\ ~broken /\ pipe > 0
    /\ pipe' = pipe - 1
    /\ UNCHANGED <<main, files, cancelled, sessions, helpers, parent, forwarded, alarm>>

ParentDies ==
    /\ ~broken
    /\ broken' = TRUE /\ eof' = TRUE
    /\ UNCHANGED <<main, files, cancelled, sessions, helpers, output>>

(* Writing to a broken standard output can end the process, by a signal.   *)
KilledWriting ==
    /\ Alive /\ main # "done" /\ broken
    /\ main = "report" \/ forwarder = "write" \/ heart = "report"
    /\ main' = "killed"
    /\ UNCHANGED <<files, cancelled, sessions, helpers, parent, output>>

World ==
    \/ EndpointRemoved \/ AcceptFails
    \/ ParentCloses \/ ParentDies \/ KilledWriting \/ ShutdownCommand

-----------------------------------------------------------------------------
Next ==
    \/ Run \/ Commands \/ Take \/ Forward \/ Heartbeat \/ AcceptEnds \/ ParentReads
    \/ \E c \in Conns : Accept(c) \/ Receive(c) \/ Offer(c) \/ Hangup(c)
    \/ World

Spec == Init /\ [][Next]_vars

(* Every goroutine runs, the timer of the heartbeat fires, the parent      *)
(* reads, and a session closes its connection, as inbox.go:144 says it     *)
(* does: with what it is still going to send sent.                         *)
FairSpec ==
    /\ Spec
    /\ WF_vars(Run) /\ WF_vars(Commands) /\ WF_vars(Take) /\ WF_vars(Forward)
    /\ WF_vars(Heartbeat) /\ WF_vars(AcceptEnds) /\ WF_vars(ParentReads)
    /\ \A c \in Conns : WF_vars(Offer(c)) /\ SF_vars(Hangup(c))

-----------------------------------------------------------------------------
(* Properties.                                                             *)

(* Run's and its goroutines' stages, and the counters, are what the code   *)
(* gives them, and no channel or pipe holds more than its capacity.        *)
Flags ==
    /\ removed \in BOOLEAN /\ record \in BOOLEAN /\ cancelled \in BOOLEAN
    /\ accepting \in BOOLEAN /\ eof \in BOOLEAN /\ broken \in BOOLEAN
    /\ alarm \in BOOLEAN /\ kept \in BOOLEAN /\ deaf \in BOOLEAN

TypeOK ==
    /\ Flags
    /\ main \in MainStages
    /\ endpoint \in {"none", "bound", "closed"}
    /\ conn \in [Conns -> {"none", "reading", "sending", "closed"}]
    /\ inbox \in 0..InboxLimit
    /\ pipe \in 0..PipeLimit
    /\ forwarder \in {"off", "take", "write", "done"}
    /\ heart \in {"off", "wait", "update", "gone", "report", "cancel", "done"}
    /\ control \in {"off", "read", "done"}
    /\ received \in Nat /\ forwarded \in 0..received

(* ghost.go:45 and 254: the heartbeat looks at the endpoint and writes the *)
(* record while Run removes both.  It never brings the record back once    *)
(* Run has returned, however Run ends, if it was removed (registry.go:315  *)
(* can fail); and it never tells the parent of a shutdown that the         *)
(* endpoint was removed.                                                   *)
HeartbeatHarmless == (main = "done" /\ record => kept) /\ (alarm => removed)

(* ghost.go:215: a frame that was accepted has been written before the     *)
(* ghost removes its record, unless the parent is gone.                    *)
FramesForwarded ==
    main \in {"withdraw", "done"} /\ heart # "off" /\ ~broken => forwarded = received

(* ghost.go:28 and 227: a ghost that serves stops when its standard input  *)
(* ends, and when its endpoint was removed, so that it can be replaced; as *)
(* long as the parent goes on reading.                                     *)
Stops ==
    (main = "serve" /\ (eof \/ removed)) ~> (main \in {"done", "killed"} \/ broken)

(* The ghost implements what Supervisor takes a child process to do.       *)
state ==
    CASE main = "waiting" -> "new"
      [] main \in {"bind", "publish"} -> "init"
      [] main \in {"key", "report"} -> "published"
      [] main = "serve" -> "ready"
      [] main \in {"closing", "forwarding", "beating", "withdraw"} -> "stopping"
      [] main = "killed" -> "killed"
      [] OTHER -> IF kept THEN "left" ELSE "dead"

Peer == INSTANCE NativePeer
Promise == Peer!Spec
=============================================================================
