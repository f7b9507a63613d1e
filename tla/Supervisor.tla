----------------------------- MODULE Supervisor -----------------------------
(***************************************************************************)
(* The supervisor of the ghosts, the processes that stand for remote       *)
(* sessions on this machine: daemon/supervisor.go, the index of what they  *)
(* published in daemon/orphans.go, the part of Daemon.Run and reconcile    *)
(* that calls them, and what a ghost (ghost/ghost.go) does towards its     *)
(* parent.                                                                 *)
(*                                                                         *)
(* Each peer has a goroutine, keepAlive, which runs one ghost after the    *)
(* other (stage is the point it has reached, in runOnce or after it), a    *)
(* second one that reads the ghost's standard output into a channel, and   *)
(* the one os/exec starts to stop the process when the context is          *)
(* cancelled.  Daemon.poll calls Ensure, Release and Close; routeOutbound  *)
(* takes frames.  The daemon can die at any point and be started again,    *)
(* and so can a ghost; the number of a process that has been waited for    *)
(* can pass to another ghost, or to a process that is not ours.            *)
(***************************************************************************)
EXTENDS Naturals, Sequences, FiniteSets

CONSTANTS
    Peers,       \* the names of the native peers
    Pids,        \* process numbers
    EventLimit,  \* capacity of the channel a ghost's output is read into
    FrameLimit,  \* capacity of supervisor.frames
    PipeLimit,   \* events a pipe of the operating system holds
    GiveUpAfter, \* maxConsecutiveFailures
    Emissions,   \* bound: frames a ghost of each peer receives
    Starts,      \* bound: times the daemon is started
    Faults,      \* bound: writes of the orphan index that fail
    Nobody       \* no peer, or no process

ASSUME SupervisorAssumption ==
    /\ EventLimit \in Nat \ {0}
    /\ FrameLimit \in Nat \ {0}
    /\ PipeLimit \in Nat \ {0}
    /\ GiveUpAfter \in Nat \ {0}
    /\ Emissions \in [Peers -> Nat]
    /\ Starts \in Nat \ {0}
    /\ Faults \in Nat
    /\ Nobody \notin Peers \cup Pids

VARIABLES
    child,     \* what each process number stands for
    eof,       \* the ghosts whose standard input is closed
    records,   \* the processes with a record in the session directory
    index,     \* orphanIndex.entries
    saved,     \* the file of the orphan index
    todo,      \* Sweep: the entries it has yet to look at
    found,     \* Sweep: the number it has found dead, and is about to forget
    lost,      \* history: running ghosts whose daemon died with no entry in the file
    mistaken,  \* history: running ghosts forgotten by their number's former owner
    faults,    \* how many writes of the file have failed
    life,      \* the daemon: "sweeping", "open", "cancelled", "closing", "closed", "down"
    starts,    \* how often the daemon was started
    wanted,    \* supervisor.wanted
    cancelled, \* the peers whose context is cancelled
    releasing, \* the peer Release is waiting for
    stage,     \* where the goroutine of each peer is
    pid,       \* runOnce: the number of the process it runs, or ran
    ready,     \* peerState.ready, which is sawReady as well
    failures,  \* peerState.failures
    pipe,      \* the ghost's standard output
    events,    \* runOnce: the channel it is read into
    frames,    \* supervisor.frames: the peers the frames arrived at
    emitted,   \* history: frames written by the process runOnce runs
    pushed     \* history: those of them put into frames

vars == <<child, eof, records, index, saved, todo, found, lost, mistaken, faults, life,
          starts, wanted, cancelled, releasing, stage, pid, ready, failures, pipe,
          events, frames, emitted, pushed>>

(* What the daemon holds in memory, by who changes it.                     *)
calls == <<life, starts, wanted, releasing>>
process == <<child, eof, records>>
sweep == <<todo, found>>
orphans == <<index, saved, sweep, lost, mistaken, faults>>
counts == <<emitted, pushed>>

(* foreign is a session that is not ours, and late (history) is one that   *)
(* was given a number Sweep had just found dead.                           *)
ChildStates == {"dead", "new", "init", "published", "ready", "stopping", "foreign", "late"}
Ghosts == {"new", "init", "published", "ready", "stopping"}

Stages == {"none", "spawn", "track", "init", "abandon", "consume", "push",
           "drain", "forget", "ended", "backoff", "gone"}
Running == {"track", "init", "abandon", "consume", "push", "drain"}

Live(c) == child[c] \in Ghosts
Runs(p, c) == pid[p] = c /\ stage[p] \in Running
Attended(c) == \E p \in Peers : Runs(p, c)

Dies(c) ==
    /\ child' = [child EXCEPT ![c] = "dead"]
    /\ eof' = eof \ {c}

(* Closing the standard input of a process that is gone does nothing.      *)
CloseInput(p) == eof' = IF Live(pid[p]) THEN eof \cup {pid[p]} ELSE eof

(* The scanner has reached the end of the stream and closed the channel.   *)
ReaderDone(p) == child[pid[p]] = "dead" /\ pipe[p] = <<>>

-----------------------------------------------------------------------------
(* Memory of a daemon that has just been started.                          *)
Fresh ==
    /\ wanted' = {}
    /\ cancelled' = {}
    /\ releasing' = Nobody
    /\ stage' = [p \in Peers |-> "none"]
    /\ pid' = [p \in Peers |-> Nobody]
    /\ ready' = [p \in Peers |-> FALSE]
    /\ failures' = [p \in Peers |-> 0]
    /\ pipe' = [p \in Peers |-> <<>>]
    /\ events' = [p \in Peers |-> <<>>]
    /\ frames' = <<>>
    /\ emitted' = [p \in Peers |-> 0]
    /\ pushed' = [p \in Peers |-> 0]

Init ==
    /\ child = [c \in Pids |-> "dead"]
    /\ eof = {}
    /\ records = {}
    /\ index = {}
    /\ saved = {}
    /\ todo = {} /\ found = Nobody
    /\ lost = {} /\ mistaken = {}
    /\ faults = 0
    /\ life = "open"
    /\ starts = 1
    /\ wanted = {}
    /\ cancelled = {}
    /\ releasing = Nobody
    /\ stage = [p \in Peers |-> "none"]
    /\ pid = [p \in Peers |-> Nobody]
    /\ ready = [p \in Peers |-> FALSE]
    /\ failures = [p \in Peers |-> 0]
    /\ pipe = [p \in Peers |-> <<>>]
    /\ events = [p \in Peers |-> <<>>]
    /\ frames = <<>>
    /\ emitted = [p \in Peers |-> 0]
    /\ pushed = [p \in Peers |-> 0]

-----------------------------------------------------------------------------
(* The daemon as a whole.                                                  *)

(* The whole index is written to a file that then takes the old one's      *)
(* place; a write that fails is logged, if at all, and nothing is undone.  *)
Persist ==
    \/ saved' = index' /\ faults' = faults
    \/ faults < Faults /\ faults' = faults + 1 /\ saved' = saved

(* The index is loaded, and the sweep begins.                              *)
Start ==
    /\ life \in {"down", "closed"}
    /\ starts < Starts
    /\ starts' = starts + 1
    /\ life' = "sweeping"
    /\ index' = saved /\ todo' = saved
    /\ Fresh
    /\ UNCHANGED <<process, saved, found, lost, mistaken, faults>>

(* As SweepLooks, with no question asked.                                  *)
SweepTakes(c) ==
    /\ life = "sweeping"
    /\ c \in todo /\ found = Nobody
    /\ todo' = todo \ {c}
    /\ found' = c
    /\ UNCHANGED <<process, index, saved, lost, mistaken, faults, calls, cancelled, stage,
                   pid, ready, failures, pipe, events, frames, counts>>

(* A number that is in use, by whomever, is left alone and stays tracked.  *)
SweepLooks(c) ==
    /\ life = "sweeping"
    /\ c \in todo /\ found = Nobody
    /\ todo' = todo \ {c}
    /\ found' = IF child[c] = "dead" THEN c ELSE Nobody
    /\ UNCHANGED <<process, index, saved, lost, mistaken, faults, calls, cancelled, stage,
                   pid, ready, failures, pipe, events, frames, counts>>

(* The record of one that was not is removed, if it can be, whoever has    *)
(* the number by now; and it is forgotten.                                 *)
SweepRemoves ==
    /\ found # Nobody
    /\ records' \in {records, records \ {found}}
    /\ index' = index \ {found}
    /\ found' = Nobody
    /\ UNCHANGED <<child, eof, saved, todo, lost, mistaken, faults, calls, cancelled, stage,
                   pid, ready, failures, pipe, events, frames, counts>>

(* The file is written once, at the end.                                   *)
SweepEnds ==
    /\ life = "sweeping"
    /\ todo = {} /\ found = Nobody
    /\ life' = "open"
    /\ UNCHANGED index
    /\ Persist
    /\ UNCHANGED <<process, sweep, lost, mistaken, starts, wanted, cancelled, releasing,
                   stage, pid, ready, failures, pipe, events, frames, counts>>

(* The daemon dies.  Its end of every pipe is closed by that, and what the *)
(* file of the index does not say is known to nobody.                      *)
DaemonDies ==
    /\ life \in {"sweeping", "open", "cancelled", "closing"}
    /\ life' = "down"
    /\ eof' = {c \in Pids : Live(c)}
    /\ index' = saved
    /\ todo' = {} /\ found' = Nobody
    /\ lost' = lost \cup {c \in index \ saved : Live(c)}
    /\ Fresh
    /\ UNCHANGED <<child, records, saved, mistaken, faults, starts>>

(* The context of Run is cancelled, and with it that of every peer.        *)
Cancel ==
    /\ life = "open"
    /\ life' = "cancelled"
    /\ cancelled' = Peers
    /\ UNCHANGED <<process, orphans, starts, wanted, releasing, stage, pid, ready,
                   failures, pipe, events, frames, counts>>

(* poll has returned.                                                      *)
Close ==
    /\ life = "cancelled"
    /\ releasing = Nobody
    /\ life' = "closing"
    /\ UNCHANGED <<process, orphans, starts, wanted, cancelled, releasing, stage, pid,
                   ready, failures, pipe, events, frames, counts>>

(* The frames channel closed without waiting.                              *)
ClosedAtOnce ==
    /\ life = "closing"
    /\ life' = "closed"
    /\ UNCHANGED <<process, orphans, starts, wanted, cancelled, releasing, stage, pid,
                   ready, failures, pipe, events, frames, counts>>

(* Every goroutine has returned: the frames channel is closed.             *)
Closed ==
    /\ life = "closing"
    /\ \A p \in Peers : stage[p] \in {"none", "gone"}
    /\ life' = "closed"
    /\ UNCHANGED <<process, orphans, starts, wanted, cancelled, releasing, stage, pid,
                   ready, failures, pipe, events, frames, counts>>

(* A peer that is wanted, even one that was given up, is left as it is.    *)
Ensure(p) ==
    /\ life \in {"open", "cancelled"}
    /\ releasing = Nobody
    /\ p \notin wanted
    /\ wanted' = wanted \cup {p}
    /\ stage' = [stage EXCEPT ![p] = "spawn"]
    /\ cancelled' = IF life = "open" THEN cancelled \ {p} ELSE cancelled
    /\ ready' = [ready EXCEPT ![p] = FALSE]
    /\ failures' = [failures EXCEPT ![p] = 0]
    /\ UNCHANGED <<process, orphans, life, starts, releasing, pid, pipe, events, frames, counts>>

Release(p) ==
    /\ life \in {"open", "cancelled"}
    /\ releasing = Nobody
    /\ p \in wanted
    /\ wanted' = wanted \ {p}
    /\ cancelled' = cancelled \cup {p}
    /\ releasing' = p
    /\ UNCHANGED <<process, orphans, life, starts, stage, pid, ready, failures, pipe,
                   events, frames, counts>>

(* A release that does not wait for the goroutine.                         *)
ReleasedAtOnce ==
    /\ releasing # Nobody
    /\ stage' = [stage EXCEPT ![releasing] = "none"]
    /\ releasing' = Nobody
    /\ UNCHANGED <<process, orphans, life, starts, wanted, cancelled, pid, ready,
                   failures, pipe, events, frames, counts>>

(* The goroutine of the peer has returned, and so does Release; the        *)
(* peerState is nobody's any more.                                         *)
Released ==
    /\ releasing # Nobody
    /\ stage[releasing] = "gone"
    /\ stage' = [stage EXCEPT ![releasing] = "none"]
    /\ ready' = [ready EXCEPT ![releasing] = FALSE]
    /\ failures' = [failures EXCEPT ![releasing] = 0]
    /\ releasing' = Nobody
    /\ UNCHANGED <<process, orphans, life, starts, wanted, cancelled, pid, pipe, events,
                   frames, counts>>

-----------------------------------------------------------------------------
(* The goroutine of a peer.                                                *)

GoTo(p, s, t) == stage[p] = s /\ stage' = [stage EXCEPT ![p] = t]

(* A process is started.  os/exec starts none once the context is          *)
(* cancelled.                                                              *)
Spawn(p, c) ==
    /\ GoTo(p, "spawn", "track")
    /\ p \notin cancelled
    /\ child[c] = "dead" /\ ~Attended(c)
    /\ child' = [child EXCEPT ![c] = "new"]
    /\ pid' = [pid EXCEPT ![p] = c]
    /\ lost' = lost \ {c}
    /\ mistaken' = mistaken \ {c}
    /\ UNCHANGED <<eof, records, index, saved, sweep, faults, calls, cancelled, ready, failures,
                   pipe, events, frames, counts>>

SpawnFails(p) ==
    /\ GoTo(p, "spawn", "ended")
    /\ UNCHANGED <<process, orphans, calls, cancelled, pid, ready, failures, pipe,
                   events, frames, counts>>

(* The index left for later.                                               *)
TrackLater(p) ==
    /\ GoTo(p, "track", "init")
    /\ UNCHANGED <<process, orphans, calls, cancelled, pid, ready, failures, pipe,
                   events, frames, counts>>

(* The process is in the index before it is told to publish, and is told   *)
(* so even if the file could not be written.                               *)
Track(p) ==
    /\ GoTo(p, "track", "init")
    /\ index' = index \cup {pid[p]}
    /\ mistaken' = mistaken \ {pid[p]}
    /\ Persist
    /\ UNCHANGED <<sweep, lost, process, calls, cancelled, pid, ready, failures, pipe, events,
                   frames, counts>>

WriteInit(p) ==
    /\ GoTo(p, "init", "consume")
    /\ child[pid[p]] = "new" /\ pid[p] \notin eof
    /\ child' = [child EXCEPT ![pid[p]] = "init"]
    /\ UNCHANGED <<eof, records, orphans, calls, cancelled, pid, ready, failures, pipe,
                   events, frames, counts>>

WriteInitFails(p) ==
    /\ GoTo(p, "init", "abandon")
    /\ child[pid[p]] = "dead" \/ pid[p] \in eof
    /\ CloseInput(p)
    /\ UNCHANGED <<child, records, orphans, calls, cancelled, pid, ready, failures, pipe,
                   events, frames, counts>>

(* What was not told what to publish is waited for, and stays tracked.     *)
Abandon(p) ==
    /\ GoTo(p, "abandon", "ended")
    /\ child[pid[p]] = "dead"
    /\ pid' = [pid EXCEPT ![p] = Nobody]
    /\ UNCHANGED <<process, orphans, calls, cancelled, ready, failures, pipe, events,
                   frames, counts>>

(* An event dropped when the channel is full.                              *)
ReadDropping(p) ==
    /\ stage[p] \in {"consume", "push", "drain"}
    /\ pipe[p] # <<>>
    /\ events' = IF Len(events[p]) < EventLimit
                   THEN [events EXCEPT ![p] = Append(@, Head(pipe[p]))]
                   ELSE events
    /\ pipe' = [pipe EXCEPT ![p] = Tail(@)]
    /\ UNCHANGED <<process, orphans, calls, cancelled, stage, pid, ready, failures,
                   frames, counts>>

(* readEvents, which waits for room in the channel.                        *)
Read(p) ==
    /\ stage[p] \in {"consume", "push", "drain"}
    /\ pipe[p] # <<>>
    /\ Len(events[p]) < EventLimit
    /\ events' = [events EXCEPT ![p] = Append(@, Head(pipe[p]))]
    /\ pipe' = [pipe EXCEPT ![p] = Tail(@)]
    /\ UNCHANGED <<process, orphans, calls, cancelled, stage, pid, ready, failures,
                   frames, counts>>

TakeEvent(p, e) ==
    /\ events[p] # <<>> /\ Head(events[p]) = e
    /\ events' = [events EXCEPT ![p] = Tail(@)]

SeeReady(p) ==
    /\ GoTo(p, "consume", "consume")
    /\ TakeEvent(p, "ready")
    /\ ready' = [ready EXCEPT ![p] = TRUE]
    /\ UNCHANGED <<process, orphans, calls, cancelled, pid, failures, pipe, frames, counts>>

SeeFrame(p) ==
    /\ GoTo(p, "consume", "push")
    /\ TakeEvent(p, "frame")
    /\ UNCHANGED <<process, orphans, calls, cancelled, pid, ready, failures, pipe, frames, counts>>

SeeError(p) ==
    /\ GoTo(p, "consume", "consume")
    /\ TakeEvent(p, "error")
    /\ UNCHANGED <<process, orphans, calls, cancelled, pid, ready, failures, pipe, frames, counts>>

(* The frame is handed on when there is room, or dropped when the context  *)
(* is cancelled.                                                           *)
Push(p) ==
    /\ GoTo(p, "push", "consume")
    /\ \/ /\ Len(frames) < FrameLimit
          /\ frames' = Append(frames, p)
          /\ pushed' = [pushed EXCEPT ![p] = @ + 1]
       \/ /\ p \in cancelled
          /\ UNCHANGED <<frames, pushed>>
    /\ UNCHANGED <<process, orphans, calls, cancelled, pid, ready, failures, pipe,
                   events, emitted>>

(* The process has been waited for, and with that its number is free.      *)
Reap(p) ==
    /\ events' = [events EXCEPT ![p] = <<>>]
    /\ UNCHANGED <<process, orphans, calls, cancelled, pid, ready, failures, pipe, frames,
                   counts>>

(* The end of the stream looked at only before the ghost has reported.     *)
StreamEndsEarly(p) ==
    /\ GoTo(p, "consume", "forget")
    /\ ReaderDone(p) /\ events[p] = <<>> /\ ~ready[p]
    /\ Reap(p)

(* The channel of events is closed and empty.                              *)
StreamEnds(p) ==
    /\ GoTo(p, "consume", "forget")
    /\ ReaderDone(p) /\ events[p] = <<>>
    /\ Reap(p)

(* The ghost did not report in time, or its context is cancelled: standard *)
(* input is closed, and the reader is waited for.                          *)
Stopping(p) ==
    /\ GoTo(p, "consume", "drain")
    /\ ~ready[p] \/ p \in cancelled
    /\ CloseInput(p)
    /\ UNCHANGED <<child, records, orphans, calls, cancelled, pid, ready, failures, pipe,
                   events, frames, counts>>

(* What was still in the channel is dropped.                               *)
Drained(p) ==
    /\ GoTo(p, "drain", "forget")
    /\ ReaderDone(p)
    /\ Reap(p)

(* The number is forgotten, whoever has it by now, and runOnce returns.    *)
Forget(p) ==
    /\ GoTo(p, "forget", "ended")
    /\ index' = index \ {pid[p]}
    /\ Persist
    /\ mistaken' = mistaken \cup {c \in index \cap {pid[p]} : Live(c)}
    /\ pid' = [pid EXCEPT ![p] = Nobody]
    /\ UNCHANGED <<process, sweep, lost, calls, cancelled, ready, failures, pipe, events,
                   frames, counts>>

(* keepAlive after runOnce.  The failures start again after a healthy run, *)
(* however long that is.                                                   *)
Ended(p) ==
    /\ stage[p] = "ended"
    /\ emitted' = [emitted EXCEPT ![p] = 0]
    /\ pushed' = [pushed EXCEPT ![p] = 0]
    /\ \/ /\ p \in cancelled
          /\ stage' = [stage EXCEPT ![p] = "gone"]
          /\ UNCHANGED <<ready, failures>>
       \/ /\ p \notin cancelled
          /\ ready' = [ready EXCEPT ![p] = FALSE]
          /\ \E n \in {0, failures[p] + 1} :
               /\ failures' = [failures EXCEPT ![p] = n]
               /\ stage' = [stage EXCEPT ![p] = IF n >= GiveUpAfter THEN "gone" ELSE "backoff"]
    /\ UNCHANGED <<process, orphans, calls, cancelled, pid, pipe, events, frames>>

Retry(p) ==
    /\ stage[p] = "backoff"
    /\ \/ stage' = [stage EXCEPT ![p] = "spawn"]
       \/ p \in cancelled /\ stage' = [stage EXCEPT ![p] = "gone"]
    /\ UNCHANGED <<process, orphans, calls, cancelled, pid, ready, failures, pipe,
                   events, frames, counts>>

KeepAlive(p) ==
    \/ \E c \in Pids : Spawn(p, c)
    \/ SpawnFails(p) \/ Track(p) \/ WriteInit(p) \/ WriteInitFails(p) \/ Abandon(p)
    \/ SeeReady(p) \/ SeeFrame(p) \/ SeeError(p) \/ Push(p)
    \/ StreamEnds(p) \/ Stopping(p) \/ Drained(p) \/ Forget(p) \/ Ended(p) \/ Retry(p)

(* os/exec: the context is cancelled, so standard input is closed, and     *)
(* after WaitDelay the process is killed.                                  *)
Interrupt(p) ==
    /\ p \in cancelled /\ stage[p] \in Running
    /\ pid[p] \notin eof /\ Live(pid[p])
    /\ CloseInput(p)
    /\ UNCHANGED <<child, records, orphans, calls, cancelled, stage, pid, ready, failures,
                   pipe, events, frames, counts>>

(* os/exec without a WaitDelay, which kills nothing.                       *)
KillNever(p) == FALSE

Kill(p) ==
    /\ p \in cancelled /\ stage[p] \in Running
    /\ pid[p] \in eof
    /\ Dies(pid[p])
    /\ UNCHANGED <<records, orphans, calls, cancelled, stage, pid, ready, failures,
                   pipe, events, frames, counts>>

(* routeOutbound takes a frame, until the channel is closed and empty.     *)
Consume ==
    /\ frames # <<>>
    /\ frames' = Tail(frames)
    /\ UNCHANGED <<process, orphans, calls, cancelled, stage, pid, ready, failures, pipe,
                   events, counts>>

-----------------------------------------------------------------------------
(* The ghosts, towards their parent.                                       *)

memory == <<orphans, calls, cancelled, stage, pid, ready, failures, events, frames, pushed>>

Becomes(c, s, t) == child[c] = s /\ child' = [child EXCEPT ![c] = t]

(* A record announced before it is written.                                *)
PublishUnwritten(c) ==
    /\ Becomes(c, "init", "published")
    /\ UNCHANGED <<eof, records, pipe, emitted, memory>>

(* The record is written once the command to do so has arrived ...         *)
PublishRecord(c) ==
    /\ Becomes(c, "init", "published")
    /\ records' = records \cup {c}
    /\ UNCHANGED <<eof, pipe, emitted, memory>>

(* ... and reported.                                                       *)
Report(p) ==
    /\ stage[p] \in Running /\ Becomes(pid[p], "published", "ready")
    /\ Len(pipe[p]) < PipeLimit
    /\ pipe' = [pipe EXCEPT ![p] = Append(@, "ready")]
    /\ UNCHANGED <<eof, records, emitted, memory>>

(* A frame from a session of this machine is passed on, before or while    *)
(* the ghost stops.                                                        *)
Emit(p) ==
    /\ stage[p] \in Running /\ child[pid[p]] \in {"ready", "stopping"}
    /\ Len(pipe[p]) < PipeLimit
    /\ emitted[p] < Emissions[p]
    /\ pipe' = [pipe EXCEPT ![p] = Append(@, "frame")]
    /\ emitted' = [emitted EXCEPT ![p] = @ + 1]
    /\ UNCHANGED <<process, memory>>

(* The heartbeat finds the endpoint gone, says so, and gives up.           *)
EndpointGone(p) ==
    /\ stage[p] \in Running /\ Becomes(pid[p], "ready", "stopping")
    /\ Len(pipe[p]) < PipeLimit
    /\ pipe' = [pipe EXCEPT ![p] = Append(@, "error")]
    /\ UNCHANGED <<eof, records, emitted, memory>>

(* The end of standard input: a ghost that was told nothing exits.         *)
SeeEof(c) ==
    /\ c \in eof /\ child[c] = "new"
    /\ Dies(c)
    /\ UNCHANGED <<records, pipe, emitted, memory>>

(* One that serves stops at the end of standard input or when reading it   *)
(* fails and, like every command of the program, on a signal (main.go:35). *)
StopServing(c) ==
    /\ Becomes(c, "ready", "stopping")
    /\ UNCHANGED <<eof, records, pipe, emitted, memory>>

(* The record is removed, if it can be, and the process exits, as does one *)
(* that could not finish its publication or report it.                     *)
Withdraw(c) ==
    /\ child[c] \in {"published", "stopping"}
    /\ Dies(c)
    /\ records' \in {records, records \ {c}}
    /\ UNCHANGED <<pipe, emitted, memory>>

(* A ghost dies with its record in place, or before it wrote one.          *)
Crash(c) ==
    /\ Live(c)
    /\ Dies(c)
    /\ UNCHANGED <<records, pipe, emitted, memory>>

(* A process number is given to a session that is not ours, which has a    *)
(* record of its own as long as it lives.                                  *)
ForeignStarts(c) ==
    /\ ~Attended(c)
    /\ Becomes(c, "dead", IF c = found THEN "late" ELSE "foreign")
    /\ records' = records \cup {c}
    /\ UNCHANGED <<eof, pipe, emitted, memory>>

ForeignEnds(c) ==
    /\ Becomes(c, "foreign", "dead") \/ Becomes(c, "late", "dead")
    /\ records' = records \ {c}
    /\ UNCHANGED <<eof, pipe, emitted, memory>>

World ==
    \/ \E p \in Peers : Report(p) \/ Emit(p) \/ EndpointGone(p)
    \/ \E c \in Pids : PublishRecord(c) \/ SeeEof(c) \/ StopServing(c) \/ Withdraw(c) \/ Crash(c)
                         \/ ForeignStarts(c) \/ ForeignEnds(c)

-----------------------------------------------------------------------------
Next ==
    \/ Start \/ (\E c \in Pids : SweepLooks(c)) \/ SweepRemoves \/ SweepEnds
    \/ DaemonDies \/ Cancel \/ Close \/ Closed \/ Released \/ Consume
    \/ \E p \in Peers : Ensure(p) \/ Release(p) \/ KeepAlive(p) \/ Read(p)
                          \/ Interrupt(p) \/ Kill(p)
    \/ World

Spec == Init /\ [][Next]_vars

(* The goroutines of the daemon run, those of os/exec among them, which    *)
(* kill in the end.  No fairness is asked of a ghost: it may hang.         *)
FairSpec ==
    /\ Spec
    /\ \A p \in Peers : /\ WF_vars(KeepAlive(p)) /\ WF_vars(Read(p))
                        /\ WF_vars(Interrupt(p) \/ Kill(p))
    /\ WF_vars(Consume) /\ WF_vars(Released \/ Close \/ Closed)

-----------------------------------------------------------------------------
(* Properties.                                                             *)

Frames(s) == Cardinality({i \in DOMAIN s : s[i] = "frame"})

Processes ==
    /\ child \in [Pids -> ChildStates]
    /\ eof \subseteq Pids /\ \A c \in eof : Live(c)
    /\ records \subseteq Pids /\ index \subseteq Pids
    /\ saved \subseteq Pids /\ todo \subseteq Pids /\ found \in Pids \cup {Nobody}
    /\ lost \subseteq Pids /\ mistaken \subseteq Pids /\ faults \in 0..Faults

Calls ==
    /\ life \in {"sweeping", "open", "cancelled", "closing", "closed", "down"}
    /\ starts \in 1..Starts
    /\ wanted \subseteq Peers /\ cancelled \subseteq Peers
    /\ releasing \in Peers \cup {Nobody}

Goroutines ==
    /\ stage \in [Peers -> Stages]
    /\ pid \in [Peers -> Pids \cup {Nobody}]
    /\ \A p \in Peers : pid[p] # Nobody <=> stage[p] \in Running \cup {"forget"}
    /\ ready \in [Peers -> BOOLEAN]
    /\ failures \in [Peers -> 0..GiveUpAfter]

Kinds == {"ready", "frame", "error"}

Channels ==
    /\ pipe \in [Peers -> Seq(Kinds)] /\ events \in [Peers -> Seq(Kinds)]
    /\ \A p \in Peers : /\ Len(pipe[p]) <= PipeLimit /\ Len(events[p]) <= EventLimit
                        /\ emitted[p] <= Emissions[p]
    /\ frames \in Seq(Peers) /\ Len(frames) <= FrameLimit
    /\ emitted \in [Peers -> Nat] /\ pushed \in [Peers -> Nat]

(* The supervisor's fields, the locals of runOnce, and what the operating  *)
(* system knows of the ghosts have the shapes the code gives them; the     *)
(* locals name a process exactly while runOnce runs one.                   *)
TypeOK == Processes /\ Calls /\ Goroutines /\ Channels

(* orphans.go:100: a ghost that may have published is in the index of the  *)
(* daemon that runs, or in the file the next one loads, whoever has died   *)
(* and been started again since.  Two kinds are exceptions: those whose    *)
(* daemon died before a write after one that failed (none as long as none  *)
(* has failed), and those whose entry was deleted for the ghost of another *)
(* peer that had their number before (supervisor.go:338).                  *)
GhostsTracked ==
    /\ \A c \in Pids : Live(c) /\ child[c] # "new" => c \in index \cup lost \cup mistaken
    /\ faults = 0 => lost = {}
    /\ mistaken # {} => \E p, q \in Peers : p # q

(* supervisor.go:153: a ghost runs on behalf of one peer, wanted or being  *)
(* released, and no other ghost runs for it; one whose daemon has died has *)
(* been told to stop.                                                      *)
GhostsAttended ==
    \A c \in Pids : Live(c) =>
        \/ \E p \in Peers : Runs(p, c) /\ (p \in wanted \/ p = releasing)
        \/ ~Attended(c) /\ c \in eof

(* supervisor.go:412: once Close has returned no ghost it started and no   *)
(* goroutine is left, so nothing is put into the closed channel.           *)
ClosedIsQuiet ==
    life = "closed" => \A p \in Peers : stage[p] \in {"none", "gone"} /\ pid[p] = Nobody

(* No frame that a ghost wrote is lost on its way to routeOutbound until   *)
(* its peer is stopped, however full the channels are and even if the      *)
(* ghost dies.  With a ghost that was not seen to be ready in time         *)
(* (supervisor.go:369), and only then, goes all it has written, though it  *)
(* may have reported and the frames be in the channel.                     *)
FramesKept ==
    \A p \in Peers \ cancelled :
        \/ stage[p] \in {"consume", "push"}
        \/ stage[p] \in {"drain", "forget", "ended"} /\ ready[p]
        => emitted[p] = pushed[p] + Frames(events[p]) + Frames(pipe[p])
                          + (IF stage[p] = "push" THEN 1 ELSE 0)

(* orphans.go:127: whatever a sweep finds dead, whatever passes to another *)
(* process meanwhile and however late a ghost of a dead daemon stops, the  *)
(* record of a process that runs stays.  A session that was given a number *)
(* between the sweep's look at it (orphans.go:142) and the removal of its  *)
(* record (147) is the exception.                                          *)
SweepSparesTheLiving ==
    \A c \in Pids :
        child[c] \in {"published", "ready", "stopping", "foreign"} => c \in records

(* The record in the session directory and the process, as a ghost has     *)
(* them: one that is dead with its record in place was killed, or could    *)
(* not remove it, which is the same from outside.                          *)
Ghost(c) == INSTANCE NativePeer
              WITH state <- IF child[c] = "dead" /\ c \in records THEN "killed" ELSE child[c],
                   record <- c \in records

(* ADR-0004, ghost.go:109: whatever the daemon, a later one, and the other *)
(* ghosts do, a ghost goes through its life as it promises to: nobody else *)
(* removes its record or brings it back, and it leaves the record behind   *)
(* only if it is killed or fails to remove it.                             *)
LivesAsPromised ==
    [][\A c \in Pids : Live(c) => Ghost(c)!Next \/ UNCHANGED Ghost(c)!vars]_vars

(* supervisor.go:210: a ghost that had reported and dies is replaced or    *)
(* given up, unless its peer or the daemon is stopped first.               *)
DeadIsReplaced ==
    \A p \in Peers :
        (stage[p] = "consume" /\ ready[p] /\ child[pid[p]] = "dead")
            ~> (stage[p] \in {"spawn", "gone", "none"} \/ p \in cancelled)

(* supervisor.go:383: the reader waits for good to send an event nobody    *)
(* takes, and runOnce waits for the reader.                                *)
Stuck(p) == stage[p] = "drain" /\ Len(events[p]) + Len(pipe[p]) > EventLimit

(* supervisor.go:412: Close returns whatever the ghosts do, also if they   *)
(* hang, were not told anything yet, or write until they are killed,       *)
(* unless the goroutine of one waits for a reader that is stuck.           *)
ReturnsUnlessStuck ==
    (life = "closing") ~> (life \in {"closed", "down"} \/ \E p \in Peers : Stuck(p))

-----------------------------------------------------------------------------
(* A statement of the source that the code does not keep.                  *)

(* supervisor.go:380: "Wait picks up the exit, and WaitDelay stops a stuck *)
(* child from hanging shutdown."                                           *)
ShutdownReturns == (life = "closing") ~> (life \in {"closed", "down"})
=============================================================================
