-------------------------- MODULE SupervisorProofs --------------------------
(***************************************************************************)
(* Theorems about Supervisor: its types, which ghosts are tracked and on   *)
(* whose behalf they run, what Close and Sweep leave, and that no frame is *)
(* lost; for any peers, process numbers, capacities and restarts.          *)
(***************************************************************************)
EXTENDS Supervisor, FiniteSetTheorems, TLAPS

Told == {"consume", "push", "drain"}

(* keepAlive gives a peer up at the limit, not past it.                    *)
Bounded == \A p \in Peers : stage[p] \notin {"none", "gone"} => failures[p] < GiveUpAfter

(* No two goroutines run the same process.                                 *)
Apart ==
    \A p, q \in Peers :
        stage[p] \in Running /\ stage[q] \in Running /\ pid[p] = pid[q] => p = q

(* A number that runOnce has yet to forget has passed to another peer's    *)
(* process, if to any ghost.                                               *)
Reused ==
    (\E p \in Peers : stage[p] = "forget" /\ Live(pid[p])) => \E p, q \in Peers : p # q

(* The goroutine of a peer is there for a peer that is wanted, or that     *)
(* Release is waiting for; none is there when the daemon is not.           *)
Owned ==
    /\ \A p \in Peers : stage[p] # "none" => p \in wanted \/ p = releasing
    /\ life \in {"down", "sweeping"} => \A p \in Peers : stage[p] = "none"

(* What a sweep is about to remove is not one of the processes it spares.  *)
Swept == found # Nobody => life = "sweeping" /\ child[found] \in {"dead", "late"}

(* A ghost whose goroutine has tracked it is in the index, if its entry    *)
(* was not deleted by mistake.                                             *)
Listed ==
    \A p \in Peers : stage[p] \in Told \cup {"init", "abandon"} /\ Live(pid[p])
                        => pid[p] \in index \cup mistaken

(* A ghost that has been left alone is in the file, and as long as every   *)
(* write of it succeeded the file has all that is in the index.            *)
Filed ==
    \A c \in Pids : Live(c) /\ child[c] # "new" /\ ~Attended(c)
                        => c \in saved \cup lost \cup mistaken

Unfailed == faults = 0 => index \subseteq saved

(* Nothing comes from a ghost before it is told to publish, and nothing of *)
(* it is left once its reader has returned.                                *)
Unread == \A p \in Peers : stage[p] \notin Told => pipe[p] = <<>> /\ events[p] = <<>>

Untold ==
    \A p \in Peers : stage[p] \in {"track", "init", "abandon"} =>
        child[pid[p]] \in {"new", "dead"}

(* Frames are counted from the start of a ghost until keepAlive is done    *)
(* with it; and one that reported in time runs until its peer is stopped.  *)
Uncounted ==
    \A p \in Peers : stage[p] \notin Told \cup {"forget", "ended"} =>
        emitted[p] = 0 /\ pushed[p] = 0

Timely == \A p \in Peers : stage[p] = "drain" /\ ready[p] => p \in cancelled

IInv == /\ TypeOK /\ Bounded /\ Apart /\ Reused /\ Owned /\ Swept /\ Listed /\ Filed
        /\ Unfailed /\ Unread /\ Untold /\ Uncounted /\ Timely /\ GhostsTracked
        /\ GhostsAttended /\ ClosedIsQuiet /\ FramesKept /\ SweepSparesTheLiving

-----------------------------------------------------------------------------
(* Counting the frames of a channel or a pipe.                             *)

FramePlaces(s) == {i \in DOMAIN s : s[i] = "frame"}
One(e) == IF e = "frame" THEN 1 ELSE 0

(* A channel holds a number of frames, none when it is empty.              *)
LEMMA FramesCounted ==
    ASSUME NEW s \in Seq(Kinds)
    PROVE  /\ IsFiniteSet(FramePlaces(s)) /\ Frames(s) \in Nat
           /\ s = <<>> => Frames(s) = 0
<1>1. IsFiniteSet(1..Len(s)) /\ FramePlaces(s) \subseteq 1..Len(s)
  BY FS_Interval DEF FramePlaces
<1>2. IsFiniteSet(FramePlaces(s))
  BY <1>1, FS_Subset
<1>3. Frames(s) \in Nat
  BY <1>2, FS_CardinalityType DEF Frames, FramePlaces
<1>4. ASSUME s = <<>> PROVE Frames(s) = 0
  <2>1. FramePlaces(s) = {}
    BY <1>4 DEF FramePlaces
  <2> QED
    BY <2>1, FS_EmptySet DEF Frames, FramePlaces
<1> QED
  BY <1>2, <1>3, <1>4

(* What is put in comes on top.                                            *)
LEMMA FramesAppend ==
    ASSUME NEW s \in Seq(Kinds), NEW e \in Kinds
    PROVE  Frames(Append(s, e)) = Frames(s) + One(e)
<1> DEFINE t == Append(s, e)
           n == Len(s) + 1
<1>1. t \in Seq(Kinds) /\ DOMAIN t = 1..n /\ t[n] = e /\ \A i \in 1..Len(s) : t[i] = s[i]
  OBVIOUS
<1>2. DOMAIN s = 1..Len(s) /\ n \notin DOMAIN s /\ DOMAIN t = DOMAIN s \cup {n}
  BY <1>1
<1> HIDE DEF t, n
<1>3. FramePlaces(t) = IF e = "frame" THEN FramePlaces(s) \cup {n} ELSE FramePlaces(s)
  BY <1>1, <1>2 DEF FramePlaces
<1>4. n \notin FramePlaces(s)
  BY <1>2 DEF FramePlaces
<1>5. IsFiniteSet(FramePlaces(s)) /\ Cardinality(FramePlaces(s)) \in Nat
  BY FramesCounted DEF Frames, FramePlaces
<1>6. Cardinality(FramePlaces(s) \cup {n}) = Cardinality(FramePlaces(s)) + 1
  BY <1>4, <1>5, FS_AddElement
<1>7. Cardinality(FramePlaces(t)) = Cardinality(FramePlaces(s)) + One(e)
  BY <1>3, <1>5, <1>6 DEF One
<1> QED
  BY <1>7 DEF Frames, FramePlaces, t

(* What is taken out is gone.                                              *)
LEMMA FramesTail ==
    ASSUME NEW s \in Seq(Kinds), s # <<>>
    PROVE  Frames(s) = Frames(Tail(s)) + One(Head(s))
<1> DEFINE t == Tail(s)
           L == {i \in 2..Len(s) : s[i] = "frame"}
           f == [i \in FramePlaces(t) |-> i + 1]
<1>1. /\ t \in Seq(Kinds) /\ Len(s) \in Nat \ {0} /\ DOMAIN s = 1..Len(s) /\ Head(s) = s[1]
      /\ DOMAIN t = 1..(Len(s) - 1) /\ \A i \in 1..(Len(s) - 1) : t[i] = s[i + 1]
  OBVIOUS
<1> HIDE DEF t
<1>2. f \in [FramePlaces(t) -> L]
  BY <1>1 DEF FramePlaces
<1>3. \A i, j \in FramePlaces(t) : f[i] = f[j] => i = j
  BY <1>1 DEF FramePlaces
<1>4. \A k \in L : \E i \in FramePlaces(t) : f[i] = k
  <2>1. SUFFICES ASSUME NEW k \in L PROVE \E i \in FramePlaces(t) : f[i] = k
    OBVIOUS
  <2>2. k - 1 \in 1..(Len(s) - 1) /\ t[k - 1] = s[k]
    BY <1>1, <2>1
  <2>3. k - 1 \in FramePlaces(t)
    BY <1>1, <2>1, <2>2 DEF FramePlaces
  <2> QED
    BY <2>1, <2>3
<1>5. ExistsBijection(FramePlaces(t), L)
  <2> HIDE DEF f, L
  <2>1. f \in Bijection(FramePlaces(t), L)
    BY <1>2, <1>3, <1>4 DEF Bijection, Injection, Surjection, IsInjective
  <2> QED
    BY <2>1 DEF ExistsBijection
<1>6. IsFiniteSet(FramePlaces(t)) /\ Cardinality(FramePlaces(t)) \in Nat
  BY <1>1, FramesCounted DEF Frames, FramePlaces
<1>7. IsFiniteSet(L) /\ Cardinality(L) = Cardinality(FramePlaces(t))
  BY <1>5, <1>6, FS_Bijection
<1>8. FramePlaces(s) = IF Head(s) = "frame" THEN L \cup {1} ELSE L
  BY <1>1 DEF FramePlaces
<1>9. 1 \notin L
  OBVIOUS
<1> HIDE DEF L, f
<1>10. Cardinality(L \cup {1}) = Cardinality(L) + 1
  BY <1>6, <1>7, <1>9, FS_AddElement
<1>11. Cardinality(FramePlaces(s)) = Cardinality(FramePlaces(t)) + One(Head(s))
  BY <1>6, <1>7, <1>8, <1>10 DEF One
<1> QED
  BY <1>11 DEF Frames, FramePlaces, t

-----------------------------------------------------------------------------
(* Types.                                                                  *)

(* supervisor.go:120: a supervisor begins with no peer and no ghost.       *)
LEMMA InitInvariant == Init => IInv
<1> SUFFICES ASSUME Init PROVE IInv
  OBVIOUS
<1> USE SupervisorAssumption
<1>1. TypeOK
  BY DEF Init, TypeOK, Processes, Calls, Goroutines, Channels, ChildStates, Live, Ghosts,
         Stages, Running
<1>2. Bounded /\ Apart /\ Reused /\ Owned /\ Swept
  BY DEF Init, Bounded, Apart, Reused, Owned, Swept, Running
<1>3. Listed /\ Filed /\ Unfailed /\ Unread /\ Untold /\ Uncounted /\ Timely
  BY DEF Init, Listed, Filed, Unfailed, Unread, Untold, Uncounted, Timely, Told, Live, Ghosts
<1>4. GhostsTracked /\ GhostsAttended /\ ClosedIsQuiet /\ FramesKept /\ SweepSparesTheLiving
  BY DEF Init, GhostsTracked, GhostsAttended, ClosedIsQuiet, FramesKept, SweepSparesTheLiving,
         Live, Ghosts
<1> QED
  BY <1>1, <1>2, <1>3, <1>4 DEF IInv

(* What the operating system knows: which processes there are and what     *)
(* they left.                                                              *)
LEMMA NextProcesses == ASSUME TypeOK, [Next]_vars PROVE Processes'
<1> USE SupervisorAssumption DEF Processes, ChildStates, Live, Ghosts, GoTo, Becomes,
        CloseInput, process, orphans, sweep, memory
<1>0. CASE \E c \in Pids : SweepLooks(c)
  BY <1>0 DEF SweepLooks, TypeOK
<1>1. CASE Start \/ SweepRemoves \/ SweepEnds \/ DaemonDies
  BY <1>1 DEF Start, SweepRemoves, SweepEnds, DaemonDies, Persist, TypeOK
<1>2. CASE Cancel \/ Close \/ Closed \/ Consume \/ Released
  BY <1>2 DEF Cancel, Close, Closed, Consume, Released, TypeOK
<1>3. ASSUME NEW p \in Peers, Ensure(p) \/ Release(p) \/ Read(p) PROVE Processes'
  BY <1>3 DEF Ensure, Release, Read, TypeOK
<1>4. ASSUME NEW p \in Peers, KeepAlive(p) PROVE Processes'
  <2>1. CASE \E c \in Pids : Spawn(p, c)
    BY <2>1 DEF Spawn, TypeOK
  <2>2. CASE Track(p) \/ WriteInit(p)
    BY <2>2 DEF Track, Persist, WriteInit, TypeOK, Goroutines, Running
  <2>3. CASE WriteInitFails(p) \/ Stopping(p)
    BY <2>3 DEF WriteInitFails, Stopping, TypeOK, Goroutines, Running
  <2>4. CASE StreamEnds(p) \/ Drained(p)
    BY <2>4 DEF StreamEnds, Drained, Reap, TypeOK
  <2>7. CASE Forget(p)
    BY <2>7 DEF Forget, Persist, TypeOK
  <2>5. CASE SpawnFails(p) \/ Abandon(p) \/ SeeReady(p) \/ SeeFrame(p) \/ SeeError(p)
    BY <2>5 DEF SpawnFails, Abandon, SeeReady, SeeFrame, SeeError, TypeOK
  <2>6. CASE Push(p) \/ Ended(p) \/ Retry(p)
    BY <2>6 DEF Push, Ended, Retry, TypeOK
  <2> QED
    BY <1>4, <2>1, <2>2, <2>3, <2>4, <2>5, <2>6, <2>7 DEF KeepAlive
<1>5. ASSUME NEW p \in Peers, Interrupt(p) \/ Kill(p) PROVE Processes'
  BY <1>5 DEF Interrupt, Kill, Dies, TypeOK, Goroutines, Running
<1>6. ASSUME NEW p \in Peers, Report(p) \/ Emit(p) \/ EndpointGone(p) PROVE Processes'
  BY <1>6 DEF Report, Emit, EndpointGone, TypeOK, Goroutines, Running
<1>7. ASSUME NEW c \in Pids, PublishRecord(c) \/ SeeEof(c) \/ StopServing(c) \/ Withdraw(c)
      PROVE  Processes'
  BY <1>7 DEF PublishRecord, SeeEof, StopServing, Withdraw, Dies, TypeOK
<1>8. ASSUME NEW c \in Pids, Crash(c) \/ ForeignStarts(c) \/ ForeignEnds(c) PROVE Processes'
  BY <1>8 DEF Crash, Dies, ForeignStarts, ForeignEnds, TypeOK
<1>9. CASE UNCHANGED vars
  BY <1>9 DEF vars, TypeOK
<1> QED
  BY <1>0, <1>1, <1>2, <1>3, <1>4, <1>5, <1>6, <1>7, <1>8, <1>9 DEF Next, World

(* What poll and Run know.                                                 *)
LEMMA NextCalls == ASSUME TypeOK, [Next]_vars PROVE Calls'
<1> USE SupervisorAssumption DEF Calls, calls, memory, Reap
<1>1. CASE Start \/ SweepEnds \/ DaemonDies
  BY <1>1 DEF Start, SweepEnds, DaemonDies, Fresh, TypeOK
<1>0. CASE SweepRemoves \/ \E c \in Pids : SweepLooks(c)
  BY <1>0 DEF SweepRemoves, SweepLooks, TypeOK
<1>2. CASE Cancel \/ Close \/ Closed \/ Consume \/ Released
  BY <1>2 DEF Cancel, Close, Closed, Consume, Released, TypeOK
<1>3. ASSUME NEW p \in Peers, Ensure(p) \/ Release(p) \/ Read(p) \/ Interrupt(p) \/ Kill(p)
      PROVE  Calls'
  BY <1>3 DEF Ensure, Release, Read, Interrupt, Kill, TypeOK
<1>4. ASSUME NEW p \in Peers, KeepAlive(p) PROVE Calls'
  BY <1>4 DEF KeepAlive, Spawn, SpawnFails, Track, WriteInit, WriteInitFails, Abandon,
              SeeReady, SeeFrame, SeeError, Push, StreamEnds, Stopping, Drained,
              Forget, Ended, Retry, TypeOK
<1>5. CASE World
  BY <1>5 DEF World, Report, Emit, EndpointGone, PublishRecord, SeeEof, StopServing, Withdraw,
              Crash, ForeignStarts, ForeignEnds, TypeOK
<1>6. CASE UNCHANGED vars
  BY <1>6 DEF vars, TypeOK
<1> QED
  BY <1>0, <1>1, <1>2, <1>3, <1>4, <1>5, <1>6 DEF Next

(* Where the goroutines of the peers are: each runs a process of its own,  *)
(* and gives its peer up at the limit.                                     *)
LEMMA NextGoroutines ==
    ASSUME TypeOK, Bounded, Apart, Owned, [Next]_vars
    PROVE  Goroutines' /\ Bounded' /\ Apart'
<1> USE SupervisorAssumption DEF Goroutines, Bounded, Apart, Stages, Running, GoTo, memory
<1>0. CASE SweepRemoves \/ SweepEnds \/ \E c \in Pids : SweepLooks(c)
  BY <1>0 DEF SweepRemoves, SweepEnds, SweepLooks, TypeOK
<1> DEFINE Good == Goroutines /\ Bounded /\ Apart
<1>1. CASE Start \/ DaemonDies
  <2>1. Fresh
    BY <1>1 DEF Start, DaemonDies
  <2> QED
    BY <2>1 DEF Fresh
<1>2. CASE Cancel \/ Close \/ Closed \/ Consume
  BY <1>2 DEF Cancel, Close, Closed, Consume, TypeOK
<1>3. CASE Released
  BY <1>3 DEF Released, TypeOK, Calls
<1>4. ASSUME NEW p \in Peers, Release(p) \/ Read(p) \/ Interrupt(p) \/ Kill(p) PROVE Good'
  BY <1>4 DEF Release, Read, Interrupt, Kill, TypeOK
<1>5. ASSUME NEW p \in Peers, Ensure(p) PROVE Good'
  <2>1. stage[p] = "none"
    BY <1>5, SupervisorAssumption DEF Ensure, Owned
  <2> QED
    BY <1>5, <2>1 DEF Ensure, TypeOK
<1>6. ASSUME NEW p \in Peers, KeepAlive(p) PROVE Good'
  <2>1. ASSUME NEW c \in Pids, Spawn(p, c) PROVE Good'
    BY <2>1 DEF Spawn, Attended, Runs, TypeOK
  <2>2. CASE SpawnFails(p) \/ Track(p)
    BY <2>2 DEF SpawnFails, Track, TypeOK
  <2>3. CASE WriteInit(p) \/ WriteInitFails(p)
    BY <2>3 DEF WriteInit, WriteInitFails, TypeOK
  <2>4. CASE Abandon(p)
    BY <2>4 DEF Abandon, TypeOK
  <2>5. CASE StreamEnds(p) \/ Drained(p)
    BY <2>5 DEF StreamEnds, Drained, Reap, TypeOK
  <2>6. CASE SeeReady(p) \/ SeeFrame(p) \/ SeeError(p)
    BY <2>6 DEF SeeReady, SeeFrame, SeeError, TypeOK
  <2>7. CASE Push(p) \/ Stopping(p)
    BY <2>7 DEF Push, Stopping, TypeOK
  <2>8. CASE Ended(p)
    <3>1. PICK n \in 0..GiveUpAfter, u \in {"gone", "backoff"} :
             /\ failures' = [failures EXCEPT ![p] = n]
             /\ stage' = [stage EXCEPT ![p] = u]
             /\ u = "backoff" => n < GiveUpAfter
      <4>1. CASE p \in cancelled
        <5>1. failures' = [failures EXCEPT ![p] = failures[p]]
          BY <2>8, <4>1 DEF Ended, TypeOK
        <5>2. stage' = [stage EXCEPT ![p] = "gone"] /\ failures[p] \in 0..GiveUpAfter
          BY <2>8, <4>1 DEF Ended, TypeOK
        <5> QED
          BY <5>1, <5>2
      <4>2. CASE p \notin cancelled
        <5>1. PICK n \in {0, failures[p] + 1} :
                 /\ failures' = [failures EXCEPT ![p] = n]
                 /\ stage' = [stage EXCEPT ![p] = IF n >= GiveUpAfter THEN "gone"
                                                                     ELSE "backoff"]
          BY <2>8, <4>2 DEF Ended
        <5>2. n \in 0..GiveUpAfter
          BY <2>8, <5>1 DEF Ended, TypeOK
        <5>3. CASE n >= GiveUpAfter
          BY <5>1, <5>2, <5>3
        <5>4. CASE n < GiveUpAfter
          BY <5>1, <5>2, <5>4
        <5> QED
          BY <5>2, <5>3, <5>4
      <4> QED
        BY <4>1, <4>2
    <3>2. UNCHANGED pid /\ ready' \in [Peers -> BOOLEAN] /\ stage[p] = "ended"
      BY <2>8 DEF Ended, TypeOK
    <3> QED
      BY <3>1, <3>2 DEF TypeOK
  <2>9. CASE Forget(p) \/ Retry(p)
    BY <2>9 DEF Forget, Retry, TypeOK
  <2> QED
    BY <1>6, <2>1, <2>2, <2>3, <2>4, <2>5, <2>6, <2>7, <2>8, <2>9 DEF KeepAlive
<1>7. CASE World
  BY <1>7 DEF World, Report, Emit, EndpointGone, PublishRecord, SeeEof, StopServing, Withdraw,
              Crash, ForeignStarts, ForeignEnds, TypeOK
<1>8. CASE UNCHANGED vars
  BY <1>8 DEF vars, TypeOK
<1> HIDE DEF Goroutines, Bounded, Apart
<1> QED
  BY <1>0, <1>1, <1>2, <1>3, <1>4, <1>5, <1>6, <1>7, <1>8 DEF Next

(* What the channels and the pipes hold, and what was counted.             *)
LEMMA NextChannels == ASSUME TypeOK, [Next]_vars PROVE Channels'
<1> USE SupervisorAssumption DEF Channels, Kinds, memory, counts
<1>0. CASE SweepRemoves \/ SweepEnds \/ \E c \in Pids : SweepLooks(c)
  BY <1>0 DEF SweepRemoves, SweepEnds, SweepLooks, TypeOK
<1>1. CASE Start \/ DaemonDies
  <2>1. Fresh
    BY <1>1 DEF Start, DaemonDies
  <2> QED
    BY <2>1 DEF Fresh
<1>2. CASE Cancel \/ Close \/ Closed \/ Released
  BY <1>2 DEF Cancel, Close, Closed, Released, TypeOK
<1>3. CASE Consume
  BY <1>3 DEF Consume, TypeOK
<1>4. ASSUME NEW p \in Peers, Ensure(p) \/ Release(p) \/ Interrupt(p) \/ Kill(p)
      PROVE  Channels'
  BY <1>4 DEF Ensure, Release, Interrupt, Kill, TypeOK
<1>5. ASSUME NEW p \in Peers, Read(p) PROVE Channels'
  <2>1. /\ Head(pipe[p]) \in Kinds /\ Tail(pipe[p]) \in Seq(Kinds)
        /\ Len(Tail(pipe[p])) <= PipeLimit
        /\ Append(events[p], Head(pipe[p])) \in Seq(Kinds)
        /\ Len(Append(events[p], Head(pipe[p]))) <= EventLimit
    BY <1>5 DEF Read, TypeOK
  <2> QED
    BY <1>5, <2>1 DEF Read, TypeOK
<1>6. ASSUME NEW p \in Peers, KeepAlive(p) PROVE Channels'
  <2>1. CASE \E c \in Pids : Spawn(p, c)
    BY <2>1 DEF Spawn, TypeOK
  <2>2. CASE SpawnFails(p) \/ Track(p) \/ WriteInit(p) \/ WriteInitFails(p) \/ Abandon(p)
    BY <2>2 DEF SpawnFails, Track, WriteInit, WriteInitFails, Abandon, TypeOK
  <2>3. CASE SeeReady(p) \/ SeeFrame(p) \/ SeeError(p)
    <3>1. /\ events[p] # <<>> /\ events' = [events EXCEPT ![p] = Tail(@)]
          /\ UNCHANGED <<pipe, frames, counts>>
      BY <2>3 DEF SeeReady, SeeFrame, SeeError, TakeEvent
    <3>2. Tail(events[p]) \in Seq(Kinds) /\ Len(Tail(events[p])) <= EventLimit
      BY <3>1 DEF TypeOK
    <3> QED
      BY <3>1, <3>2 DEF TypeOK
  <2>4. CASE Push(p)
    <3>1. UNCHANGED <<pipe, events, emitted>>
      BY <2>4 DEF Push
    <3>2. frames' \in Seq(Peers) /\ Len(frames') <= FrameLimit
      <4>1. CASE frames' = Append(frames, p) /\ Len(frames) < FrameLimit
        BY <4>1 DEF TypeOK
      <4>2. CASE frames' = frames
        BY <4>2 DEF TypeOK
      <4> QED
        BY <2>4, <4>1, <4>2 DEF Push
    <3>3. pushed' \in [Peers -> Nat]
      BY <2>4 DEF Push, TypeOK
    <3> QED
      BY <3>1, <3>2, <3>3 DEF TypeOK
  <2>5. CASE StreamEnds(p) \/ Drained(p)
    <3>1. events' = [events EXCEPT ![p] = <<>>] /\ UNCHANGED <<pipe, frames, counts>>
      BY <2>5 DEF StreamEnds, Drained, Reap
    <3>2. <<>> \in Seq(Kinds) /\ Len(<<>>) <= EventLimit
      OBVIOUS
    <3> QED
      BY <3>1, <3>2 DEF TypeOK
  <2>6. CASE Stopping(p) \/ Forget(p) \/ Retry(p)
    BY <2>6 DEF Stopping, Forget, Retry, TypeOK
  <2>7. CASE Ended(p)
    <3>1. /\ emitted' = [emitted EXCEPT ![p] = 0] /\ pushed' = [pushed EXCEPT ![p] = 0]
          /\ UNCHANGED <<pipe, events, frames>>
      BY <2>7 DEF Ended
    <3>2. Emissions[p] \in Nat /\ 0 <= Emissions[p]
      OBVIOUS
    <3> QED
      BY <3>1, <3>2 DEF TypeOK
  <2> QED
    BY <1>6, <2>1, <2>2, <2>3, <2>4, <2>5, <2>6, <2>7 DEF KeepAlive
<1>7. ASSUME NEW p \in Peers, Report(p) \/ EndpointGone(p) PROVE Channels'
  <2>1. PICK e \in Kinds : /\ Len(pipe[p]) < PipeLimit
                           /\ pipe' = [pipe EXCEPT ![p] = Append(@, e)]
                           /\ UNCHANGED <<events, frames, counts>>
    BY <1>7 DEF Report, EndpointGone
  <2> QED
    BY <2>1 DEF TypeOK
<1>8. ASSUME NEW p \in Peers, Emit(p) PROVE Channels'
  BY <1>8 DEF Emit, TypeOK
<1>9. ASSUME NEW c \in Pids,
             \/ PublishRecord(c) \/ SeeEof(c) \/ StopServing(c) \/ Withdraw(c) \/ Crash(c)
             \/ ForeignStarts(c) \/ ForeignEnds(c)
      PROVE  Channels'
  BY <1>9 DEF PublishRecord, SeeEof, StopServing, Withdraw, Crash, ForeignStarts, ForeignEnds, TypeOK
<1>10. CASE UNCHANGED vars
  BY <1>10 DEF vars, TypeOK
<1> HIDE DEF Channels
<1> QED
  BY <1>0, <1>1, <1>2, <1>3, <1>4, <1>5, <1>6, <1>7, <1>8, <1>9, <1>10 DEF Next, World

-----------------------------------------------------------------------------
(* On whose behalf a goroutine runs.                                       *)

(* Ensure and Release alone begin and end a goroutine, and Close waits for *)
(* every one.                                                              *)
LEMMA NextOwned ==
    ASSUME TypeOK, Owned, ClosedIsQuiet, [Next]_vars
    PROVE  Owned' /\ ClosedIsQuiet'
<1> USE SupervisorAssumption
<1>1. CASE Start \/ DaemonDies
  BY <1>1 DEF Start, DaemonDies, Fresh, Owned, ClosedIsQuiet
<1>2. CASE SweepEnds \/ Cancel \/ Close
  <2>1. life' \notin {"closed", "down", "sweeping"} /\ UNCHANGED <<wanted, releasing, stage>>
    BY <1>2 DEF SweepEnds, Cancel, Close
  <2> QED
    BY <2>1 DEF Owned, ClosedIsQuiet
<1>3. CASE Closed
  BY <1>3 DEF Closed, Owned, ClosedIsQuiet, TypeOK, Goroutines, Running
<1>4. CASE Released
  BY <1>4 DEF Released, Owned, ClosedIsQuiet, TypeOK, Goroutines, Calls
<1>5. ASSUME NEW p \in Peers, Ensure(p) \/ Release(p) PROVE Owned' /\ ClosedIsQuiet'
  BY <1>5 DEF Ensure, Release, Owned, ClosedIsQuiet, TypeOK, Goroutines
<1>6. ASSUME NEW p \in Peers, UNCHANGED calls, stage[p] \notin {"none", "gone"},
             NEW u, stage' = [stage EXCEPT ![p] = u]
      PROVE  Owned' /\ ClosedIsQuiet'
  BY <1>6 DEF calls, Owned, ClosedIsQuiet, TypeOK, Goroutines
<1>7. ASSUME NEW p \in Peers, KeepAlive(p) PROVE Owned' /\ ClosedIsQuiet'
  <2>1. CASE \E c \in Pids : Spawn(p, c)
    BY <1>6, <2>1 DEF Spawn, GoTo
  <2>2. CASE SpawnFails(p) \/ Track(p)
    BY <1>6, <2>2 DEF SpawnFails, Track, GoTo
  <2>3. CASE WriteInit(p) \/ WriteInitFails(p)
    BY <1>6, <2>3 DEF WriteInit, WriteInitFails, GoTo
  <2>4. CASE Abandon(p) \/ Stopping(p)
    BY <1>6, <2>4 DEF Abandon, Stopping, GoTo
  <2>5. CASE SeeReady(p) \/ SeeFrame(p) \/ SeeError(p)
    BY <1>6, <2>5 DEF SeeReady, SeeFrame, SeeError, GoTo
  <2>6. CASE Push(p)
    BY <1>6, <2>6 DEF Push, GoTo
  <2>7. CASE StreamEnds(p) \/ Drained(p)
    BY <1>6, <2>7 DEF StreamEnds, Drained, Reap, GoTo
  <2>9. CASE Forget(p)
    BY <1>6, <2>9 DEF Forget, GoTo
  <2>8. CASE Ended(p) \/ Retry(p)
    <3>1. /\ UNCHANGED calls /\ stage[p] \in {"ended", "backoff"}
          /\ \E u \in {"gone", "backoff", "spawn"} : stage' = [stage EXCEPT ![p] = u]
      BY <2>8 DEF Ended, Retry
    <3> QED
      BY <1>6, <3>1
  <2> QED
    BY <1>7, <2>1, <2>2, <2>3, <2>4, <2>5, <2>6, <2>7, <2>8, <2>9 DEF KeepAlive
<1>8. ASSUME UNCHANGED <<calls, stage, pid>> PROVE Owned' /\ ClosedIsQuiet'
  BY <1>8 DEF calls, Owned, ClosedIsQuiet
<1>9. ASSUME NEW p \in Peers, Read(p) \/ Interrupt(p) \/ Kill(p)
      PROVE  Owned' /\ ClosedIsQuiet'
  BY <1>8, <1>9 DEF Read, Interrupt, Kill
<1>10. CASE World
  BY <1>8, <1>10 DEF World, Report, Emit, EndpointGone, PublishRecord, SeeEof, StopServing, Withdraw,
                     Crash, ForeignStarts, ForeignEnds, memory
<1>11. CASE Consume \/ SweepRemoves \/ (\E c \in Pids : SweepLooks(c)) \/ UNCHANGED vars
  BY <1>8, <1>11 DEF Consume, SweepRemoves, SweepLooks, vars, calls
<1> QED
  BY <1>1, <1>2, <1>3, <1>4, <1>5, <1>7, <1>9, <1>10, <1>11 DEF Next

-----------------------------------------------------------------------------
(* The index.                                                              *)

(* A process is put into the index before it is told to publish, and its   *)
(* number taken out once it is dead, or once another peer's ghost has it.  *)
LEMMA NextTracked ==
    ASSUME TypeOK, Apart, Reused, Owned, Swept, ClosedIsQuiet, Listed, Filed, Unfailed,
           GhostsTracked, [Next]_vars
    PROVE  Listed' /\ Filed' /\ Unfailed' /\ GhostsTracked'
<1> USE SupervisorAssumption DEF Told, GoTo
<1> DEFINE Good == Listed /\ Filed /\ Unfailed /\ GhostsTracked
(* The index stays, nobody new has published, and a goroutine that goes    *)
(* on had tracked its process before.                                      *)
<1>1. ASSUME UNCHANGED <<orphans, pid>>,
             \A c \in Pids : Live(c)' => Live(c) /\ (child'[c] # "new" => child[c] # "new"),
             \A c \in Pids : Live(c)' /\ Attended(c) => Attended(c)',
             \A p \in Peers : stage'[p] \in Told \cup {"init", "abandon"}
                                => stage[p] \in Told \cup {"init", "abandon"}
      PROVE  Good'
  <2>1. Unfailed' /\ GhostsTracked'
    BY <1>1 DEF orphans, Unfailed, GhostsTracked
  <2>2. Filed'
    BY <1>1 DEF orphans, Filed
  <2>3. Listed'
    BY <1>1 DEF orphans, Listed, Live, TypeOK, Processes, Goroutines, Running
  <2> QED
    BY <2>1, <2>2, <2>3
(* A write of the file, with nothing else: what was left alone stays in    *)
(* it, because it stays in the index.                                      *)
<1>0. ASSUME Persist, UNCHANGED <<child, lost>>, GhostsTracked',
             \A c \in Pids : Attended(c) /\ Live(c) => Attended(c)',
             \A c \in Pids : c \in mistaken /\ ~Attended(c) => c \in mistaken'
      PROVE  Filed' /\ Unfailed'
  <2>1. faults \in Nat /\ (faults' = 0 => faults = 0)
    BY <1>0 DEF Persist, TypeOK, Processes
  <2>2. Unfailed'
    BY <1>0, <2>1 DEF Persist, Unfailed
  <2>3. ASSUME saved' = index' PROVE Filed'
    BY <1>0, <2>3 DEF Filed, GhostsTracked
  <2>4. ASSUME saved' = saved PROVE Filed'
    BY <1>0, <2>4 DEF Filed, Live
  <2> QED
    BY <1>0, <2>2, <2>3, <2>4 DEF Persist
<1>2. CASE Start
  <2>1. \A p \in Peers : stage[p] \notin Running
    BY <1>2 DEF Start, Owned, ClosedIsQuiet, Running
  <2>2. \A c \in Pids : ~Attended(c)
    BY <2>1 DEF Attended, Runs
  <2>3. \A c \in Pids : Live(c) /\ child[c] # "new" => c \in saved \cup lost \cup mistaken
    BY <2>2 DEF Filed
  <2>4. index' = saved /\ UNCHANGED <<child, saved, lost, mistaken, faults>> /\ Listed'
    BY <1>2 DEF Start, process, Fresh, Listed
  <2> QED
    BY <2>3, <2>4 DEF GhostsTracked, Unfailed, Filed, Live
<1>13. CASE SweepRemoves
  <2>1. /\ index' = index \ {found} /\ ~Live(found)
        /\ UNCHANGED <<child, pid, stage, saved, lost, mistaken, faults>>
    BY <1>13 DEF SweepRemoves, Swept, Live, Ghosts
  <2> QED
    BY <2>1 DEF Listed, Filed, Unfailed, GhostsTracked, Live, Attended, Runs
<1>14. CASE SweepEnds
  <2>1. Persist /\ UNCHANGED <<child, pid, stage, index, lost, mistaken>>
    BY <1>14 DEF SweepEnds, process
  <2>2. Listed'
    BY <2>1 DEF Listed, Live
  <2>3. GhostsTracked'
    BY <2>1 DEF GhostsTracked, Live, Persist, TypeOK, Processes
  <2>4. \A c \in Pids : Attended(c) => Attended(c)'
    BY <2>1 DEF Attended, Runs
  <2> QED
    BY <1>0, <2>1, <2>2, <2>3, <2>4
<1>3. CASE DaemonDies
  <2>1. /\ index' = saved /\ lost' = lost \cup {c \in index \ saved : Live(c)}
        /\ UNCHANGED <<child, saved, mistaken, faults>> /\ Listed'
    BY <1>3 DEF DaemonDies, Fresh, Listed
  <2>2. \A c \in Pids : Live(c) /\ child[c] # "new" => c \in saved \cup lost' \cup mistaken
    BY <2>1 DEF GhostsTracked
  <2>3. faults = 0 => lost' = {}
    BY <2>1 DEF GhostsTracked, Unfailed
  <2> QED
    BY <2>1, <2>2, <2>3 DEF Filed, Unfailed, GhostsTracked, Live
(* A goroutine goes on, from a point where it runs no process or to one    *)
(* where it still does.                                                    *)
<1>15. ASSUME NEW p \in Peers, NEW t, stage' = [stage EXCEPT ![p] = t],
              UNCHANGED <<child, orphans, pid>>,
              stage[p] \in Running => t \in Running \/ ~Live(pid[p]),
              t \in Told \cup {"init", "abandon"} => stage[p] \in Told \cup {"init", "abandon"}
       PROVE  Good'
  <2>1. \A c \in Pids : Live(c) /\ Attended(c) => Attended(c)'
    BY <1>15 DEF Attended, Runs, Live, TypeOK, Goroutines
  <2> QED
    BY <1>1, <1>15, <2>1 DEF Live, TypeOK, Goroutines
<1>4. CASE Cancel \/ Close \/ Closed \/ Consume \/ \E c \in Pids : SweepLooks(c)
  <2>1. UNCHANGED <<child, stage, pid, index, saved, lost, mistaken, faults>>
    BY <1>4 DEF Cancel, Close, Closed, Consume, SweepLooks, process, orphans
  <2> QED
    BY <2>1 DEF Listed, Filed, Unfailed, GhostsTracked, Live, Attended, Runs
<1>5. CASE Released
  BY <1>15, <1>5 DEF Released, process, Running, TypeOK, Calls
<1>6. ASSUME NEW p \in Peers, Ensure(p) PROVE Good'
  <2>1. stage[p] = "none"
    BY <1>6 DEF Ensure, Owned
  <2> QED
    BY <1>15, <1>6, <2>1 DEF Ensure, process, Running
<1>16. ASSUME NEW p \in Peers, Release(p) \/ Read(p) \/ Interrupt(p) PROVE Good'
  BY <1>1, <1>16 DEF Release, Read, Interrupt, process, Live, Attended, Runs
<1>7. ASSUME NEW p \in Peers, KeepAlive(p) PROVE Good'
  <2>1. ASSUME NEW c \in Pids, Spawn(p, c) PROVE Good'
    <3>1. /\ child[c] = "dead" /\ child' = [child EXCEPT ![c] = "new"] /\ lost' = lost \ {c}
          /\ mistaken' = mistaken \ {c}
          /\ UNCHANGED <<index, saved, faults>> /\ pid' = [pid EXCEPT ![p] = c]
          /\ stage' = [stage EXCEPT ![p] = "track"] /\ ~Attended(c) /\ stage[p] = "spawn"
      BY <2>1 DEF Spawn
    <3>2. Unfailed'
      BY <3>1 DEF Unfailed
    <3>7. Listed'
      <4> SUFFICES ASSUME NEW q \in Peers, stage'[q] \in Told \cup {"init", "abandon"},
                          Live(pid[q])'
                   PROVE  pid'[q] \in index' \cup mistaken'
        BY DEF Listed
      <4>1. q # p /\ pid'[q] = pid[q] /\ stage'[q] = stage[q] /\ pid[q] \in Pids
        BY <3>1 DEF TypeOK, Goroutines, Running
      <4>2. pid[q] # c
        BY <3>1, <4>1 DEF Attended, Runs, Running
      <4>3. Live(pid[q])
        BY <3>1, <4>1, <4>2 DEF Live, TypeOK, Processes
      <4> QED
        BY <3>1, <4>1, <4>2, <4>3 DEF Listed
    <3>3. \A d \in Pids : Live(d)' /\ child'[d] # "new"
                              => Live(d) /\ child[d] # "new" /\ d # c
      BY <3>1 DEF Live, Ghosts, TypeOK, Processes
    <3>4. GhostsTracked'
      BY <3>1, <3>3 DEF GhostsTracked
    <3>5. \A d \in Pids \ {c} : Attended(d) => Attended(d)'
      BY <3>1 DEF Attended, Runs, TypeOK, Goroutines, Running
    <3>6. Filed'
      BY <3>1, <3>3, <3>5 DEF Filed
    <3> QED
      BY <3>2, <3>4, <3>6, <3>7
  <2>2. CASE Track(p)
    <3>1. /\ Persist /\ index' = index \cup {pid[p]} /\ UNCHANGED <<child, lost, pid>>
          /\ mistaken' = mistaken \ {pid[p]}
          /\ stage' = [stage EXCEPT ![p] = "init"] /\ stage[p] = "track"
      BY <2>2 DEF Track, process
    <3>2. Listed'
      BY <3>1 DEF Listed, Live, TypeOK, Goroutines
    <3>3. GhostsTracked'
      BY <3>1 DEF GhostsTracked, Live, Persist, TypeOK, Processes
    <3>4. Attended(pid[p]) /\ \A c \in Pids : Attended(c) => Attended(c)'
      BY <3>1 DEF Attended, Runs, Running, TypeOK, Goroutines
    <3> QED
      BY <1>0, <3>1, <3>2, <3>3, <3>4
  <2>3. CASE WriteInit(p)
    <3>1. /\ child[pid[p]] = "new" /\ child' = [child EXCEPT ![pid[p]] = "init"]
          /\ stage[p] = "init" /\ stage' = [stage EXCEPT ![p] = "consume"]
          /\ UNCHANGED <<orphans, pid>> /\ pid[p] \in Pids
      BY <2>3 DEF WriteInit, TypeOK, Goroutines, Running
    <3>2. pid[p] \in index \cup mistaken
      BY <3>1 DEF Listed, Live, Ghosts
    <3>3. \A c \in Pids : Live(c)' => Live(c) /\ (c # pid[p] => child'[c] = child[c])
      BY <3>1 DEF Live, Ghosts, TypeOK, Processes
    <3>4. \A c \in Pids : Runs(p, c)' <=> Runs(p, c)
      BY <3>1 DEF Runs, Running, TypeOK, Goroutines
    <3>5. \A q \in Peers \ {p} : stage'[q] = stage[q]
      BY <3>1 DEF TypeOK, Goroutines
    <3>6. \A c \in Pids : Attended(c) => Attended(c)'
      BY <3>1, <3>4, <3>5 DEF Attended, Runs
    <3>7. Attended(pid[p])
      BY <3>1 DEF Attended, Runs, Running
    <3>8. GhostsTracked' /\ Unfailed'
      BY <3>1, <3>2, <3>3 DEF orphans, GhostsTracked, Unfailed
    <3>9. Filed'
      BY <3>1, <3>3, <3>6, <3>7 DEF orphans, Filed
    <3>10. Listed'
      BY <3>1, <3>2, <3>3, <3>5 DEF orphans, Listed, TypeOK, Goroutines, Running
    <3> QED
      BY <3>8, <3>9, <3>10
  <2>4. CASE SpawnFails(p) \/ WriteInitFails(p) \/ Stopping(p)
    BY <1>15, <2>4 DEF SpawnFails, WriteInitFails, Stopping, process, Running
  <2>5. CASE Abandon(p)
    <3>1. /\ stage[p] = "abandon" /\ child[pid[p]] = "dead" /\ UNCHANGED <<process, orphans>>
          /\ stage' = [stage EXCEPT ![p] = "ended"] /\ pid' = [pid EXCEPT ![p] = Nobody]
      BY <2>5 DEF Abandon
    <3>2. Listed' /\ GhostsTracked' /\ Unfailed'
      BY <3>1 DEF process, orphans, Listed, GhostsTracked, Unfailed, Live, TypeOK, Goroutines
    <3>3. \A c \in Pids : Attended(c) /\ Live(c) => Attended(c)'
      BY <3>1 DEF Attended, Runs, Live, Ghosts, TypeOK, Goroutines
    <3>4. Filed'
      BY <3>1, <3>3 DEF process, orphans, Filed, Live
    <3> QED
      BY <3>2, <3>4
  <2>6. CASE SeeReady(p) \/ SeeFrame(p) \/ SeeError(p) \/ Push(p)
    BY <1>15, <2>6 DEF SeeReady, SeeFrame, SeeError, Push, process, Running
  <2>7. CASE StreamEnds(p) \/ Drained(p)
    BY <1>15, <2>7 DEF StreamEnds, Drained, ReaderDone, Reap, process, Live, Ghosts
(* What was deleted by mistake is the ghost of another peer.               *)
  <2>10. CASE Forget(p)
    <3>1. /\ stage[p] = "forget" /\ index' = index \ {pid[p]}
          /\ stage' = [stage EXCEPT ![p] = "ended"] /\ pid' = [pid EXCEPT ![p] = Nobody]
          /\ mistaken' = mistaken \cup {c \in index \cap {pid[p]} : Live(c)}
          /\ UNCHANGED <<child, lost>> /\ Persist
      BY <2>10 DEF Forget, process
    <3>2. \A c \in Pids : c \in index \cup mistaken /\ Live(c) => c \in index' \cup mistaken'
      BY <3>1
    <3>3. Listed'
      BY <3>1, <3>2 DEF Listed, Live, TypeOK, Goroutines, Running
    <3>4. \A c \in Pids : Attended(c) => Attended(c)'
      BY <3>1 DEF Attended, Runs, Running, TypeOK, Goroutines
    <3>5. mistaken' # {} => \E q, r \in Peers : q # r
      BY <3>1 DEF Reused, GhostsTracked
    <3>6. faults' = 0 => lost' = {}
      BY <3>1 DEF GhostsTracked, Persist, TypeOK, Processes
    <3>7. GhostsTracked'
      BY <3>1, <3>2, <3>5, <3>6 DEF GhostsTracked, Live
    <3> QED
      BY <1>0, <3>1, <3>3, <3>4, <3>7
  <2>8. CASE Ended(p)
    <3>1. /\ stage[p] = "ended" /\ \E t \in {"gone", "backoff"} : stage' = [stage EXCEPT ![p] = t]
          /\ UNCHANGED <<child, orphans, pid>>
      BY <2>8 DEF Ended, process
    <3> QED
      BY <1>15, <3>1 DEF Running
  <2>9. CASE Retry(p)
    <3>1. /\ stage[p] = "backoff" /\ \E t \in {"gone", "spawn"} : stage' = [stage EXCEPT ![p] = t]
          /\ UNCHANGED <<child, orphans, pid>>
      BY <2>9 DEF Retry, process
    <3> QED
      BY <1>15, <3>1 DEF Running
  <2> QED
    BY <1>7, <2>1, <2>2, <2>3, <2>4, <2>5, <2>6, <2>7, <2>8, <2>9, <2>10 DEF KeepAlive
<1>8. ASSUME NEW p \in Peers, Kill(p) PROVE Good'
  BY <1>1, <1>8 DEF Kill, Dies, Live, Ghosts, Attended, Runs, TypeOK, Processes
<1>9. ASSUME NEW p \in Peers, Report(p) \/ Emit(p) \/ EndpointGone(p) PROVE Good'
  BY <1>1, <1>9 DEF Report, Emit, EndpointGone, Becomes, process, memory, Live, Ghosts,
                    Attended, Runs, Running, TypeOK, Processes, Goroutines
<1>10. ASSUME NEW c \in Pids, PublishRecord(c) \/ SeeEof(c) \/ StopServing(c) \/ Withdraw(c)
       PROVE  Good'
  BY <1>1, <1>10 DEF PublishRecord, SeeEof, StopServing, Withdraw, Becomes, Dies, memory, Live, Ghosts,
                     Attended, Runs, TypeOK, Processes
<1>11. ASSUME NEW c \in Pids, Crash(c) \/ ForeignStarts(c) \/ ForeignEnds(c) PROVE Good'
  BY <1>1, <1>11 DEF Crash, ForeignStarts, ForeignEnds, Becomes, Dies, memory, Live, Ghosts,
                     Attended, Runs, TypeOK, Processes
<1>12. CASE UNCHANGED vars
  BY <1>1, <1>12 DEF vars, orphans, sweep, Live, Attended, Runs
<1> QED
  BY <1>2, <1>3, <1>4, <1>5, <1>6, <1>7, <1>8, <1>9, <1>10, <1>11, <1>12, <1>13, <1>14, <1>16
     DEF Next, World

(* A number passes to another ghost when the process that had it is dead.  *)
LEMMA NextReused ==
    ASSUME TypeOK, Reused, [Next]_vars
    PROVE  Reused'
<1> USE SupervisorAssumption DEF GoTo
<1>1. ASSUME UNCHANGED pid, \A p \in Peers : stage'[p] = "forget" => stage[p] = "forget",
             \A c \in Pids : Live(c)' => Live(c)
      PROVE  Reused'
  BY <1>1 DEF Reused, TypeOK, Goroutines
<1>2. CASE Start \/ DaemonDies
  BY <1>2 DEF Start, DaemonDies, Fresh, Reused
<1>3. CASE Cancel \/ Close \/ Closed \/ Consume
  BY <1>1, <1>3 DEF Cancel, Close, Closed, Consume, process, Live
<1>4. CASE SweepRemoves \/ SweepEnds \/ \E c \in Pids : SweepLooks(c)
  BY <1>1, <1>4 DEF SweepRemoves, SweepEnds, SweepLooks, process, Live
<1>5. CASE Released
  BY <1>1, <1>5 DEF Released, process, Live, TypeOK, Goroutines, Calls
<1>6. ASSUME NEW p \in Peers, Ensure(p) \/ Release(p) \/ Read(p) \/ Interrupt(p) PROVE Reused'
  BY <1>1, <1>6 DEF Ensure, Release, Read, Interrupt, process, Live, TypeOK, Goroutines
<1>7. ASSUME NEW p \in Peers, Kill(p) PROVE Reused'
  BY <1>1, <1>7 DEF Kill, Dies, Live, Ghosts, TypeOK, Processes
<1>8. ASSUME NEW p \in Peers, KeepAlive(p) PROVE Reused'
  <2>1. ASSUME NEW c \in Pids, Spawn(p, c) PROVE Reused'
    <3>1. \A q \in Peers : stage'[q] = "forget" => q # p /\ q \in Peers
      BY <2>1 DEF Spawn, TypeOK, Goroutines
    <3> QED
      BY <3>1 DEF Reused
  <2>2. CASE SpawnFails(p) \/ Track(p) \/ WriteInitFails(p) \/ Stopping(p) \/ Retry(p) \/ Ended(p)
    BY <1>1, <2>2 DEF SpawnFails, Track, WriteInitFails, Stopping, Retry, Ended, process, Live,
                      TypeOK, Goroutines
  <2>3. CASE WriteInit(p)
    BY <1>1, <2>3 DEF WriteInit, Live, Ghosts, TypeOK, Processes, Goroutines
  <2>4. CASE Abandon(p) \/ Forget(p)
    <3>1. /\ pid' = [pid EXCEPT ![p] = Nobody] /\ stage' = [stage EXCEPT ![p] = "ended"]
          /\ UNCHANGED child
      BY <2>4 DEF Abandon, Forget, process
    <3> QED
      BY <3>1 DEF Reused, Live, TypeOK, Goroutines
  <2>5. CASE SeeReady(p) \/ SeeFrame(p) \/ SeeError(p) \/ Push(p)
    BY <1>1, <2>5 DEF SeeReady, SeeFrame, SeeError, Push, process, Live, TypeOK, Goroutines
  <2>6. CASE StreamEnds(p) \/ Drained(p)
    <3>1. /\ ~Live(pid[p]) /\ stage' = [stage EXCEPT ![p] = "forget"] /\ UNCHANGED <<child, pid>>
      BY <2>6 DEF StreamEnds, Drained, ReaderDone, Reap, process, Live, Ghosts
    <3> QED
      BY <3>1 DEF Reused, Live, TypeOK, Goroutines
  <2> QED
    BY <1>8, <2>1, <2>2, <2>3, <2>4, <2>5, <2>6 DEF KeepAlive
<1>9. ASSUME NEW p \in Peers, Report(p) \/ Emit(p) \/ EndpointGone(p) PROVE Reused'
  BY <1>1, <1>9 DEF Report, Emit, EndpointGone, Becomes, process, memory, Live, Ghosts, Running,
                    TypeOK, Processes, Goroutines
<1>10. ASSUME NEW c \in Pids, PublishRecord(c) \/ SeeEof(c) \/ StopServing(c) \/ Withdraw(c)
       PROVE  Reused'
  BY <1>1, <1>10 DEF PublishRecord, SeeEof, StopServing, Withdraw, Becomes, Dies, memory, Live,
                     Ghosts, TypeOK, Processes
<1>11. ASSUME NEW c \in Pids, Crash(c) \/ ForeignStarts(c) \/ ForeignEnds(c) PROVE Reused'
  BY <1>1, <1>11 DEF Crash, ForeignStarts, ForeignEnds, Becomes, Dies, memory, Live, Ghosts,
                     TypeOK, Processes
<1>12. CASE UNCHANGED vars
  BY <1>1, <1>12 DEF vars, Live
<1> QED
  BY <1>2, <1>3, <1>4, <1>5, <1>6, <1>7, <1>8, <1>9, <1>10, <1>11, <1>12 DEF Next, World

(* While a sweep goes on no goroutine runs; what it found dead stays so,   *)
(* or is a session that came late.                                         *)
LEMMA NextSwept ==
    ASSUME TypeOK, Owned, Swept, SweepSparesTheLiving, [Next]_vars
    PROVE  Swept' /\ SweepSparesTheLiving'
<1> USE SupervisorAssumption DEF GoTo
<1> DEFINE Good == Swept /\ SweepSparesTheLiving
           Spared == {"published", "ready", "stopping", "foreign"}
<1>1. child \in [Pids -> ChildStates] /\ found \in Pids \cup {Nobody}
  BY DEF TypeOK, Processes
<1>2. life # "sweeping" => found = Nobody
  BY DEF Swept
<1>3. \A p \in Peers : stage[p] # "none" => life # "sweeping"
  BY DEF Owned
(* Nothing is about to be removed, and no process comes to have a record   *)
(* to lose.                                                                *)
<1>4. ASSUME found' = Nobody, UNCHANGED records,
             \A c \in Pids : child'[c] \in Spared => child[c] \in Spared
      PROVE  Good'
  BY <1>4 DEF Swept, SweepSparesTheLiving
<1>5. CASE Start \/ DaemonDies \/ Cancel \/ Close \/ Closed \/ SweepEnds
  BY <1>2, <1>4, <1>5 DEF Start, DaemonDies, Cancel, Close, Closed, SweepEnds, process, orphans,
                          sweep
<1>6. CASE Consume \/ UNCHANGED vars
  BY <1>6 DEF Consume, vars, process, orphans, sweep, calls, Swept, SweepSparesTheLiving
<1>7. ASSUME NEW c \in Pids, SweepLooks(c) PROVE Good'
  BY <1>7 DEF SweepLooks, process, calls, Swept, SweepSparesTheLiving
<1>8. CASE SweepRemoves
  <2>1. child[found] \notin Spared /\ found' = Nobody /\ UNCHANGED child
    BY <1>8 DEF SweepRemoves, Swept
  <2> QED
    BY <1>8, <2>1 DEF SweepRemoves, Swept, SweepSparesTheLiving
<1>9. CASE Released
  <2>1. stage[releasing] = "gone" /\ releasing \in Peers /\ UNCHANGED <<process, orphans>>
    BY <1>9 DEF Released, TypeOK, Calls
  <2> QED
    BY <1>2, <1>3, <1>4, <2>1 DEF process, orphans, sweep
<1>10. ASSUME NEW p \in Peers, Ensure(p) \/ Release(p) PROVE Good'
  BY <1>2, <1>4, <1>10 DEF Ensure, Release, process, orphans, sweep
<1>11. ASSUME NEW p \in Peers, Read(p) \/ Interrupt(p) \/ Kill(p) PROVE Good'
  BY <1>1, <1>2, <1>3, <1>4, <1>11
     DEF Read, Interrupt, Kill, Dies, process, orphans, sweep, Running
<1>12. ASSUME NEW p \in Peers, KeepAlive(p) PROVE Good'
  <2>1. stage[p] # "none"
    BY <1>12 DEF KeepAlive, Spawn, SpawnFails, Track, WriteInit, WriteInitFails, Abandon,
                 SeeReady, SeeFrame, SeeError, Push, StreamEnds, Stopping, Drained, Forget,
                 Ended, Retry
  <2>2. found = Nobody
    BY <1>2, <1>3, <2>1
  <2>3. UNCHANGED <<found, records>>
    BY <1>12 DEF KeepAlive, Spawn, SpawnFails, Track, WriteInit, WriteInitFails, Abandon,
                 SeeReady, SeeFrame, SeeError, Push, StreamEnds, Stopping, Drained, Reap, Forget,
                 Ended, Retry, process, orphans, sweep
  <2>4. \/ UNCHANGED child
        \/ \E c \in Pids : child' = [child EXCEPT ![c] = "new"]
        \/ child' = [child EXCEPT ![pid[p]] = "init"]
    BY <1>12 DEF KeepAlive, Spawn, SpawnFails, Track, WriteInit, WriteInitFails, Abandon,
                 SeeReady, SeeFrame, SeeError, Push, StreamEnds, Stopping, Drained, Reap, Forget,
                 Ended, Retry, process
  <2> QED
    BY <1>1, <1>4, <2>2, <2>3, <2>4
<1>13. ASSUME NEW p \in Peers, Report(p) \/ Emit(p) \/ EndpointGone(p) PROVE Good'
  BY <1>1, <1>2, <1>3, <1>4, <1>13
     DEF Report, Emit, EndpointGone, Becomes, process, memory, orphans, sweep, Running
<1>14. ASSUME NEW c \in Pids, PublishRecord(c) \/ SeeEof(c) \/ StopServing(c) \/ Withdraw(c)
       PROVE  Good'
  BY <1>1, <1>14 DEF PublishRecord, SeeEof, StopServing, Withdraw, Becomes, Dies, memory, orphans,
                     sweep, calls, Swept, SweepSparesTheLiving
<1>15. ASSUME NEW c \in Pids, Crash(c) \/ ForeignStarts(c) \/ ForeignEnds(c) PROVE Good'
  BY <1>1, <1>15 DEF Crash, ForeignStarts, ForeignEnds, Becomes, Dies, memory, orphans, sweep,
                     calls, Swept, SweepSparesTheLiving
<1> QED
  BY <1>5, <1>6, <1>7, <1>8, <1>9, <1>10, <1>11, <1>12, <1>13, <1>14, <1>15 DEF Next, World

(* A process runs for the peer whose goroutine started it, until that has  *)
(* seen it dead; only the death of the daemon leaves one alone, and closes *)
(* its standard input.                                                     *)
LEMMA NextAttended ==
    ASSUME TypeOK, Owned, ClosedIsQuiet, GhostsAttended, [Next]_vars
    PROVE  GhostsAttended'
<1> USE SupervisorAssumption DEF GoTo
(* The peers and their processes stay, and no process comes to life or     *)
(* has its standard input opened again.                                    *)
<1>1. ASSUME UNCHANGED <<wanted, releasing>>,
             \A c \in Pids : Live(c)' => /\ Live(c) /\ (c \in eof => c \in eof')
                                         /\ \A p \in Peers : Runs(p, c)' <=> Runs(p, c)
      PROVE  GhostsAttended'
  BY <1>1 DEF GhostsAttended, Attended
<1>2. CASE Start
  <2>1. \A p \in Peers : stage[p] \notin Running
    BY <1>2 DEF Start, Owned, ClosedIsQuiet, Running
  <2>2. \A c \in Pids : Live(c) => c \in eof
    BY <2>1 DEF GhostsAttended, Attended, Runs
  <2>3. \A p \in Peers : stage'[p] \notin Running
    BY <1>2 DEF Start, Fresh, Running
  <2> QED
    BY <1>2, <2>2, <2>3 DEF Start, process, GhostsAttended, Attended, Runs, Live
<1>15. ASSUME NEW p \in Peers, NEW t, stage' = [stage EXCEPT ![p] = t], UNCHANGED <<child, pid>>,
              eof \subseteq eof', UNCHANGED <<wanted, releasing>>,
              stage[p] \in Running /\ Live(pid[p]) <=> t \in Running /\ Live(pid[p])
       PROVE  GhostsAttended'
  BY <1>1, <1>15 DEF Runs, Live, TypeOK, Goroutines
<1>3. CASE DaemonDies
  <2>1. eof' = {c \in Pids : Live(c)} /\ child' = child /\ \A p \in Peers : stage'[p] \notin Running
    BY <1>3 DEF DaemonDies, Fresh, Running
  <2> QED
    BY <2>1 DEF GhostsAttended, Attended, Runs, Live
<1>4. CASE Cancel \/ Close \/ Closed \/ Consume
  BY <1>1, <1>4 DEF Cancel, Close, Closed, Consume, process, calls, Live, Runs
<1>16. CASE SweepRemoves \/ SweepEnds \/ \E c \in Pids : SweepLooks(c)
  BY <1>1, <1>16 DEF SweepRemoves, SweepEnds, SweepLooks, process, calls, Live, Runs
<1>5. CASE Released
  <2>1. /\ stage[releasing] = "gone" /\ stage' = [stage EXCEPT ![releasing] = "none"]
        /\ releasing \in Peers /\ UNCHANGED <<process, pid, wanted>>
    BY <1>5 DEF Released, TypeOK, Calls
  <2>2. \A p \in Peers, c \in Pids : /\ Runs(p, c)' <=> Runs(p, c)
                                     /\ Runs(p, c) => p # releasing
    BY <2>1 DEF Runs, Running, TypeOK, Goroutines
  <2> QED
    BY <2>1, <2>2 DEF GhostsAttended, Attended, process, Live
<1>6. ASSUME NEW p \in Peers, Ensure(p) \/ Release(p) PROVE GhostsAttended'
  <2>1. CASE Ensure(p)
    <3>1. stage[p] = "none" /\ stage' = [stage EXCEPT ![p] = "spawn"] /\ wanted \subseteq wanted'
          /\ UNCHANGED <<process, pid, releasing>>
      BY <2>1 DEF Ensure, Owned
    <3>2. \A q \in Peers, c \in Pids : Runs(q, c)' <=> Runs(q, c)
      BY <3>1 DEF Runs, Running, TypeOK, Goroutines
    <3> QED
      BY <3>1, <3>2 DEF GhostsAttended, Attended, process, Live
  <2>2. CASE Release(p)
    BY <2>2 DEF Release, GhostsAttended, Attended, Runs, process, Live
  <2> QED
    BY <1>6, <2>1, <2>2
<1>7. ASSUME NEW p \in Peers, Read(p) \/ Interrupt(p) PROVE GhostsAttended'
  BY <1>1, <1>7 DEF Read, Interrupt, CloseInput, process, calls, Live, Runs
<1>8. ASSUME NEW p \in Peers, Kill(p) PROVE GhostsAttended'
  BY <1>1, <1>8 DEF Kill, Dies, calls, Live, Ghosts, Runs, TypeOK, Processes
<1>9. ASSUME NEW p \in Peers, child[pid[p]] = "dead" \/ stage[p] \notin Running,
             pid' = [pid EXCEPT ![p] = Nobody], stage' = [stage EXCEPT ![p] = "ended"],
             UNCHANGED <<process, calls>>
      PROVE  GhostsAttended'
  <2>1. \A q \in Peers, c \in Pids : Live(c) => (Runs(q, c)' <=> Runs(q, c))
    BY <1>9 DEF Runs, Running, Live, Ghosts, TypeOK, Goroutines
  <2> QED
    BY <1>1, <1>9, <2>1 DEF process, calls, Live
<1>10. ASSUME NEW p \in Peers, KeepAlive(p) PROVE GhostsAttended'
  <2>1. ASSUME NEW c \in Pids, Spawn(p, c) PROVE GhostsAttended'
    <3>1. (p \in wanted \/ p = releasing) /\ pid[p] = Nobody /\ stage[p] = "spawn"
      BY <2>1 DEF Spawn, Owned, TypeOK, Goroutines, Running
    <3>2. /\ pid' = [pid EXCEPT ![p] = c] /\ child' = [child EXCEPT ![c] = "new"]
          /\ stage' = [stage EXCEPT ![p] = "track"] /\ UNCHANGED <<eof, wanted, releasing>>
      BY <2>1 DEF Spawn, calls
    <3>3. ASSUME NEW d \in Pids \ {c}, Live(d)'
          PROVE  \/ \E q \in Peers : Runs(q, d)' /\ (q \in wanted' \/ q = releasing')
                 \/ ~Attended(d)' /\ d \in eof'
      <4>1. Live(d)
        BY <3>2, <3>3 DEF Live, TypeOK, Processes
      <4>2. \A q \in Peers : Runs(q, d)' <=> Runs(q, d)
        BY <3>1, <3>2, <3>3 DEF Runs, Running, TypeOK, Goroutines
      <4> QED
        BY <3>2, <4>1, <4>2 DEF GhostsAttended, Attended
    <3>4. Runs(p, c)'
      BY <3>1, <3>2 DEF Runs, Running, TypeOK, Goroutines
    <3> QED
      BY <3>1, <3>2, <3>3, <3>4 DEF GhostsAttended
  <2>2. CASE SpawnFails(p) \/ Track(p)
    BY <1>15, <2>2 DEF SpawnFails, Track, process, calls, Running
  <2>8. CASE Ended(p) \/ Retry(p)
    <3>1. /\ stage[p] \in {"ended", "backoff"} /\ UNCHANGED <<process, pid, calls>>
          /\ \E t \in {"gone", "backoff", "spawn"} : stage' = [stage EXCEPT ![p] = t]
      BY <2>8 DEF Ended, Retry
    <3> QED
      BY <1>15, <3>1 DEF process, calls, Running
  <2>3. CASE WriteInit(p)
    <3>1. \A q \in Peers, c \in Pids : Runs(q, c)' <=> Runs(q, c)
      BY <2>3 DEF WriteInit, Runs, Running, TypeOK, Goroutines
    <3> QED
      BY <1>1, <2>3, <3>1 DEF WriteInit, calls, Live, Ghosts, TypeOK, Processes
  <2>4. CASE WriteInitFails(p) \/ Stopping(p)
    BY <1>15, <2>4 DEF WriteInitFails, Stopping, CloseInput, calls, Running
  <2>5. CASE Abandon(p)
    BY <1>9, <2>5 DEF Abandon
  <2>9. CASE Forget(p)
    BY <1>9, <2>9 DEF Forget, Running
  <2>6. CASE SeeReady(p) \/ SeeFrame(p) \/ SeeError(p) \/ Push(p)
    BY <1>15, <2>6 DEF SeeReady, SeeFrame, SeeError, Push, process, calls, Running
  <2>7. CASE StreamEnds(p) \/ Drained(p)
    BY <1>15, <2>7 DEF StreamEnds, Drained, ReaderDone, Reap, process, calls, Live, Ghosts
  <2> QED
    BY <1>10, <2>1, <2>2, <2>3, <2>4, <2>5, <2>6, <2>7, <2>8, <2>9 DEF KeepAlive
<1>11. ASSUME NEW p \in Peers, Report(p) \/ Emit(p) \/ EndpointGone(p) PROVE GhostsAttended'
  BY <1>1, <1>11 DEF Report, Emit, EndpointGone, Becomes, process, memory, calls, Live, Ghosts,
                     Runs, Running, TypeOK, Processes, Goroutines
<1>12. ASSUME NEW c \in Pids, PublishRecord(c) \/ SeeEof(c) \/ StopServing(c) \/ Withdraw(c)
       PROVE  GhostsAttended'
  BY <1>1, <1>12 DEF PublishRecord, SeeEof, StopServing, Withdraw, Becomes, Dies, memory, calls, Live,
                     Ghosts, Runs, TypeOK, Processes
<1>13. ASSUME NEW c \in Pids, Crash(c) \/ ForeignStarts(c) \/ ForeignEnds(c)
       PROVE  GhostsAttended'
  BY <1>1, <1>13 DEF Crash, ForeignStarts, ForeignEnds, Becomes, Dies, memory, calls, Live,
                     Ghosts, Runs, TypeOK, Processes
<1>14. CASE UNCHANGED vars
  BY <1>1, <1>14 DEF vars, Live, Runs
<1> QED
  BY <1>2, <1>3, <1>4, <1>5, <1>6, <1>7, <1>8, <1>10, <1>11, <1>12, <1>13, <1>14, <1>16
     DEF Next, World

-----------------------------------------------------------------------------
(* Frames.                                                                 *)

(* Before it is told to publish a ghost is new, or has died.               *)
LEMMA NextUntold ==
    ASSUME TypeOK, Apart, Untold, [Next]_vars
    PROVE  Untold'
<1> USE SupervisorAssumption DEF GoTo
<1> DEFINE Early == {"track", "init", "abandon"}
(* The others go on, and the process of a goroutine that has told it       *)
(* nothing at most dies.                                                   *)
<1>1. ASSUME UNCHANGED pid,
             \A p \in Peers : stage'[p] \in Early => stage[p] \in Early,
             \A c \in Pids : child[c] \in {"new", "dead"} /\ Attended(c)
                               => child'[c] \in {"new", "dead"}
      PROVE  Untold'
  BY <1>1 DEF Untold, Attended, Runs, TypeOK, Goroutines, Running
<1>2. CASE Start \/ DaemonDies
  BY <1>2 DEF Start, DaemonDies, Fresh, Untold
<1>3. CASE Cancel \/ Close \/ Closed \/ Consume
  BY <1>1, <1>3 DEF Cancel, Close, Closed, Consume, process
<1>13. CASE SweepRemoves \/ SweepEnds \/ \E c \in Pids : SweepLooks(c)
  BY <1>1, <1>13 DEF SweepRemoves, SweepEnds, SweepLooks, process
<1>4. CASE Released
  BY <1>1, <1>4 DEF Released, process, TypeOK, Goroutines, Calls
<1>5. ASSUME NEW p \in Peers, Ensure(p) \/ Release(p) \/ Read(p) \/ Interrupt(p) PROVE Untold'
  BY <1>1, <1>5 DEF Ensure, Release, Read, Interrupt, process, TypeOK, Goroutines
<1>6. ASSUME NEW p \in Peers, Kill(p) PROVE Untold'
  BY <1>1, <1>6 DEF Kill, Dies, TypeOK, Processes
<1>7. ASSUME NEW p \in Peers, KeepAlive(p) PROVE Untold'
  <2>1. ASSUME NEW c \in Pids, Spawn(p, c) PROVE Untold'
    <3>1. \A q \in Peers : stage[q] \in Early => q # p /\ pid[q] # c
      BY <2>1 DEF Spawn, Attended, Runs, Running
    <3> QED
      BY <2>1, <3>1 DEF Spawn, Untold, TypeOK, Goroutines, Processes, Running
  <2>2. CASE SpawnFails(p) \/ Stopping(p)
    BY <1>1, <2>2 DEF SpawnFails, Stopping, process, TypeOK, Goroutines
  <2>3. CASE Track(p) \/ WriteInitFails(p) \/ Push(p)
    BY <1>1, <2>3 DEF Track, WriteInitFails, Push, process, TypeOK, Goroutines
  <2>4. CASE WriteInit(p)
    <3>1. \A q \in Peers : q # p /\ stage[q] \in Early => pid[q] # pid[p]
      BY <2>4 DEF WriteInit, Apart, TypeOK, Goroutines, Running
    <3> QED
      BY <2>4, <3>1 DEF WriteInit, Untold, TypeOK, Goroutines, Processes, Running
  <2>5. CASE Abandon(p) \/ Forget(p)
    BY <2>5 DEF Abandon, Forget, Untold, process, TypeOK, Goroutines
  <2>6. CASE StreamEnds(p) \/ Drained(p)
    BY <1>1, <2>6 DEF StreamEnds, Drained, Reap, process, TypeOK, Goroutines
  <2>7. CASE SeeReady(p) \/ SeeFrame(p) \/ SeeError(p)
    BY <1>1, <2>7 DEF SeeReady, SeeFrame, SeeError, process, TypeOK, Goroutines
  <2>8. CASE Ended(p) \/ Retry(p)
    <3>1. /\ UNCHANGED <<process, pid>>
          /\ \E u \in {"gone", "backoff", "spawn"} : stage' = [stage EXCEPT ![p] = u]
      BY <2>8 DEF Ended, Retry
    <3> QED
      BY <1>1, <3>1 DEF process, TypeOK, Goroutines
  <2> QED
    BY <1>7, <2>1, <2>2, <2>3, <2>4, <2>5, <2>6, <2>7, <2>8 DEF KeepAlive
<1>8. ASSUME NEW p \in Peers, Report(p) \/ Emit(p) \/ EndpointGone(p) PROVE Untold'
  BY <1>1, <1>8 DEF Report, Emit, EndpointGone, Becomes, process, memory, Running,
                    TypeOK, Processes, Goroutines
<1>10. ASSUME NEW c \in Pids, PublishRecord(c) \/ SeeEof(c) \/ StopServing(c) \/ Withdraw(c)
       PROVE  Untold'
  BY <1>1, <1>10 DEF PublishRecord, SeeEof, StopServing, Withdraw, Becomes, Dies, memory,
                     TypeOK, Processes
<1>11. ASSUME NEW c \in Pids, Crash(c) \/ ForeignStarts(c) \/ ForeignEnds(c) PROVE Untold'
  BY <1>1, <1>11 DEF Crash, ForeignStarts, ForeignEnds, Becomes, Dies, memory,
                     TypeOK, Processes
<1>12. CASE UNCHANGED vars
  BY <1>1, <1>12 DEF vars
<1> QED
  BY <1>2, <1>3, <1>4, <1>5, <1>6, <1>7, <1>8, <1>10, <1>11, <1>12, <1>13 DEF Next, World

(* Frames are counted while runOnce runs a ghost that was told to publish, *)
(* and no longer once keepAlive is done with it.                           *)
LEMMA NextUncounted ==
    ASSUME TypeOK, Owned, Untold, Uncounted, [Next]_vars
    PROVE  Uncounted'
<1> USE SupervisorAssumption DEF GoTo, Told
<1> DEFINE Counted == {"consume", "push", "drain", "forget", "ended"}
<1>1. ASSUME UNCHANGED counts, \A p \in Peers : stage'[p] \notin Counted => stage[p] \notin Counted
      PROVE  Uncounted'
  BY <1>1 DEF Uncounted, counts
<1>2. ASSUME NEW p \in Peers, stage'[p] \in Counted \/ (emitted'[p] = 0 /\ pushed'[p] = 0),
             \A q \in Peers \ {p} : /\ stage'[q] = stage[q] /\ emitted'[q] = emitted[q]
                                    /\ pushed'[q] = pushed[q]
      PROVE  Uncounted'
  BY <1>2 DEF Uncounted
<1>3. CASE Start \/ DaemonDies
  BY <1>3 DEF Start, DaemonDies, Fresh, Uncounted
<1>4. CASE SweepRemoves \/ SweepEnds \/ \E c \in Pids : SweepLooks(c)
  BY <1>1, <1>4 DEF SweepRemoves, SweepEnds, SweepLooks
<1>5. CASE Cancel \/ Close \/ Closed \/ Consume
  BY <1>1, <1>5 DEF Cancel, Close, Closed, Consume
<1>6. CASE Released
  BY <1>1, <1>6 DEF Released, TypeOK, Goroutines, Calls
<1>7. ASSUME NEW p \in Peers, Ensure(p) PROVE Uncounted'
  <2>1. stage[p] = "none"
    BY <1>7 DEF Ensure, Owned
  <2> QED
    BY <1>1, <1>7, <2>1 DEF Ensure, TypeOK, Goroutines
<1>8. ASSUME NEW p \in Peers, Release(p) \/ Read(p) \/ Interrupt(p) \/ Kill(p) PROVE Uncounted'
  BY <1>1, <1>8 DEF Release, Read, Interrupt, Kill
<1>9. ASSUME NEW p \in Peers, KeepAlive(p) PROVE Uncounted'
  <2>1. CASE \E c \in Pids : Spawn(p, c)
    BY <1>1, <2>1 DEF Spawn, TypeOK, Goroutines
  <2>2. CASE SpawnFails(p) \/ Track(p) \/ WriteInit(p) \/ WriteInitFails(p) \/ Abandon(p)
    BY <1>1, <2>2 DEF SpawnFails, Track, WriteInit, WriteInitFails, Abandon, TypeOK, Goroutines
  <2>3. CASE SeeReady(p) \/ SeeFrame(p) \/ SeeError(p)
    BY <1>1, <2>3 DEF SeeReady, SeeFrame, SeeError, TypeOK, Goroutines
  <2>4. CASE Stopping(p) \/ Forget(p)
    BY <1>1, <2>4 DEF Stopping, Forget, TypeOK, Goroutines
  <2>5. CASE StreamEnds(p) \/ Drained(p)
    BY <1>1, <2>5 DEF StreamEnds, Drained, Reap, TypeOK, Goroutines
  <2>6. CASE Push(p)
    <3>1. /\ stage' = [stage EXCEPT ![p] = "consume"] /\ UNCHANGED emitted
          /\ \A q \in Peers \ {p} : pushed'[q] = pushed[q]
      BY <2>6 DEF Push, TypeOK, Channels
    <3> QED
      BY <1>2, <3>1 DEF TypeOK, Goroutines
  <2>7. CASE Ended(p)
    <3>1. /\ emitted' = [emitted EXCEPT ![p] = 0] /\ pushed' = [pushed EXCEPT ![p] = 0]
          /\ \E u \in {"gone", "backoff"} : stage' = [stage EXCEPT ![p] = u]
      BY <2>7 DEF Ended
    <3> QED
      BY <1>2, <3>1 DEF TypeOK, Goroutines, Channels
  <2>8. CASE Retry(p)
    <3>1. /\ stage[p] = "backoff" /\ UNCHANGED counts
          /\ \E u \in {"gone", "spawn"} : stage' = [stage EXCEPT ![p] = u]
      BY <2>8 DEF Retry
    <3> QED
      BY <1>1, <3>1 DEF TypeOK, Goroutines
  <2> QED
    BY <1>9, <2>1, <2>2, <2>3, <2>4, <2>5, <2>6, <2>7, <2>8 DEF KeepAlive
<1>10. ASSUME NEW p \in Peers, Report(p) \/ EndpointGone(p) PROVE Uncounted'
  BY <1>1, <1>10 DEF Report, EndpointGone, counts, memory
<1>11. ASSUME NEW p \in Peers, Emit(p) PROVE Uncounted'
  <2>1. /\ stage[p] \in Running /\ child[pid[p]] \in {"ready", "stopping"}
        /\ emitted' = [emitted EXCEPT ![p] = @ + 1] /\ UNCHANGED <<stage, pushed>>
    BY <1>11 DEF Emit, memory
  <2>2. stage[p] \in Counted
    BY <2>1 DEF Untold, Running
  <2> QED
    BY <1>2, <2>1, <2>2 DEF TypeOK, Channels
<1>12. ASSUME NEW c \in Pids,
              \/ PublishRecord(c) \/ SeeEof(c) \/ StopServing(c) \/ Withdraw(c) \/ Crash(c)
              \/ ForeignStarts(c) \/ ForeignEnds(c)
       PROVE  Uncounted'
  BY <1>1, <1>12 DEF PublishRecord, SeeEof, StopServing, Withdraw, Crash, ForeignStarts, ForeignEnds,
                     memory, counts
<1>13. CASE UNCHANGED vars
  BY <1>1, <1>13 DEF vars, counts
<1> QED
  BY <1>3, <1>4, <1>5, <1>6, <1>7, <1>8, <1>9, <1>10, <1>11, <1>12, <1>13 DEF Next, World

(* A ghost is stopped because it did not report, or because its peer is.   *)
LEMMA NextTimely ==
    ASSUME TypeOK, Owned, Timely, [Next]_vars
    PROVE  Timely'
<1> USE SupervisorAssumption DEF GoTo
<1>1. ASSUME UNCHANGED ready, cancelled \subseteq cancelled',
             \A p \in Peers : stage'[p] = "drain" => stage[p] = "drain"
      PROVE  Timely'
  BY <1>1 DEF Timely
<1>2. ASSUME NEW p \in Peers, stage'[p] = "drain" /\ ready'[p] => p \in cancelled',
             \A q \in Peers \ {p} : /\ stage'[q] = stage[q] /\ ready'[q] = ready[q]
                                    /\ q \in cancelled => q \in cancelled'
      PROVE  Timely'
  BY <1>2 DEF Timely
<1>3. CASE Start \/ DaemonDies
  BY <1>3 DEF Start, DaemonDies, Fresh, Timely
<1>4. CASE SweepRemoves \/ SweepEnds \/ \E c \in Pids : SweepLooks(c)
  BY <1>1, <1>4 DEF SweepRemoves, SweepEnds, SweepLooks
<1>5. CASE Cancel \/ Close \/ Closed \/ Consume
  BY <1>1, <1>5 DEF Cancel, Close, Closed, Consume, TypeOK, Calls
<1>6. CASE Released
  <2>1. /\ releasing \in Peers /\ stage' = [stage EXCEPT ![releasing] = "none"]
        /\ ready' = [ready EXCEPT ![releasing] = FALSE] /\ UNCHANGED cancelled
    BY <1>6 DEF Released, TypeOK, Calls
  <2> QED
    BY <1>2, <2>1 DEF TypeOK, Goroutines
<1>7. ASSUME NEW p \in Peers, Ensure(p) PROVE Timely'
  <2>1. /\ stage' = [stage EXCEPT ![p] = "spawn"] /\ ready' = [ready EXCEPT ![p] = FALSE]
        /\ \A q \in Peers \ {p} : q \in cancelled => q \in cancelled'
    BY <1>7 DEF Ensure
  <2> QED
    BY <1>2, <2>1 DEF TypeOK, Goroutines
<1>8. ASSUME NEW p \in Peers, Release(p) \/ Read(p) \/ Interrupt(p) \/ Kill(p) PROVE Timely'
  BY <1>1, <1>8 DEF Release, Read, Interrupt, Kill
<1>9. ASSUME NEW p \in Peers, KeepAlive(p) PROVE Timely'
  <2>1. CASE \E c \in Pids : Spawn(p, c)
    BY <1>1, <2>1 DEF Spawn, TypeOK, Goroutines
  <2>2. CASE SpawnFails(p) \/ Track(p) \/ WriteInit(p) \/ WriteInitFails(p) \/ Abandon(p)
    BY <1>1, <2>2 DEF SpawnFails, Track, WriteInit, WriteInitFails, Abandon, TypeOK, Goroutines
  <2>3. CASE SeeFrame(p) \/ SeeError(p) \/ Push(p) \/ Forget(p)
    BY <1>1, <2>3 DEF SeeFrame, SeeError, Push, Forget, TypeOK, Goroutines
  <2>4. CASE SeeReady(p)
    <3>1. /\ stage' = [stage EXCEPT ![p] = "consume"] /\ ready' = [ready EXCEPT ![p] = TRUE]
          /\ UNCHANGED cancelled
      BY <2>4 DEF SeeReady
    <3> QED
      BY <1>2, <3>1 DEF TypeOK, Goroutines
  <2>5. CASE StreamEnds(p) \/ Drained(p)
    BY <1>1, <2>5 DEF StreamEnds, Drained, Reap, TypeOK, Goroutines
  <2>6. CASE Stopping(p)
    BY <1>2, <2>6 DEF Stopping, TypeOK, Goroutines
  <2>7. CASE Ended(p) \/ Retry(p)
    <3>1. /\ \E u \in {"gone", "backoff", "spawn"} : stage' = [stage EXCEPT ![p] = u]
          /\ UNCHANGED cancelled /\ \A q \in Peers \ {p} : ready'[q] = ready[q]
      BY <2>7 DEF Ended, Retry, TypeOK, Goroutines
    <3> QED
      BY <1>2, <3>1 DEF TypeOK, Goroutines
  <2> QED
    BY <1>9, <2>1, <2>2, <2>3, <2>4, <2>5, <2>6, <2>7 DEF KeepAlive
<1>10. CASE World
  BY <1>1, <1>10 DEF World, Report, Emit, EndpointGone, PublishRecord, SeeEof, StopServing, Withdraw,
                     Crash, ForeignStarts, ForeignEnds, memory
<1>11. CASE UNCHANGED vars
  BY <1>1, <1>11 DEF vars
<1> QED
  BY <1>3, <1>4, <1>5, <1>6, <1>7, <1>8, <1>9, <1>10, <1>11 DEF Next

(* A ghost writes between being told to publish and its death, and its     *)
(* goroutine leaves once the stream is read to its end.                    *)
LEMMA NextUnread ==
    ASSUME TypeOK, Owned, Untold, Unread, [Next]_vars
    PROVE  Unread'
<1> USE SupervisorAssumption DEF GoTo, Told
<1>1. ASSUME UNCHANGED <<pipe, events>>,
             \A p \in Peers : stage'[p] \notin Told => stage[p] \notin Told
      PROVE  Unread'
  BY <1>1 DEF Unread
<1>2. CASE Start \/ DaemonDies
  BY <1>2 DEF Start, DaemonDies, Fresh, Unread
<1>3. CASE Cancel \/ Close \/ Closed \/ Consume
  BY <1>1, <1>3 DEF Cancel, Close, Closed, Consume
<1>13. CASE SweepRemoves \/ SweepEnds \/ \E c \in Pids : SweepLooks(c)
  BY <1>1, <1>13 DEF SweepRemoves, SweepEnds, SweepLooks
<1>4. CASE Released
  BY <1>1, <1>4 DEF Released, TypeOK, Goroutines, Calls
<1>5. ASSUME NEW p \in Peers, Ensure(p) PROVE Unread'
  <2>1. stage[p] = "none"
    BY <1>5 DEF Ensure, Owned
  <2> QED
    BY <1>1, <1>5, <2>1 DEF Ensure, TypeOK, Goroutines
<1>6. ASSUME NEW p \in Peers, Release(p) \/ Interrupt(p) \/ Kill(p) PROVE Unread'
  BY <1>1, <1>6 DEF Release, Interrupt, Kill
<1>7. ASSUME NEW p \in Peers, stage[p] \in Told, UNCHANGED stage,
             \A q \in Peers \ {p} : pipe'[q] = pipe[q] /\ events'[q] = events[q]
      PROVE  Unread'
  BY <1>7 DEF Unread
<1>8. ASSUME NEW p \in Peers, Read(p) PROVE Unread'
  BY <1>7, <1>8 DEF Read, TypeOK, Channels
<1>9. ASSUME NEW p \in Peers, KeepAlive(p) PROVE Unread'
  <2>1. CASE \E c \in Pids : Spawn(p, c)
    BY <1>1, <2>1 DEF Spawn, TypeOK, Goroutines
  <2>2. CASE SpawnFails(p) \/ Track(p) \/ WriteInit(p) \/ WriteInitFails(p)
    BY <1>1, <2>2 DEF SpawnFails, Track, WriteInit, WriteInitFails, TypeOK, Goroutines
  <2>3. CASE Abandon(p) \/ Stopping(p)
    BY <1>1, <2>3 DEF Abandon, Stopping, TypeOK, Goroutines
  <2>4. CASE Push(p) \/ Forget(p) \/ Ended(p) \/ Retry(p)
    BY <1>1, <2>4 DEF Push, Forget, Ended, Retry, TypeOK, Goroutines
  <2>5. CASE SeeReady(p) \/ SeeFrame(p) \/ SeeError(p)
    <3>1. PICK u \in Told : stage' = [stage EXCEPT ![p] = u]
      BY <2>5 DEF SeeReady, SeeFrame, SeeError
    <3>2. UNCHANGED pipe /\ \A q \in Peers \ {p} : events'[q] = events[q]
      BY <2>5 DEF SeeReady, SeeFrame, SeeError, TakeEvent, TypeOK, Channels
    <3> QED
      BY <3>1, <3>2 DEF Unread, TypeOK, Goroutines
  <2>6. CASE StreamEnds(p) \/ Drained(p)
    <3>1. /\ pipe[p] = <<>> /\ stage' = [stage EXCEPT ![p] = "forget"] /\ UNCHANGED pipe
          /\ events' = [events EXCEPT ![p] = <<>>]
      BY <2>6 DEF StreamEnds, Drained, ReaderDone, Reap
    <3> QED
      BY <3>1 DEF Unread, TypeOK, Goroutines, Channels
  <2> QED
    BY <1>9, <2>1, <2>2, <2>3, <2>4, <2>5, <2>6 DEF KeepAlive
<1>10. ASSUME NEW p \in Peers, Report(p) \/ Emit(p) \/ EndpointGone(p) PROVE Unread'
  <2>1. stage[p] \in Running /\ child[pid[p]] \in {"published", "ready", "stopping"}
    BY <1>10 DEF Report, Emit, EndpointGone, Becomes
  <2>2. stage[p] \in Told
    BY <2>1 DEF Untold, TypeOK, Goroutines, Running
  <2>3. UNCHANGED <<stage, events>> /\ \A q \in Peers \ {p} : pipe'[q] = pipe[q]
    BY <1>10 DEF Report, Emit, EndpointGone, memory, TypeOK, Channels
  <2> QED
    BY <1>7, <2>2, <2>3
<1>11. ASSUME NEW c \in Pids,
              \/ PublishRecord(c) \/ SeeEof(c) \/ StopServing(c) \/ Withdraw(c) \/ Crash(c)
              \/ ForeignStarts(c) \/ ForeignEnds(c)
       PROVE  Unread'
  BY <1>1, <1>11 DEF PublishRecord, SeeEof, StopServing, Withdraw, Crash, ForeignStarts, ForeignEnds, memory
<1>12. CASE UNCHANGED vars
  BY <1>1, <1>12 DEF vars
<1> QED
  BY <1>2, <1>3, <1>4, <1>5, <1>6, <1>8, <1>9, <1>10, <1>11, <1>12, <1>13 DEF Next, World

(* FramesKept, for one peer.                                               *)
InHand(p) == IF stage[p] = "push" THEN 1 ELSE 0
Keeping(p) == \/ stage[p] \in {"consume", "push"}
              \/ stage[p] \in {"drain", "forget", "ended"} /\ ready[p]
Kept(p) == emitted[p] = pushed[p] + Frames(events[p]) + Frames(pipe[p]) + InHand(p)

(* A frame moves from the pipe to the channel, from there into the         *)
(* goroutine's hand, and from there into supervisor.frames.                *)
LEMMA NextKept ==
    ASSUME TypeOK, Owned, Unread, Uncounted, Timely, FramesKept, [Next]_vars
    PROVE  FramesKept'
<1> USE SupervisorAssumption DEF GoTo
<1>0. \A p \in Peers : Frames(events[p]) \in Nat /\ Frames(pipe[p]) \in Nat
  BY FramesCounted DEF TypeOK, Channels, Kinds
<1>20. FramesKept <=> \A p \in Peers \ cancelled : Keeping(p) => Kept(p)
  BY DEF FramesKept, Kept, InHand, Keeping
<1>21. FramesKept' <=> \A p \in Peers \ cancelled' : Keeping(p)' => Kept(p)'
  BY DEF FramesKept, Kept, InHand, Keeping
(* Nothing but p changes, and p's frames still add up if they are to.      *)
<1>1. ASSUME NEW p \in Peers, p \notin cancelled' /\ Keeping(p)' => Kept(p)',
             \A q \in Peers \ {p} :
                /\ stage'[q] = stage[q] /\ ready'[q] = ready[q]
                /\ q \in cancelled => q \in cancelled'
                /\ events'[q] = events[q] /\ pipe'[q] = pipe[q]
                /\ emitted'[q] = emitted[q] /\ pushed'[q] = pushed[q]
      PROVE  FramesKept'
  BY <1>1, <1>20, <1>21 DEF Kept, InHand, Keeping
(* No goroutine begins to read, and what is counted stays.                 *)
<1>2. ASSUME UNCHANGED <<pipe, events, counts>>,
             \A p \in Peers : Keeping(p)' /\ p \notin cancelled'
                                => /\ Keeping(p) /\ p \notin cancelled
                                   /\ stage'[p] = "push" <=> stage[p] = "push"
      PROVE  FramesKept'
  BY <1>2, <1>20, <1>21 DEF Kept, InHand, counts
<1>3. CASE Start \/ DaemonDies
  BY <1>3 DEF Start, DaemonDies, Fresh, FramesKept
<1>4. CASE Cancel \/ Close \/ Closed \/ Consume
  BY <1>2, <1>4 DEF Cancel, Close, Closed, Consume, Keeping, TypeOK, Calls
<1>13. CASE SweepRemoves \/ SweepEnds \/ \E c \in Pids : SweepLooks(c)
  BY <1>2, <1>13 DEF SweepRemoves, SweepEnds, SweepLooks, Keeping
<1>5. CASE Released
  BY <1>2, <1>5 DEF Released, Keeping, TypeOK, Goroutines, Calls
<1>6. ASSUME NEW p \in Peers, Ensure(p) PROVE FramesKept'
  BY <1>2, <1>6 DEF Ensure, Keeping, TypeOK, Goroutines
<1>7. ASSUME NEW p \in Peers, Release(p) \/ Interrupt(p) \/ Kill(p) PROVE FramesKept'
  BY <1>2, <1>7 DEF Release, Interrupt, Kill, Keeping
<1>8. ASSUME NEW p \in Peers, Read(p) PROVE FramesKept'
  <2> DEFINE e == Head(pipe[p])
  <2>1. /\ pipe[p] \in Seq(Kinds) /\ events[p] \in Seq(Kinds) /\ pipe[p] # <<>> /\ e \in Kinds
        /\ events' = [events EXCEPT ![p] = Append(@, e)]
        /\ pipe' = [pipe EXCEPT ![p] = Tail(@)]
        /\ UNCHANGED <<stage, ready, cancelled, counts>>
    BY <1>8 DEF Read, TypeOK, Channels
  <2>2. /\ Frames(Append(events[p], e)) = Frames(events[p]) + One(e)
        /\ Frames(pipe[p]) = Frames(Tail(pipe[p])) + One(e)
    BY <2>1, FramesAppend, FramesTail
  <2>3. Frames(Tail(pipe[p])) \in Nat /\ One(e) \in Nat
    <3>1. Tail(pipe[p]) \in Seq(Kinds)
      BY <2>1
    <3> QED
      BY <3>1, FramesCounted DEF One
  <2> HIDE DEF e
  <2>4. events'[p] = Append(events[p], e) /\ pipe'[p] = Tail(pipe[p])
    BY <2>1 DEF TypeOK, Channels
  <2>5. pushed[p] \in Nat /\ InHand(p) \in Nat
    BY DEF InHand, TypeOK, Channels
  <2>6. Frames(events[p]) + Frames(pipe[p]) = Frames(events'[p]) + Frames(pipe'[p])
    BY <1>0, <2>2, <2>3, <2>4
  <2>7. Frames(events'[p]) \in Nat /\ Frames(pipe'[p]) \in Nat
    BY <1>0, <2>2, <2>3, <2>4
  <2>8. Keeping(p) /\ p \notin cancelled => Kept(p)'
    <3>1. InHand(p)' = InHand(p) /\ emitted'[p] = emitted[p] /\ pushed'[p] = pushed[p]
      BY <2>1 DEF InHand, counts
    <3>2. Keeping(p) /\ p \notin cancelled => Kept(p)
      BY <1>20
    <3> QED
      BY <1>0, <2>5, <2>6, <2>7, <3>1, <3>2 DEF Kept
  <2> QED
    BY <1>1, <2>1, <2>8 DEF Keeping, counts, TypeOK, Channels
<1>9. ASSUME NEW p \in Peers, KeepAlive(p) PROVE FramesKept'
  <2>1. CASE \E c \in Pids : Spawn(p, c)
    BY <1>2, <2>1 DEF Spawn, Keeping, TypeOK, Goroutines
  <2>2. CASE Track(p) \/ WriteInitFails(p)
    BY <1>2, <2>2 DEF Track, WriteInitFails, Keeping, TypeOK, Goroutines
(* What has not been told anything, or was not started, wrote nothing.     *)
  <2>3. CASE WriteInit(p) \/ SpawnFails(p) \/ Abandon(p)
    <3>1. /\ pipe[p] = <<>> /\ events[p] = <<>> /\ emitted[p] = 0 /\ pushed[p] = 0
          /\ \E u \in {"consume", "ended"} : stage' = [stage EXCEPT ![p] = u]
          /\ UNCHANGED <<pipe, events, counts, ready, cancelled>>
      BY <2>3 DEF WriteInit, SpawnFails, Abandon, Unread, Uncounted, Told
    <3>2. Frames(pipe[p]) = 0 /\ Frames(events[p]) = 0
      BY <3>1, FramesCounted DEF TypeOK, Channels
    <3>3. Kept(p)'
      BY <3>1, <3>2 DEF Kept, InHand, counts, TypeOK, Goroutines
    <3> QED
      BY <1>1, <3>1, <3>3 DEF counts, TypeOK, Goroutines
  <2>4. CASE SeeReady(p) \/ SeeFrame(p) \/ SeeError(p)
    <3>1. PICK e \in Kinds :
             /\ stage[p] = "consume" /\ TakeEvent(p, e) /\ UNCHANGED <<pipe, cancelled, counts>>
             /\ stage' = [stage EXCEPT ![p] = IF e = "frame" THEN "push" ELSE "consume"]
             /\ \A q \in Peers \ {p} : ready'[q] = ready[q]
      BY <2>4 DEF SeeReady, SeeFrame, SeeError, Kinds, TypeOK, Goroutines
    <3>2. /\ Frames(events[p]) = Frames(Tail(events[p])) + One(e)
          /\ Frames(Tail(events[p])) \in Nat /\ events'[p] = Tail(events[p])
      <4>1. /\ events[p] \in Seq(Kinds) /\ events[p] # <<>> /\ Head(events[p]) = e
            /\ Tail(events[p]) \in Seq(Kinds) /\ events'[p] = Tail(events[p])
        BY <3>1 DEF TakeEvent, TypeOK, Channels
      <4>2. Frames(events[p]) = Frames(Tail(events[p])) + One(e)
        BY <4>1, FramesTail
      <4>3. Frames(Tail(events[p])) \in Nat
        BY <4>1, FramesCounted
      <4> QED
        BY <4>1, <4>2, <4>3
    <3>3. InHand(p)' = One(e) /\ InHand(p) = 0
      BY <3>1 DEF InHand, One, TypeOK, Goroutines
    <3>4. p \notin cancelled => Kept(p)
      BY <1>20, <3>1 DEF Keeping
    <3>5. emitted'[p] = emitted[p] /\ pushed'[p] = pushed[p] /\ pipe'[p] = pipe[p]
          /\ pushed[p] \in Nat /\ One(e) \in Nat
      BY <3>1 DEF counts, TypeOK, Channels, One
    <3>6. p \notin cancelled => Kept(p)'
      BY <1>0, <3>2, <3>3, <3>4, <3>5 DEF Kept
    <3> QED
      BY <1>1, <3>1, <3>6 DEF TakeEvent, counts, TypeOK, Goroutines, Channels
  <2>5. CASE Push(p)
    <3>1. /\ stage[p] = "push" /\ stage' = [stage EXCEPT ![p] = "consume"]
          /\ UNCHANGED <<cancelled, ready, pipe, events, emitted>>
          /\ \A q \in Peers \ {p} : pushed'[q] = pushed[q]
          /\ p \in cancelled \/ pushed'[p] = pushed[p] + 1
      BY <2>5 DEF Push, TypeOK, Channels
    <3>2. InHand(p) = 1 /\ InHand(p)' = 0 /\ pushed[p] \in Nat
      BY <3>1 DEF InHand, TypeOK, Goroutines, Channels
    <3>3. p \notin cancelled => Kept(p)
      BY <1>20, <3>1 DEF Keeping
    <3>4. p \notin cancelled => Kept(p)'
      BY <1>0, <3>1, <3>2, <3>3 DEF Kept
    <3> QED
      BY <1>1, <3>1, <3>4 DEF TypeOK, Goroutines
(* Either all has been taken, or the ghost was stopped.                    *)
  <2>6. CASE StreamEnds(p)
    <3>1. /\ stage[p] = "consume" /\ stage' = [stage EXCEPT ![p] = "forget"]
          /\ events[p] = <<>> /\ events' = [events EXCEPT ![p] = <<>>]
          /\ UNCHANGED <<cancelled, ready, pipe, counts>>
      BY <2>6 DEF StreamEnds, Reap
    <3>2. events' = events
      BY <3>1 DEF TypeOK, Channels
    <3> QED
      BY <1>2, <3>1, <3>2 DEF Keeping, TypeOK, Goroutines
  <2>8. CASE Drained(p)
    <3>1. /\ stage[p] = "drain" /\ stage' = [stage EXCEPT ![p] = "forget"]
          /\ events' = [events EXCEPT ![p] = <<>>]
          /\ UNCHANGED <<cancelled, ready, pipe, counts>>
      BY <2>8 DEF Drained, Reap
    <3>2. ready[p] => p \in cancelled
      BY <3>1 DEF Timely
    <3>3. p \notin cancelled' => ~ Keeping(p)'
      BY <3>1, <3>2 DEF Keeping, TypeOK, Goroutines
    <3> QED
      BY <1>1, <3>1, <3>3 DEF counts, TypeOK, Goroutines, Channels
  <2>9. CASE Ended(p)
    <3>1. /\ \E u \in {"gone", "backoff"} : stage' = [stage EXCEPT ![p] = u]
          /\ emitted' = [emitted EXCEPT ![p] = 0] /\ pushed' = [pushed EXCEPT ![p] = 0]
          /\ UNCHANGED <<cancelled, pipe, events>> /\ \A q \in Peers \ {p} : ready'[q] = ready[q]
      BY <2>9 DEF Ended, TypeOK, Goroutines
    <3>2. ~ Keeping(p)'
      BY <3>1 DEF Keeping, TypeOK, Goroutines
    <3> QED
      BY <1>1, <3>1, <3>2 DEF TypeOK, Goroutines, Channels
  <2>7. CASE Stopping(p) \/ Forget(p)
    BY <1>2, <2>7 DEF Stopping, Forget, Keeping, TypeOK, Goroutines
  <2>10. CASE Retry(p)
    <3>1. /\ \E u \in {"gone", "spawn"} : stage' = [stage EXCEPT ![p] = u]
          /\ UNCHANGED <<cancelled, ready, pipe, events, counts>>
      BY <2>10 DEF Retry
    <3> QED
      BY <1>2, <3>1 DEF Keeping, TypeOK, Goroutines
  <2> QED
    BY <1>9, <2>1, <2>2, <2>3, <2>4, <2>5, <2>6, <2>7, <2>8, <2>9, <2>10 DEF KeepAlive
<1>10. ASSUME NEW p \in Peers, Report(p) \/ Emit(p) \/ EndpointGone(p) PROVE FramesKept'
  <2>1. PICK e \in Kinds : /\ pipe' = [pipe EXCEPT ![p] = Append(@, e)]
                           /\ emitted' = [emitted EXCEPT ![p] = @ + One(e)]
                           /\ UNCHANGED <<stage, ready, cancelled, events, pushed>>
    <3>1. CASE Emit(p)
      BY <3>1 DEF Emit, memory, Kinds, One
    <3>2. CASE Report(p)
      <4>1. emitted' = [emitted EXCEPT ![p] = @ + One("ready")]
        BY <3>2 DEF Report, memory, One, TypeOK, Channels
      <4> QED
        BY <3>2, <4>1 DEF Report, memory, Kinds
    <3>3. CASE EndpointGone(p)
      <4>1. emitted' = [emitted EXCEPT ![p] = @ + One("error")]
        BY <3>3 DEF EndpointGone, memory, One, TypeOK, Channels
      <4> QED
        BY <3>3, <4>1 DEF EndpointGone, memory, Kinds
    <3> QED
      BY <1>10, <3>1, <3>2, <3>3
  <2>2. /\ pipe'[p] = Append(pipe[p], e) /\ emitted'[p] = emitted[p] + One(e)
        /\ Frames(Append(pipe[p], e)) = Frames(pipe[p]) + One(e)
    BY <2>1, FramesAppend DEF TypeOK, Channels
  <2>3. pushed[p] \in Nat /\ emitted[p] \in Nat /\ InHand(p) \in Nat /\ One(e) \in Nat
    BY DEF InHand, One, TypeOK, Channels
  <2>4. Keeping(p) /\ p \notin cancelled => Kept(p)
    BY <1>20
  <2>5. Keeping(p) /\ p \notin cancelled => Kept(p)'
    BY <1>0, <2>1, <2>2, <2>3, <2>4 DEF Kept, InHand
  <2> QED
    BY <1>1, <2>1, <2>5 DEF Keeping, TypeOK, Channels
<1>11. ASSUME NEW c \in Pids,
              \/ PublishRecord(c) \/ SeeEof(c) \/ StopServing(c) \/ Withdraw(c) \/ Crash(c)
              \/ ForeignStarts(c) \/ ForeignEnds(c)
       PROVE  FramesKept'
  BY <1>2, <1>11 DEF PublishRecord, SeeEof, StopServing, Withdraw, Crash, ForeignStarts, ForeignEnds,
                     memory, counts, Keeping
<1>12. CASE UNCHANGED vars
  BY <1>2, <1>12 DEF vars, counts, Keeping
<1> QED
  BY <1>3, <1>4, <1>5, <1>6, <1>7, <1>8, <1>9, <1>10, <1>11, <1>12, <1>13 DEF Next, World

-----------------------------------------------------------------------------
(* The theorems.                                                           *)

LEMMA NextInvariant == IInv /\ [Next]_vars => IInv'
<1> SUFFICES ASSUME IInv, [Next]_vars PROVE IInv'
  OBVIOUS
<1> USE DEF IInv
<1>1. TypeOK'
  BY NextProcesses, NextCalls, NextGoroutines, NextChannels DEF TypeOK
<1>2. Bounded' /\ Apart'
  BY NextGoroutines
<1>3. Owned' /\ ClosedIsQuiet'
  BY NextOwned
<1>4. Listed' /\ Filed' /\ Unfailed' /\ GhostsTracked'
  BY NextTracked
<1>5. Reused' /\ Swept' /\ SweepSparesTheLiving' /\ GhostsAttended'
  BY NextReused, NextSwept, NextAttended
<1>6. Unread' /\ Untold' /\ Uncounted' /\ Timely'
  BY NextUnread, NextUntold, NextUncounted, NextTimely
<1>7. FramesKept'
  BY NextKept
<1> QED
  BY <1>1, <1>2, <1>3, <1>4, <1>5, <1>6, <1>7

LEMMA Invariant == Spec => []IInv
  BY InitInvariant, NextInvariant, PTL DEF Spec

(* The supervisor's fields, the locals of runOnce and what the operating   *)
(* system knows of the ghosts keep their shapes; a goroutine names a       *)
(* process exactly while runOnce runs one (supervisor.go:316).             *)
THEOREM SupervisorTyped == Spec => []TypeOK
<1>1. IInv => TypeOK
  BY DEF IInv
<1> QED
  BY <1>1, Invariant, PTL

(* orphans.go:100: a ghost that may have published is in the index,        *)
(* through every death of the daemon and of a ghost and every reuse of a   *)
(* process number, unless its daemon died after a write of the file failed *)
(* and before one succeeded, or another peer's goroutine, which had waited *)
(* for the process that had the number before, forgot the number late      *)
(* (supervisor.go:338).                                                    *)
THEOREM SupervisorGhostsTracked == Spec => []GhostsTracked
<1>1. IInv => GhostsTracked
  BY DEF IInv
<1> QED
  BY <1>1, Invariant, PTL

(* supervisor.go:153: no two ghosts run for one peer, none for a peer that *)
(* is not wanted or being released, and one that is left alone has been    *)
(* told to stop.                                                           *)
THEOREM SupervisorGhostsAttended == Spec => []GhostsAttended
<1>1. IInv => GhostsAttended
  BY DEF IInv
<1> QED
  BY <1>1, Invariant, PTL

(* supervisor.go:412: when Close returns no goroutine and no ghost it      *)
(* started is left.                                                        *)
THEOREM SupervisorClosedIsQuiet == Spec => []ClosedIsQuiet
<1>1. IInv => ClosedIsQuiet
  BY DEF IInv
<1> QED
  BY <1>1, Invariant, PTL

(* supervisor.go:352: until its peer is stopped a frame is in the pipe, in *)
(* the channel, in the goroutine's hand or in supervisor.frames, whatever  *)
(* the capacities are and even if the ghost dies, and up to the end of     *)
(* runOnce; but with a ghost that was not seen to be ready in time         *)
(* (supervisor.go:369) its frames are dropped.                             *)
THEOREM SupervisorFramesKept == Spec => []FramesKept
<1>1. IInv => FramesKept
  BY DEF IInv
<1> QED
  BY <1>1, Invariant, PTL

(* orphans.go:127: no sweep takes the record of a process that runs, with  *)
(* numbers that pass from one process to another between its look at one   *)
(* and the removal of its record; but for a session that was given the     *)
(* number just then.                                                       *)
THEOREM SupervisorSparesTheLiving == Spec => []SweepSparesTheLiving
<1>1. IInv => SweepSparesTheLiving
  BY DEF IInv
<1> QED
  BY <1>1, Invariant, PTL

-----------------------------------------------------------------------------
(* What a ghost promises, and what the supervisor relies on.               *)

(* A ghost that has published has its record in the session directory.     *)
Recorded ==
    \A c \in Pids : child[c] \in {"published", "ready", "stopping"} => c \in records

(* One step of anybody, as the ghosts see it.                              *)
LEMMA StepAsPromised ==
    ASSUME TypeOK, Swept, Recorded, [Next]_vars
    PROVE  /\ Recorded'
           /\ \A c \in Pids : Live(c) => Ghost(c)!Next \/ UNCHANGED Ghost(c)!vars
<1> DEFINE Good == /\ Recorded'
                   /\ \A c \in Pids : Live(c) => Ghost(c)!Next \/ UNCHANGED Ghost(c)!vars
<1>1. child \in [Pids -> ChildStates] /\ pid \in [Peers -> Pids \cup {Nobody}]
  BY DEF TypeOK, Processes, Goroutines
<1>2. \A p \in Peers : stage[p] \in Running => pid[p] \in Pids
  BY <1>1 DEF TypeOK, Goroutines
<1>3. ASSUME UNCHANGED <<child, records>> PROVE Good
  BY <1>3 DEF Recorded, Ghost!vars
<1>4. ASSUME NEW d \in Pids, UNCHANGED records,
             child[d] = "dead" /\ child' = [child EXCEPT ![d] = "new"]
      PROVE  Good
  BY <1>1, <1>4 DEF Recorded, Ghost!vars, Live, Ghosts
<1>5. ASSUME NEW d \in Pids, UNCHANGED records,
             child[d] = "new" /\ child' = [child EXCEPT ![d] = "init"]
      PROVE  Good
  BY <1>1, <1>5 DEF Recorded, Ghost!vars, Ghost!Next, Ghost!Told, Live, Ghosts
<1>6. ASSUME NEW d \in Pids, UNCHANGED records, Live(d), Dies(d) PROVE Good
  <2>1. child' = [child EXCEPT ![d] = "dead"]
    BY <1>6 DEF Dies
  <2>2. Recorded'
    BY <1>1, <1>6, <2>1 DEF Recorded
  <2>3. CASE d \in records
    <3>1. Ghost(d)!Next
      BY <1>1, <1>6, <2>1, <2>3 DEF Ghost!Next, Ghost!Killed, Live, Ghosts
    <3> QED
      BY <1>1, <1>6, <2>1, <2>2, <3>1 DEF Ghost!vars
  <2>4. CASE d \notin records
    <3>1. child[d] \in {"new", "init"}
      BY <1>6, <2>4 DEF Recorded, Live, Ghosts
    <3>2. Ghost(d)!Next
      BY <1>1, <1>6, <2>1, <2>4, <3>1 DEF Ghost!Next, Ghost!Told, Ghost!Fails
    <3> QED
      BY <1>1, <1>6, <2>1, <2>2, <3>2 DEF Ghost!vars
  <2> QED
    BY <2>3, <2>4
<1>7. CASE SweepRemoves
  <2>1. UNCHANGED child /\ found \in Pids /\ records' \in {records, records \ {found}}
    BY <1>7 DEF SweepRemoves, TypeOK, Processes
  <2>2. child[found] \in {"dead", "late"}
    BY <1>7 DEF SweepRemoves, Swept
  <2> QED
    BY <1>1, <2>1, <2>2 DEF Recorded, Ghost!vars, Live, Ghosts
<1>19. CASE Start \/ SweepEnds \/ \E c \in Pids : SweepLooks(c)
  BY <1>3, <1>19 DEF Start, SweepEnds, SweepLooks, process
<1>8. CASE DaemonDies \/ Cancel \/ Close \/ Closed \/ Released \/ Consume
  BY <1>3, <1>8 DEF DaemonDies, Cancel, Close, Closed, Released, Consume, process
<1>9. ASSUME NEW p \in Peers, Ensure(p) \/ Release(p) \/ Read(p) \/ Interrupt(p) PROVE Good
  BY <1>3, <1>9 DEF Ensure, Release, Read, Interrupt, process
<1>10. ASSUME NEW p \in Peers, Kill(p) PROVE Good
  <2>1. pid[p] \in Pids /\ Live(pid[p])
    BY <1>2, <1>10 DEF Kill, TypeOK, Processes
  <2> QED
    BY <1>6, <1>10, <2>1 DEF Kill
<1>11. ASSUME NEW p \in Peers, KeepAlive(p) PROVE Good
  <2>1. ASSUME NEW c \in Pids, Spawn(p, c) PROVE Good
    BY <1>4, <2>1 DEF Spawn
  <2>2. CASE WriteInit(p)
    <3>1. pid[p] \in Pids
      BY <1>2, <2>2 DEF WriteInit, GoTo, Running
    <3> QED
      BY <1>5, <2>2, <3>1 DEF WriteInit
  <2>3. CASE \/ SpawnFails(p) \/ Track(p) \/ WriteInitFails(p) \/ Abandon(p) \/ SeeReady(p)
             \/ SeeFrame(p) \/ SeeError(p) \/ Push(p)
    BY <1>3, <2>3 DEF SpawnFails, Track, WriteInitFails, Abandon, SeeReady, SeeFrame, SeeError,
                      Push, process
  <2>4. CASE StreamEnds(p) \/ Stopping(p) \/ Drained(p) \/ Forget(p) \/ Ended(p) \/ Retry(p)
    BY <1>3, <2>4 DEF StreamEnds, Stopping, Drained, Forget, Ended, Retry, Reap, process
  <2> QED
    BY <1>11, <2>1, <2>2, <2>3, <2>4 DEF KeepAlive
<1>12. ASSUME NEW d \in Pids, PublishRecord(d) PROVE Good
  BY <1>1, <1>12 DEF PublishRecord, Becomes, Recorded, Ghost!vars, Ghost!Next, Ghost!Publishes,
                     Live, Ghosts
<1>13. ASSUME NEW p \in Peers, Report(p) PROVE Good
  <2>1. /\ pid[p] \in Pids /\ UNCHANGED records
        /\ child[pid[p]] = "published" /\ child' = [child EXCEPT ![pid[p]] = "ready"]
    BY <1>2, <1>13 DEF Report, Becomes
  <2> QED
    BY <1>1, <2>1 DEF Recorded, Ghost!vars, Ghost!Next, Ghost!Reports, Live, Ghosts
<1>14. ASSUME NEW d \in Pids, UNCHANGED records,
              child[d] = "ready" /\ child' = [child EXCEPT ![d] = "stopping"]
       PROVE  Good
  BY <1>1, <1>14 DEF Recorded, Ghost!vars, Ghost!Next, Ghost!Stops, Live, Ghosts
<1>15. ASSUME NEW d \in Pids, Withdraw(d) PROVE Good
  <2>1. CASE UNCHANGED records
    BY <1>6, <1>15, <2>1 DEF Withdraw, Live, Ghosts
  <2>2. CASE records' = records \ {d}
    BY <1>1, <1>15, <2>2 DEF Withdraw, Dies, Recorded, Ghost!vars, Ghost!Next, Ghost!Withdraws,
                             Live, Ghosts
  <2> QED
    BY <1>15, <2>1, <2>2 DEF Withdraw
<1>16. ASSUME NEW d \in Pids, ForeignStarts(d) \/ ForeignEnds(d) PROVE Good
  BY <1>1, <1>16 DEF ForeignStarts, ForeignEnds, Becomes, Recorded, Ghost!vars, Live, Ghosts
<1>17. CASE World
  <2>1. ASSUME NEW p \in Peers, Emit(p) PROVE Good
    BY <1>3, <2>1 DEF Emit, process
  <2>2. ASSUME NEW p \in Peers, EndpointGone(p) PROVE Good
    <3>1. pid[p] \in Pids
      BY <1>2, <2>2 DEF EndpointGone
    <3> QED
      BY <1>14, <2>2, <3>1 DEF EndpointGone, Becomes
  <2>3. ASSUME NEW c \in Pids, SeeEof(c) \/ Crash(c) PROVE Good
    BY <1>6, <2>3 DEF SeeEof, Crash, Live, Ghosts
  <2>4. ASSUME NEW c \in Pids, StopServing(c) PROVE Good
    BY <1>14, <2>4 DEF StopServing, Becomes
  <2> QED
    BY <1>12, <1>13, <1>15, <1>16, <1>17, <2>1, <2>2, <2>3, <2>4 DEF World
<1>18. CASE UNCHANGED vars
  BY <1>3, <1>18 DEF vars
<1> QED
  BY <1>7, <1>8, <1>9, <1>10, <1>11, <1>17, <1>18, <1>19 DEF Next

(* ADR-0004, ghost.go:109: among daemons that die and start, sweeps, kills *)
(* and process numbers that are used again, each ghost lives the life of a *)
(* NativePeer.                                                             *)
THEOREM SupervisorLivesAsPromised == Spec => LivesAsPromised
<1> DEFINE Promised == \A c \in Pids : Live(c) => Ghost(c)!Next \/ UNCHANGED Ghost(c)!vars
<1>1. Init => Recorded
  BY DEF Init, Recorded
<1>2. IInv /\ Recorded /\ [Next]_vars => Recorded' /\ Promised
  BY StepAsPromised DEF IInv
<1> QED
  BY <1>1, <1>2, Invariant, PTL DEF Spec, LivesAsPromised

(* What a ghost does without its parent: it changes its own state, its own *)
(* record, and what it writes to its standard output.                      *)
Alone(c) ==
    /\ child' \in [Pids -> ChildStates] /\ records' \subseteq Pids
    /\ \A d \in Pids \ {c} : child'[d] = child[d] /\ (d \in records' <=> d \in records)
    /\ eof' = IF child'[c] = "dead" THEN eof \ {c} ELSE eof
    /\ IF Ghost(c)!Reports
         THEN \E p \in Peers : /\ Runs(p, c) /\ Len(pipe[p]) < PipeLimit
                               /\ pipe' = [pipe EXCEPT ![p] = Append(@, "ready")]
         ELSE UNCHANGED pipe
    /\ UNCHANGED <<emitted, memory>>

(* The other direction, ghost.go:28: whatever a ghost that keeps the       *)
(* promise may do alone, the supervisor's theorems allow for.  With        *)
(* GhostPromise, they are about daemons with ghosts of this program.  (To  *)
(* be told what to publish is WriteInit's step as well.)                   *)
THEOREM SupervisorTakesAnyGhost ==
    ASSUME TypeOK, NEW c \in Pids, Live(c), Ghost(c)!Next, Alone(c),
           child'[c] \in Ghosts \cup {"dead"}, child'[c] # "init"
    PROVE  World
<1>1. /\ child \in [Pids -> ChildStates] /\ records \subseteq Pids
      /\ child' \in [Pids -> ChildStates] /\ records' \subseteq Pids
      /\ \A d \in Pids \ {c} : child'[d] = child[d] /\ (d \in records' <=> d \in records)
      /\ child[c] \in Ghosts
  BY DEF TypeOK, Processes, Alone, Live
<1>2. child' = [child EXCEPT ![c] = child'[c]]
  BY <1>1
<1>3. /\ (c \in records' <=> c \in records) => UNCHANGED records
      /\ c \in records' => records' = records \cup {c}
      /\ c \notin records' => records' = records \ {c}
  BY <1>1
<1>4. /\ child'[c] = "dead" => eof' = eof \ {c}
      /\ child'[c] # "dead" => eof' = eof
      /\ UNCHANGED <<emitted, memory>>
      /\ ~ Ghost(c)!Reports => UNCHANGED pipe
  BY DEF Alone
<1>5. ASSUME child'[c] = "dead", c \in records' <=> c \in records, UNCHANGED pipe PROVE World
  <2>1. Crash(c)
    BY <1>2, <1>3, <1>4, <1>5 DEF Crash, Dies
  <2> QED
    BY <2>1 DEF World
<1>6. CASE Ghost(c)!Told \/ Ghost(c)!Fails \/ Ghost(c)!Killed
  <2>1. child'[c] = "dead" /\ (c \in records' <=> c \in records) /\ UNCHANGED pipe
    BY <1>1, <1>4, <1>6 DEF Ghost!Told, Ghost!Fails, Ghost!Killed, Ghost!Reports, Ghosts, ChildStates
  <2> QED
    BY <1>5, <2>1
<1>7. CASE Ghost(c)!Publishes
  <2>1. /\ child[c] = "init" /\ child'[c] = "published" /\ c \in records'
        /\ ~ Ghost(c)!Reports
    BY <1>1, <1>7 DEF Ghost!Publishes, Ghost!Reports, Ghosts
  <2>2. PublishRecord(c)
    BY <1>2, <1>3, <1>4, <2>1 DEF PublishRecord, Becomes
  <2> QED
    BY <2>2 DEF World
<1>8. CASE Ghost(c)!Reports
  <2>1. child[c] = "published" /\ child'[c] = "ready" /\ (c \in records' <=> c \in records)
    BY <1>1, <1>8 DEF Ghost!Reports, Ghosts
  <2>2. PICK p \in Peers : /\ Runs(p, c) /\ Len(pipe[p]) < PipeLimit
                           /\ pipe' = [pipe EXCEPT ![p] = Append(@, "ready")]
    BY <1>8 DEF Alone
  <2>3. c # Nobody
    BY SupervisorAssumption
  <2>4. Report(p)
    BY <1>2, <1>3, <1>4, <2>1, <2>2, <2>3 DEF Report, Becomes, Runs
  <2> QED
    BY <2>4 DEF World
<1>9. CASE Ghost(c)!Stops
  <2>1. /\ child[c] = "ready" /\ child'[c] = "stopping" /\ (c \in records' <=> c \in records)
        /\ ~ Ghost(c)!Reports
    BY <1>1, <1>9 DEF Ghost!Stops, Ghost!Reports, Ghosts
  <2>2. StopServing(c)
    BY <1>2, <1>3, <1>4, <2>1 DEF StopServing, Becomes
  <2> QED
    BY <2>2 DEF World
<1>10. CASE Ghost(c)!Withdraws
  <2>1. /\ child[c] \in {"published", "stopping"} /\ child'[c] = "dead" /\ c \notin records'
        /\ ~ Ghost(c)!Reports
    BY <1>1, <1>10 DEF Ghost!Withdraws, Ghost!Reports, Ghosts
  <2>2. Withdraw(c)
    BY <1>2, <1>3, <1>4, <2>1 DEF Withdraw, Dies
  <2> QED
    BY <2>2 DEF World
(* One that leaves its record is, to the supervisor, one that was killed.  *)
<1>11. ~ Ghost(c)!Leaves
  BY <1>1 DEF Ghost!Leaves, Ghosts, ChildStates
<1> QED
  BY <1>6, <1>7, <1>8, <1>9, <1>10, <1>11 DEF Ghost!Next
-----------------------------------------------------------------------------
(* What keeps Close from returning.                                        *)

(* A goroutine that waits for a stuck reader, after any step of anybody.   *)
LEMMA StuckStays ==
    ASSUME IInv, [Next]_vars, NEW p \in Peers, Stuck(p)
    PROVE  life' = "down" \/ (Stuck(p)' /\ life' # "closed")
<1> USE SupervisorAssumption DEF GoTo
<1>1. /\ stage \in [Peers -> Stages] /\ stage[p] = "drain"
      /\ pipe \in [Peers -> Seq(Kinds)] /\ events \in [Peers -> Seq(Kinds)]
      /\ Len(events[p]) <= EventLimit /\ Len(events[p]) + Len(pipe[p]) > EventLimit
      /\ life \notin {"closed", "down", "sweeping"}
  BY DEF IInv, TypeOK, Calls, Goroutines, Channels, Stuck, ClosedIsQuiet, Owned
<1>2. pipe[p] # <<>>
  BY <1>1
<1>3. ASSUME stage'[p] = "drain", UNCHANGED <<pipe, events>>, life' # "closed"
      PROVE  Stuck(p)' /\ life' # "closed"
  BY <1>1, <1>3 DEF Stuck
<1>4. ASSUME NEW q \in Peers \ {p}, NEW t, stage' = [stage EXCEPT ![q] = t],
             pipe'[p] = pipe[p], events'[p] = events[p], UNCHANGED life
      PROVE  Stuck(p)' /\ life' # "closed"
  BY <1>1, <1>4 DEF Stuck
<1>5. CASE Start \/ SweepRemoves \/ SweepEnds \/ \E c \in Pids : SweepLooks(c)
  BY <1>1, <1>5 DEF Start, SweepRemoves, SweepEnds, SweepLooks, IInv, Swept
<1>6. CASE DaemonDies
  BY <1>6 DEF DaemonDies
<1>7. CASE Cancel \/ Close \/ Closed \/ Consume
  BY <1>1, <1>3, <1>7 DEF Cancel, Close, Closed, Consume, calls
<1>8. CASE Released
  <2>1. releasing \in Peers \ {p}
    BY <1>1, <1>8 DEF Released, IInv, TypeOK, Calls
  <2> QED
    BY <1>4, <1>8, <2>1 DEF Released
<1>9. ASSUME NEW q \in Peers, Ensure(q) PROVE Stuck(p)' /\ life' # "closed"
  <2>1. stage[q] = "none"
    BY <1>9 DEF Ensure, IInv, Owned
  <2>2. q # p
    BY <1>1, <2>1
  <2> QED
    BY <1>4, <1>9, <2>2 DEF Ensure
<1>10. ASSUME NEW q \in Peers, Release(q) \/ Interrupt(q) \/ Kill(q)
       PROVE  Stuck(p)' /\ life' # "closed"
  BY <1>1, <1>3, <1>10 DEF Release, Interrupt, Kill, calls
<1>11. ASSUME NEW q \in Peers, Read(q) PROVE Stuck(p)' /\ life' # "closed"
  <2>1. CASE q = p
    <3>1. /\ pipe'[p] = Tail(pipe[p]) /\ events'[p] = Append(events[p], Head(pipe[p]))
          /\ UNCHANGED <<stage, life>>
      BY <1>1, <1>11, <2>1 DEF Read, calls
    <3>2. ASSUME NEW a \in Seq(Kinds), NEW b \in Seq(Kinds), b # <<>>
          PROVE  Len(Append(a, Head(b))) + Len(Tail(b)) = Len(a) + Len(b)
      <4>1. Len(b) \in Nat \ {0} /\ Head(b) \in Kinds /\ Len(Tail(b)) = Len(b) - 1
        BY <3>2
      <4>2. Len(a) \in Nat /\ Len(Append(a, Head(b))) = Len(a) + 1
        BY <4>1
      <4> QED
        BY <4>1, <4>2
    <3>3. Len(events'[p]) + Len(pipe'[p]) = Len(events[p]) + Len(pipe[p])
      BY <1>1, <1>2, <3>1, <3>2
    <3> QED
      BY <1>1, <3>1, <3>3 DEF Stuck
  <2>2. CASE q # p
    BY <1>1, <1>11, <2>2 DEF Read, calls, Stuck
  <2> QED
    BY <2>1, <2>2
<1>12. ASSUME NEW q \in Peers, KeepAlive(q) PROVE Stuck(p)' /\ life' # "closed"
  <2>1. \/ Drained(q) \/ stage[q] # "drain"
    BY <1>12 DEF KeepAlive, Spawn, SpawnFails, Track, WriteInit, WriteInitFails, Abandon,
                 SeeReady, SeeFrame, SeeError, Push, StreamEnds, Stopping, Forget, Ended, Retry
  <2>2. q # p
    BY <1>1, <1>2, <2>1 DEF Drained, ReaderDone
  <2>3. /\ pipe'[p] = pipe[p] /\ events'[p] = events[p] /\ UNCHANGED life
        /\ \E t : stage' = [stage EXCEPT ![q] = t]
    BY <1>1, <1>12, <2>2
       DEF KeepAlive, Spawn, SpawnFails, Track, WriteInit, WriteInitFails, Abandon, SeeReady,
           SeeFrame, SeeError, TakeEvent, Push, StreamEnds, Stopping, Drained, Reap, Forget,
           Ended, Retry, calls
  <2> QED
    BY <1>4, <2>2, <2>3
<1>13. ASSUME NEW q \in Peers, Report(q) \/ Emit(q) \/ EndpointGone(q)
       PROVE  Stuck(p)' /\ life' # "closed"
  <2>1. /\ UNCHANGED <<stage, events, life>>
        /\ \E e \in Kinds : pipe' = [pipe EXCEPT ![q] = Append(@, e)]
    BY <1>13 DEF Report, Emit, EndpointGone, memory, calls, Kinds
  <2>2. Len(pipe'[p]) >= Len(pipe[p])
    BY <1>1, <2>1
  <2>3. Len(events[p]) \in Nat /\ Len(pipe[p]) \in Nat /\ Len(pipe'[p]) \in Nat
    BY <1>1, <2>1
  <2> QED
    BY <1>1, <2>1, <2>2, <2>3 DEF Stuck
<1>14. ASSUME NEW c \in Pids,
              \/ PublishRecord(c) \/ SeeEof(c) \/ StopServing(c) \/ Withdraw(c) \/ Crash(c)
              \/ ForeignStarts(c) \/ ForeignEnds(c)
       PROVE  Stuck(p)' /\ life' # "closed"
  BY <1>1, <1>3, <1>14 DEF PublishRecord, SeeEof, StopServing, Withdraw, Crash, ForeignStarts,
                           ForeignEnds, memory, calls
<1>15. CASE UNCHANGED vars
  BY <1>1, <1>3, <1>15 DEF vars
<1> QED
  BY <1>5, <1>6, <1>7, <1>8, <1>9, <1>10, <1>11, <1>12, <1>13, <1>14, <1>15 DEF Next, World

(* supervisor.go:383: a reader that is stuck stays so until the daemon is  *)
(* killed, and Close has not returned: killing the ghost, which is what    *)
(* WaitDelay does, frees neither.                                          *)
THEOREM SupervisorStuckStays ==
    Spec => [][\A p \in Peers : Stuck(p) => life' = "down" \/ (Stuck(p)' /\ life' # "closed")]_vars
<1> DEFINE Stays ==
             \A p \in Peers : Stuck(p) => life' = "down" \/ (Stuck(p)' /\ life' # "closed")
<1>1. IInv /\ [Next]_vars => Stays
  BY StuckStays
<1> QED
  BY <1>1, Invariant, PTL DEF Spec

(* What a ghost says of itself is at most that it is ready and that it     *)
(* stops; the rest of what waits to be taken is frames.                    *)
Waiting(p) == Len(events[p]) + Len(pipe[p])
Said(s) == IF s \in {"new", "init", "published"} THEN 0 ELSE IF s = "ready" THEN 1 ELSE 2
Bound(p) == stage[p] \in Told => Waiting(p) <= emitted[p] + Said(child[pid[p]])
Written == \A p \in Peers : Bound(p)

LEMMA NextWritten ==
    ASSUME TypeOK, Apart, Untold, Unread, Written, [Next]_vars
    PROVE  Written'
<1> USE SupervisorAssumption DEF GoTo
<1>1. /\ stage \in [Peers -> Stages] /\ pid \in [Peers -> Pids \cup {Nobody}]
      /\ \A p \in Peers : stage[p] \in Told => pid[p] \in Pids
      /\ child \in [Pids -> ChildStates]
      /\ pipe \in [Peers -> Seq(Kinds)] /\ events \in [Peers -> Seq(Kinds)]
      /\ emitted \in [Peers -> Nat]
  BY DEF TypeOK, Goroutines, Processes, Channels, Running, Told
<1>2. \A p \in Peers : Len(events[p]) \in Nat /\ Len(pipe[p]) \in Nat /\ Waiting(p) \in Nat
  BY <1>1 DEF Waiting
(* A step that adds nothing to a channel or a pipe.                        *)
<1>3. ASSUME UNCHANGED <<pid, emitted>>,
             \A p \in Peers : stage'[p] \in Told => stage[p] \in Told /\ Waiting(p)' <= Waiting(p),
             \A c \in Pids : Attended(c) => Said(child[c]) <= Said(child'[c]),
             \A p \in Peers : Waiting(p)' \in Nat
      PROVE  Written'
  <2> SUFFICES ASSUME NEW p \in Peers, stage'[p] \in Told
               PROVE  Waiting(p)' <= emitted[p] + Said(child'[pid[p]])
    BY <1>3 DEF Written, Bound
  <2>1. Waiting(p) <= emitted[p] + Said(child[pid[p]]) /\ Waiting(p)' <= Waiting(p)
    BY <1>3 DEF Written, Bound
  <2>2. Said(child[pid[p]]) <= Said(child'[pid[p]])
    BY <1>1, <1>3 DEF Attended, Runs, Told, Running
  <2>3. /\ Said(child[pid[p]]) \in Nat /\ Said(child'[pid[p]]) \in Nat /\ emitted[p] \in Nat
        /\ Waiting(p) \in Nat /\ Waiting(p)' \in Nat
    BY <1>1, <1>2, <1>3 DEF Said
  <2> QED
    BY <2>1, <2>2, <2>3
(* A step that touches none of them.                                       *)
<1>4. ASSUME UNCHANGED <<pid, emitted, pipe, events>>,
             \A p \in Peers : stage'[p] \in Told => stage[p] \in Told,
             \A c \in Pids : Attended(c) => Said(child[c]) <= Said(child'[c])
      PROVE  Written'
  <2>1. \A p \in Peers : Waiting(p)' = Waiting(p)
    BY <1>4 DEF Waiting
  <2>2. \A p \in Peers : Waiting(p)' \in Nat /\ Waiting(p)' <= Waiting(p)
    BY <1>2, <2>1
  <2> QED
    BY <1>3, <1>4, <2>2
<1>5. \A c \in Pids : Said(child[c]) <= Said(child[c])
  BY DEF Said
(* A step of one peer's goroutine or ghost.                                *)
<1>6. ASSUME NEW p \in Peers, Bound(p)',
             \A q \in Peers \ {p} :
                /\ stage'[q] = stage[q] /\ pid'[q] = pid[q] /\ emitted'[q] = emitted[q]
                /\ pipe'[q] = pipe[q] /\ events'[q] = events[q]
                /\ stage[q] \in Told => child'[pid[q]] = child[pid[q]]
      PROVE  Written'
  BY <1>6 DEF Written, Bound, Waiting
<1>7. CASE Start \/ DaemonDies
  BY <1>7 DEF Start, DaemonDies, Fresh, Written, Bound, Told
<1>8. CASE Cancel \/ Close \/ Closed \/ Consume
  BY <1>4, <1>5, <1>8 DEF Cancel, Close, Closed, Consume, process, counts
<1>18. CASE SweepRemoves \/ SweepEnds \/ \E c \in Pids : SweepLooks(c)
  BY <1>4, <1>5, <1>18 DEF SweepRemoves, SweepEnds, SweepLooks, process, counts
<1>9. CASE Released
  BY <1>1, <1>4, <1>5, <1>9 DEF Released, process, counts, TypeOK, Calls, Told
<1>10. ASSUME NEW p \in Peers, Ensure(p) \/ Release(p) \/ Interrupt(p) PROVE Written'
  BY <1>1, <1>4, <1>5, <1>10 DEF Ensure, Release, Interrupt, process, counts, Told
<1>11. ASSUME NEW p \in Peers, Kill(p) PROVE Written'
  BY <1>1, <1>4, <1>11 DEF Kill, Dies, counts, Said
<1>12. ASSUME NEW p \in Peers, Read(p) PROVE Written'
  <2>1. ASSUME NEW a \in Seq(Kinds), NEW b \in Seq(Kinds), b # <<>>
        PROVE  /\ Len(Append(a, Head(b))) + Len(Tail(b)) = Len(a) + Len(b)
               /\ Len(Append(a, Head(b))) + Len(Tail(b)) \in Nat
    <3>1. Len(b) \in Nat \ {0} /\ Head(b) \in Kinds /\ Len(Tail(b)) = Len(b) - 1
      BY <2>1
    <3>2. Len(a) \in Nat /\ Len(Append(a, Head(b))) = Len(a) + 1
      BY <3>1
    <3> QED
      BY <3>1, <3>2
  <2>2. /\ pipe[p] # <<>> /\ UNCHANGED <<child, stage, pid, emitted>>
        /\ events' = [events EXCEPT ![p] = Append(@, Head(pipe[p]))]
        /\ pipe' = [pipe EXCEPT ![p] = Tail(@)]
    BY <1>12 DEF Read, process, counts
  <2>3. Waiting(p)' = Waiting(p)
    BY <1>1, <2>1, <2>2 DEF Waiting
  <2>4. Bound(p)'
    BY <2>2, <2>3 DEF Bound, Written
  <2> QED
    BY <1>1, <1>6, <2>2, <2>4
<1>13. ASSUME NEW p \in Peers, KeepAlive(p) PROVE Written'
  <2>1. ASSUME NEW c \in Pids, Spawn(p, c) PROVE Written'
    <3>1. Bound(p)'
      BY <1>1, <2>1 DEF Spawn, Bound, Told
    <3>2. \A q \in Peers : stage[q] \in Told => pid[q] # c
      BY <2>1 DEF Spawn, Attended, Runs, Told, Running
    <3> QED
      BY <1>1, <1>6, <2>1, <3>1, <3>2 DEF Spawn, counts
  <2>2. CASE SpawnFails(p) \/ Track(p) \/ WriteInitFails(p) \/ Stopping(p)
    BY <1>1, <1>4, <1>5, <2>2
       DEF SpawnFails, Track, WriteInitFails, Stopping, process, counts, Told
  <2>8. CASE Ended(p) \/ Retry(p)
    <3>1. /\ \E u \in {"gone", "backoff", "spawn"} : stage' = [stage EXCEPT ![p] = u]
          /\ UNCHANGED <<child, pid, pipe, events>>
          /\ \A q \in Peers \ {p} : emitted'[q] = emitted[q]
      BY <1>1, <2>8 DEF Ended, Retry, process, counts
    <3>2. Bound(p)'
      BY <1>1, <3>1 DEF Bound, Told
    <3> QED
      BY <1>1, <1>6, <3>1, <3>2
  <2>3. CASE WriteInit(p)
    <3>1. /\ stage[p] = "init" /\ pid[p] \in Pids /\ pipe[p] = <<>> /\ events[p] = <<>>
          /\ UNCHANGED <<pid, emitted, pipe, events>>
          /\ child' = [child EXCEPT ![pid[p]] = "init"]
          /\ stage' = [stage EXCEPT ![p] = "consume"]
      BY <1>1, <2>3 DEF WriteInit, Unread, Told, counts, TypeOK, Goroutines, Running
    <3>2. Waiting(p)' = 0 /\ Said("init") = 0
      <4>1. Len(pipe'[p]) = 0 /\ Len(events'[p]) = 0
        BY <3>1
      <4>2. Said("init") = 0
        BY DEF Said
      <4> QED
        BY <4>1, <4>2 DEF Waiting
    <3>3. Bound(p)'
      BY <1>1, <3>1, <3>2 DEF Bound
    <3>4. \A q \in Peers \ {p} : stage[q] \in Told => pid[q] # pid[p]
      BY <1>1, <3>1 DEF Apart, Told, Running
    <3> QED
      BY <1>1, <1>6, <3>1, <3>3, <3>4
  <2>4. CASE Abandon(p) \/ Forget(p)
    BY <1>1, <1>6, <2>4 DEF Abandon, Forget, Bound, Told, process, counts
  <2>5. CASE StreamEnds(p) \/ Drained(p)
    BY <1>1, <1>6, <2>5 DEF StreamEnds, Drained, Reap, Bound, Told, process, counts
  <2>6. CASE SeeReady(p) \/ SeeFrame(p) \/ SeeError(p)
    <3>1. /\ events[p] # <<>> /\ events' = [events EXCEPT ![p] = Tail(@)]
          /\ UNCHANGED <<child, pid, emitted, pipe>> /\ stage[p] = "consume"
          /\ \E t \in Told : stage' = [stage EXCEPT ![p] = t]
      BY <2>6 DEF SeeReady, SeeFrame, SeeError, TakeEvent, process, counts, Told
    <3>2. Len(Tail(events[p])) = Len(events[p]) - 1 /\ Len(Tail(events[p])) \in Nat
      <4>1. events[p] \in Seq(Kinds)
        BY <1>1
      <4> QED
        BY <3>1, <4>1
    <3>3. Waiting(p)' <= Waiting(p) /\ Waiting(p)' \in Nat
      BY <1>1, <1>2, <3>1, <3>2 DEF Waiting
    <3>4. \A q \in Peers \ {p} : Waiting(q)' = Waiting(q)
      BY <1>1, <3>1 DEF Waiting
    <3>5. \A q \in Peers : Waiting(q)' <= Waiting(q) /\ Waiting(q)' \in Nat
      BY <1>2, <3>3, <3>4
    <3> QED
      BY <1>1, <1>3, <1>5, <3>1, <3>5 DEF Told
  <2>7. CASE Push(p)
    <3>1. /\ stage[p] = "push" /\ stage' = [stage EXCEPT ![p] = "consume"]
          /\ UNCHANGED <<child, pid, emitted, pipe, events>>
      BY <2>7 DEF Push, process
    <3> QED
      BY <1>1, <1>4, <1>5, <3>1 DEF Told
  <2> QED
    BY <1>13, <2>1, <2>2, <2>3, <2>4, <2>5, <2>6, <2>7, <2>8 DEF KeepAlive
(* What is written is in the pipe, and counted.                            *)
<1>14. ASSUME NEW p \in Peers, Report(p) \/ EndpointGone(p) \/ Emit(p) PROVE Written'
  <2>1. /\ pid[p] \in Pids /\ stage[p] \in Running /\ child[pid[p]] \in {"published", "ready", "stopping"}
        /\ UNCHANGED <<stage, pid, events>>
        /\ \E e \in Kinds : pipe' = [pipe EXCEPT ![p] = Append(@, e)]
        /\ \/ /\ emitted' = [emitted EXCEPT ![p] = @ + 1] /\ UNCHANGED child
           \/ /\ UNCHANGED emitted /\ child[pid[p]] = "published"
              /\ child' = [child EXCEPT ![pid[p]] = "ready"]
           \/ /\ UNCHANGED emitted /\ child[pid[p]] = "ready"
              /\ child' = [child EXCEPT ![pid[p]] = "stopping"]
    BY <1>1, <1>14 DEF Report, EndpointGone, Emit, Becomes, memory, process, Kinds,
                       TypeOK, Goroutines
  <2>2. Len(pipe'[p]) = Len(pipe[p]) + 1
    BY <1>1, <2>1
  <2>3. Waiting(p)' = Waiting(p) + 1
    <3>1. pipe' \in [Peers -> Seq(Kinds)] /\ events'[p] = events[p]
      BY <1>1, <2>1
    <3> QED
      BY <1>1, <2>2, <3>1 DEF Waiting
  <2>4. emitted'[p] + Said(child'[pid[p]]) = emitted[p] + Said(child[pid[p]]) + 1
    BY <1>1, <2>1 DEF Said
  <2>5. Waiting(p) \in Nat /\ emitted[p] + Said(child[pid[p]]) \in Nat
    BY <1>1, <1>2 DEF Said
  <2>6. Bound(p)'
    BY <2>1, <2>3, <2>4, <2>5 DEF Bound, Written
  <2>7. \A q \in Peers \ {p} : stage[q] \in Told => pid[q] # pid[p]
    BY <2>1 DEF Apart, Told, Running
  <2> QED
    BY <1>1, <1>6, <2>1, <2>6, <2>7
<1>15. ASSUME NEW c \in Pids, PublishRecord(c) \/ SeeEof(c) \/ StopServing(c) \/ Withdraw(c)
       PROVE  Written'
  BY <1>1, <1>4, <1>15 DEF PublishRecord, SeeEof, StopServing, Withdraw, Becomes, Dies, memory, Said
<1>16. ASSUME NEW c \in Pids, Crash(c) \/ ForeignStarts(c) \/ ForeignEnds(c) PROVE Written'
  BY <1>1, <1>4, <1>16 DEF Crash, ForeignStarts, ForeignEnds, Becomes, Dies, memory, Said
<1>17. CASE UNCHANGED vars
  BY <1>4, <1>5, <1>17 DEF vars
<1> QED
  BY <1>7, <1>8, <1>9, <1>10, <1>11, <1>12, <1>13, <1>14, <1>15, <1>16, <1>17, <1>18
     DEF Next, World

(* supervisor.go:383: a reader is stuck only if its ghost has written, in  *)
(* its life, so many frames that with its two reports of itself they do    *)
(* not fit in the channel of events: with 16 places, 15 frames.            *)
THEOREM SupervisorStuckNeedsFrames ==
    Spec => [](\A p \in Peers : Stuck(p) => emitted[p] + 2 > EventLimit)
<1> DEFINE Many == \A p \in Peers : Stuck(p) => emitted[p] + 2 > EventLimit
<1>1. Init => Written
  BY DEF Init, Written, Bound, Told
<1>2. IInv /\ Written /\ [Next]_vars => Written'
  BY NextWritten DEF IInv
<1>3. IInv /\ Written => Many
  <2> SUFFICES ASSUME IInv, Written, NEW p \in Peers, Stuck(p) PROVE emitted[p] + 2 > EventLimit
    OBVIOUS
  <2>1. /\ pipe \in [Peers -> Seq(Kinds)] /\ events \in [Peers -> Seq(Kinds)]
        /\ emitted[p] \in Nat
        /\ Waiting(p) <= emitted[p] + Said(child[pid[p]])
    BY DEF IInv, TypeOK, Channels, Written, Bound, Stuck, Told
  <2>2. Waiting(p) > EventLimit /\ Waiting(p) \in Nat
    <3>1. Len(events[p]) + Len(pipe[p]) > EventLimit
      BY DEF Stuck
    <3> QED
      BY SupervisorAssumption, <2>1, <3>1 DEF Waiting
  <2>3. Said(child[pid[p]]) \in 0..2
    BY DEF Said
  <2> QED
    BY SupervisorAssumption, <2>1, <2>2, <2>3
<1> QED
  BY <1>1, <1>2, <1>3, Invariant, PTL DEF Spec
=============================================================================
