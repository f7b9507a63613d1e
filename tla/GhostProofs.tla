---------------------------- MODULE GhostProofs ----------------------------
(***************************************************************************)
(* Theorems about Ghost: its types, what its heartbeat cannot do, that no  *)
(* accepted frame is left behind, and that it is a NativePeer; for any     *)
(* number of connections and frames and any capacities.                    *)
(***************************************************************************)
EXTENDS Ghost, TLAPS

Before == {"waiting", "bind", "publish", "key", "report", "unwind", "unwinding"}
Serving == {"serve", "closing", "forwarding", "beating", "withdraw"}

(* serve starts its goroutines together, and Run waits for the forwarder   *)
(* first and then for the heartbeat.                                       *)
Started ==
    /\ main \in Before => heart = "off" /\ forwarder = "off"
    /\ main \in Serving => heart # "off" /\ forwarder # "off"
    /\ main \in {"beating", "withdraw"} => forwarder = "done"
    /\ main = "withdraw" => heart = "done"
    /\ main = "done" => heart \in {"off", "done"} /\ forwarder \in {"off", "done"}
    /\ heart = "off" <=> forwarder = "off"

(* There is a record between its publication and its withdrawal, and after *)
(* it only one that could not be removed.                                  *)
Recorded ==
    /\ main \in {"waiting", "bind", "publish"} => ~ record /\ ~ kept
    /\ main \in {"key", "report"} \cup Serving => record /\ ~ kept
    /\ main \in {"unwind", "unwinding", "done"} /\ record => kept

(* The listener is open until Run closes it, and when serve closes it the  *)
(* context has been cancelled before.                                      *)
Bound ==
    /\ main \in {"waiting", "bind"} => endpoint = "none"
    /\ endpoint = "none" => main \in {"waiting", "bind", "done"} /\ heart = "off"
    /\ main \in {"publish", "key", "report", "serve", "unwind"} => endpoint = "bound"
    /\ heart # "off" /\ endpoint = "closed" => cancelled

(* What the heartbeat has seen is still so: a listener is not opened again *)
(* nor a socket put back.                                                  *)
Seen ==
    /\ heart = "gone" => endpoint = "closed" \/ removed
    /\ heart \in {"report", "cancel"} \/ alarm => removed

(* The channel of frames is open as long as somebody may put one into it.  *)
Channel ==
    /\ endpoint = "bound" /\ ~ deaf => accepting
    /\ accepting => endpoint # "none"
    /\ ~ accepting => \A c \in Conns : conn[c] \in {"none", "closed"}

InHand == IF forwarder = "write" THEN 1 ELSE 0

(* A frame is in the channel, in the forwarder's hand or written; but once *)
(* a write has failed.                                                     *)
Conserved ==
    /\ received >= forwarded + inbox + InHand
    /\ forwarder # "done" \/ ~ broken => received = forwarded + inbox + InHand
    /\ forwarder = "done" /\ ~ broken => inbox = 0 /\ ~ accepting

IInv == TypeOK /\ Started /\ Recorded /\ Bound /\ Seen /\ Channel /\ Conserved

(* Init establishes the invariant: ghost.go:61 begins with nothing bound,  *)
(* nothing published and none of serve's goroutines.                       *)
LEMMA InitInvariant == Init => IInv
<1> SUFFICES ASSUME Init PROVE IInv
  OBVIOUS
<1>1. Flags
  BY Zenon DEF Init, Flags
<1>2. TypeOK
  BY <1>1, GhostAssumption DEF Init, TypeOK, MainStages
<1>3. Started /\ Recorded /\ Bound /\ Seen
  BY DEF Init, Started, Recorded, Bound, Seen, Before, Serving
<1>4. Channel /\ Conserved
  BY DEF Init, Channel, Conserved, InHand
<1> QED
  BY <1>2, <1>3, <1>4 DEF IInv

(* What is true or false stays so.                                         *)
LEMMA NextFlags == ASSUME Flags, [Next]_vars PROVE Flags'
<1> USE DEF Flags, files, sessions, parent, output
<1>1. CASE Run
  BY Zenon, <1>1 DEF Run, ReadInit, Listen, Publish, Remove, Report, ReportFails, Unwind,
                     Select, InboxClosed, ForwarderDone, HeartbeatDone, Withdraw
<1>2. CASE Commands \/ Take \/ Forward \/ AcceptEnds \/ ParentReads
  BY Zenon, <1>2 DEF Commands, Take, Forward, AcceptEnds, ParentReads
<1>3. CASE Heartbeat
  BY Zenon, <1>3 DEF Heartbeat, Tick, Update, Gone, GiveUp, CancelServe
<1>4. ASSUME NEW c \in Conns, Accept(c) \/ Receive(c) \/ Offer(c) \/ Hangup(c)
      PROVE  Flags'
  BY Zenon, <1>4 DEF Accept, Receive, Offer, Hangup
<1>5. CASE World
  BY Zenon, <1>5 DEF World, EndpointRemoved, AcceptFails, ParentCloses, ParentDies,
                     KilledWriting, ShutdownCommand
<1>6. CASE UNCHANGED vars
  BY Zenon, <1>6 DEF vars
<1> QED
  BY <1>1, <1>2, <1>3, <1>4, <1>5, <1>6 DEF Next

(* Every step keeps the stages of the goroutines and the counters in their *)
(* ranges.  That no more is written than was received rests on Conserved.  *)
LEMMA NextTyped == ASSUME TypeOK, Conserved, [Next]_vars PROVE TypeOK'
<1> Flags'
  BY NextFlags DEF TypeOK
<1> USE GhostAssumption DEF TypeOK, files, sessions, parent, output, helpers, GoTo, Room, Beat
<1>1. CASE Run
  <2>1. CASE ReadInit \/ Listen
    BY <2>1 DEF ReadInit, Listen, MainStages
  <2>2. CASE Publish \/ ReportFails
    BY <2>2 DEF Publish, Remove, ReportFails, MainStages
  <2>3. CASE Report
    BY <2>3 DEF Report, MainStages
  <2>4. CASE Unwind \/ Select
    BY <2>4 DEF Unwind, Select, MainStages
  <2>5. CASE InboxClosed \/ ForwarderDone \/ HeartbeatDone \/ Withdraw
    BY <2>5 DEF InboxClosed, ForwarderDone, HeartbeatDone, Withdraw, MainStages
  <2> QED
    BY <1>1, <2>1, <2>2, <2>3, <2>4, <2>5 DEF Run
<1>2. CASE Commands \/ AcceptEnds \/ ParentReads
  BY <1>2 DEF Commands, AcceptEnds, ParentReads
<1>3. CASE Take
  BY <1>3 DEF Take
<1>4. CASE Forward
  BY <1>4 DEF Forward, Conserved, InHand
<1>5. CASE Heartbeat
  <2>1. CASE Tick \/ Update \/ Gone
    BY <2>1 DEF Tick, Update, Gone
  <2>2. CASE GiveUp \/ CancelServe
    BY <2>2 DEF GiveUp, CancelServe
  <2> QED
    BY <1>5, <2>1, <2>2 DEF Heartbeat
<1>6. ASSUME NEW c \in Conns, Accept(c) \/ Receive(c) \/ Hangup(c)
      PROVE  TypeOK'
  BY <1>6 DEF Accept, Receive, Hangup
<1>7. ASSUME NEW c \in Conns, Offer(c)
      PROVE  TypeOK'
  BY <1>7 DEF Offer
<1>8. CASE World
  BY <1>8 DEF World, EndpointRemoved, AcceptFails, ParentCloses, ParentDies,
              KilledWriting, ShutdownCommand, MainStages
<1>9. CASE UNCHANGED vars
  BY <1>9 DEF vars
<1> QED
  BY <1>1, <1>2, <1>3, <1>4, <1>5, <1>6, <1>7, <1>8, <1>9 DEF Next

(* ghost.go:152 and 215: the goroutines are started and waited for in      *)
(* order.                                                                  *)
LEMMA NextStarted == ASSUME IInv, [Next]_vars PROVE Started'
<1> USE DEF IInv, TypeOK, Started, Bound, Before, Serving, files, sessions, parent, output, helpers, GoTo, Beat
<1>1. CASE Run
  <2>1. CASE ReadInit \/ Listen
    BY <2>1 DEF ReadInit, Listen
  <2>2. CASE Publish \/ ReportFails
    BY <2>2 DEF Publish, Remove, ReportFails
  <2>3. CASE Report
    BY <2>3 DEF Report
  <2>4. CASE Unwind \/ Select
    BY <2>4 DEF Unwind, Select
  <2>5. CASE InboxClosed \/ ForwarderDone
    BY <2>5 DEF InboxClosed, ForwarderDone
  <2>6. CASE HeartbeatDone \/ Withdraw
    BY <2>6 DEF HeartbeatDone, Remove, Withdraw
  <2> QED
    BY <1>1, <2>1, <2>2, <2>3, <2>4, <2>5, <2>6 DEF Run
<1>2. CASE Commands \/ AcceptEnds \/ ParentReads
  BY <1>2 DEF Commands, AcceptEnds, ParentReads
<1>3. CASE Take
  BY <1>3 DEF Take
<1>4. CASE Forward
  BY <1>4 DEF Forward
<1>5. CASE Heartbeat
  <2>1. CASE Tick \/ Update
    BY <2>1 DEF Tick, Update, Alive
  <2>2. CASE Gone \/ GiveUp \/ CancelServe
    BY <2>2 DEF Gone, GiveUp, CancelServe, Alive
  <2> QED
    BY <1>5, <2>1, <2>2 DEF Heartbeat
<1>6. ASSUME NEW c \in Conns, Accept(c) \/ Receive(c) \/ Offer(c) \/ Hangup(c)
      PROVE  Started'
  BY <1>6 DEF Accept, Receive, Offer, Hangup
<1>7. CASE World
  BY <1>7 DEF World, EndpointRemoved, AcceptFails, ParentCloses, ParentDies,
              KilledWriting, ShutdownCommand
<1>8. CASE UNCHANGED vars
  BY <1>8 DEF vars
<1> QED
  BY <1>1, <1>2, <1>3, <1>4, <1>5, <1>6, <1>7, <1>8 DEF Next

(* The heartbeat writes the record only while Run still has to remove it.  *)
LEMMA NextRecorded == ASSUME IInv, [Next]_vars PROVE Recorded'
<1> USE DEF IInv, TypeOK, Started, Recorded, Before, Serving, files, sessions, parent, output, helpers, GoTo, Beat
<1>1. CASE Run
  <2>1. CASE ReadInit \/ Listen
    BY <2>1 DEF ReadInit, Listen
  <2>2. CASE Publish \/ ReportFails
    BY <2>2 DEF Publish, Remove, ReportFails
  <2>3. CASE Report
    BY <2>3 DEF Report
  <2>4. CASE Unwind \/ Select
    BY <2>4 DEF Unwind, Select
  <2>5. CASE InboxClosed \/ ForwarderDone
    BY <2>5 DEF InboxClosed, ForwarderDone
  <2>6. CASE HeartbeatDone \/ Withdraw
    BY <2>6 DEF HeartbeatDone, Remove, Withdraw
  <2> QED
    BY <1>1, <2>1, <2>2, <2>3, <2>4, <2>5, <2>6 DEF Run
<1>2. CASE Commands \/ AcceptEnds \/ ParentReads
  BY <1>2 DEF Commands, AcceptEnds, ParentReads
<1>3. CASE Take
  BY <1>3 DEF Take
<1>4. CASE Forward
  BY <1>4 DEF Forward
<1>5. CASE Heartbeat
  <2>1. CASE Tick
    BY <2>1 DEF Tick
  <2>2. CASE Update
    <3>1. main' = main /\ kept' = kept /\ main \in Serving
      BY <2>2 DEF Update, Alive, MainStages
    <3>2. record
      BY <3>1
    <3>3. record'
      BY Zenon, <2>2, <3>2 DEF Update
    <3> QED
      BY <3>1, <3>3
  <2>3. CASE Gone \/ GiveUp \/ CancelServe
    BY <2>3 DEF Gone, GiveUp, CancelServe
  <2> QED
    BY <1>5, <2>1, <2>2, <2>3 DEF Heartbeat
<1>6. ASSUME NEW c \in Conns, Accept(c) \/ Receive(c) \/ Offer(c) \/ Hangup(c)
      PROVE  Recorded'
  BY <1>6 DEF Accept, Receive, Offer, Hangup
<1>7. CASE World
  BY <1>7 DEF World, EndpointRemoved, AcceptFails, ParentCloses, ParentDies,
              KilledWriting, ShutdownCommand
<1>8. CASE UNCHANGED vars
  BY <1>8 DEF vars
<1> QED
  BY <1>1, <1>2, <1>3, <1>4, <1>5, <1>6, <1>7, <1>8 DEF Next

(* A shutdown cancels before it closes, so the heartbeat can tell a socket *)
(* that was removed from one that was closed.                              *)
LEMMA NextBound == ASSUME IInv, [Next]_vars PROVE Bound' /\ Seen'
<1> USE DEF IInv, TypeOK, Started, Bound, Seen, Before, Serving, files, sessions, parent, output, helpers, GoTo, Beat
<1>1. CASE Run
  <2>1. CASE ReadInit \/ Listen
    BY <2>1 DEF ReadInit, Listen
  <2>2. CASE Publish \/ ReportFails
    BY <2>2 DEF Publish, Remove, ReportFails
  <2>3. CASE Report
    BY <2>3 DEF Report
  <2>4. CASE Unwind \/ Select
    BY <2>4 DEF Unwind, Select
  <2>5. CASE InboxClosed \/ ForwarderDone
    BY <2>5 DEF InboxClosed, ForwarderDone
  <2>6. CASE HeartbeatDone \/ Withdraw
    BY <2>6 DEF HeartbeatDone, Remove, Withdraw
  <2> QED
    BY <1>1, <2>1, <2>2, <2>3, <2>4, <2>5, <2>6 DEF Run
<1>2. CASE Commands \/ AcceptEnds \/ ParentReads
  BY <1>2 DEF Commands, AcceptEnds, ParentReads
<1>3. CASE Take
  BY <1>3 DEF Take
<1>4. CASE Forward
  BY <1>4 DEF Forward
<1>5. CASE Heartbeat
  <2>1. CASE Tick \/ Update
    <3>1. /\ UNCHANGED <<main, endpoint, removed, cancelled, alarm>>
          /\ heart # "off" /\ heart' \in {"wait", "update", "gone", "done"}
          /\ heart' = "gone" => endpoint # "bound" \/ removed
      BY <2>1 DEF Tick, Update
    <3>2. Bound'
      BY <3>1
    <3>3. Seen'
      BY <3>1
    <3> QED
      BY <3>2, <3>3
  <2>2. CASE Gone \/ GiveUp \/ CancelServe
    BY <2>2 DEF Gone, GiveUp, CancelServe, Alive
  <2> QED
    BY <1>5, <2>1, <2>2 DEF Heartbeat
<1>6. ASSUME NEW c \in Conns, Accept(c) \/ Receive(c) \/ Offer(c) \/ Hangup(c)
      PROVE  Bound' /\ Seen'
  BY <1>6 DEF Accept, Receive, Offer, Hangup
<1>7. CASE World
  BY <1>7 DEF World, EndpointRemoved, AcceptFails, ParentCloses, ParentDies,
              KilledWriting, ShutdownCommand
<1>8. CASE UNCHANGED vars
  BY <1>8 DEF vars
<1> QED
  BY <1>1, <1>2, <1>3, <1>4, <1>5, <1>6, <1>7, <1>8 DEF Next

(* Connections are waited for before the channel of frames is closed.      *)
LEMMA NextChannel == ASSUME IInv, [Next]_vars PROVE Channel'
<1> USE DEF IInv, TypeOK, Bound, Started, Channel, Before, files, sessions, parent, output, helpers, GoTo, Beat
<1>1. CASE Run
  <2>1. CASE ReadInit \/ Listen
    BY <2>1 DEF ReadInit, Listen
  <2>2. CASE Publish \/ ReportFails
    BY <2>2 DEF Publish, Remove, ReportFails
  <2>3. CASE Report
    BY <2>3 DEF Report
  <2>4. CASE Unwind \/ Select
    BY <2>4 DEF Unwind, Select
  <2>5. CASE InboxClosed \/ ForwarderDone
    BY <2>5 DEF InboxClosed, ForwarderDone
  <2>6. CASE HeartbeatDone \/ Withdraw
    BY <2>6 DEF HeartbeatDone, Remove, Withdraw
  <2> QED
    BY <1>1, <2>1, <2>2, <2>3, <2>4, <2>5, <2>6 DEF Run
<1>2. CASE Commands \/ AcceptEnds \/ ParentReads
  BY <1>2 DEF Commands, AcceptEnds, ParentReads
<1>3. CASE Take
  BY <1>3 DEF Take
<1>4. CASE Forward
  BY <1>4 DEF Forward
<1>5. CASE Heartbeat
  <2>1. CASE Tick \/ Update
    BY <2>1 DEF Tick, Update, Alive
  <2>2. CASE Gone \/ GiveUp \/ CancelServe
    BY <2>2 DEF Gone, GiveUp, CancelServe, Alive
  <2> QED
    BY <1>5, <2>1, <2>2 DEF Heartbeat
<1>6. ASSUME NEW c \in Conns, Accept(c) \/ Receive(c) \/ Offer(c) \/ Hangup(c)
      PROVE  Channel'
  BY <1>6 DEF Accept, Receive, Offer, Hangup
<1>7. CASE World
  BY <1>7 DEF World, EndpointRemoved, AcceptFails, ParentCloses, ParentDies,
              KilledWriting, ShutdownCommand
<1>8. CASE UNCHANGED vars
  BY <1>8 DEF vars
<1> QED
  BY <1>1, <1>2, <1>3, <1>4, <1>5, <1>6, <1>7, <1>8 DEF Next

(* No step loses a frame but a write that fails.                           *)
LEMMA NextConserved == ASSUME IInv, [Next]_vars PROVE Conserved'
<1> USE DEF IInv, TypeOK, Started, Channel, Conserved, InHand, Before, Serving, files, sessions, parent, output, helpers, GoTo, Beat
<1>1. CASE Run
  <2>1. CASE ReadInit \/ Listen
    BY <2>1 DEF ReadInit, Listen
  <2>2. CASE Publish \/ ReportFails
    BY <2>2 DEF Publish, Remove, ReportFails
  <2>3. CASE Report
    BY <2>3 DEF Report
  <2>4. CASE Unwind \/ Select
    BY <2>4 DEF Unwind, Select
  <2>5. CASE InboxClosed \/ ForwarderDone
    BY <2>5 DEF InboxClosed, ForwarderDone
  <2>6. CASE HeartbeatDone \/ Withdraw
    BY <2>6 DEF HeartbeatDone, Remove, Withdraw
  <2> QED
    BY <1>1, <2>1, <2>2, <2>3, <2>4, <2>5, <2>6 DEF Run
<1>2. CASE Commands \/ AcceptEnds \/ ParentReads
  BY <1>2 DEF Commands, AcceptEnds, ParentReads
<1>3. CASE Take
  BY <1>3 DEF Take
<1>4. CASE Forward
  BY <1>4 DEF Forward
<1>5. CASE Heartbeat
  <2>1. UNCHANGED <<forwarder, inbox, accepting, received, broken, forwarded>>
    BY <1>5 DEF Heartbeat, Tick, Update, Gone, GiveUp, CancelServe
  <2> QED
    BY <2>1
<1>6. ASSUME NEW c \in Conns, Accept(c) \/ Receive(c) \/ Offer(c) \/ Hangup(c)
      PROVE  Conserved'
  BY <1>6 DEF Accept, Receive, Offer, Hangup
<1>7. CASE World
  BY <1>7 DEF World, EndpointRemoved, AcceptFails, ParentCloses, ParentDies,
              KilledWriting, ShutdownCommand
<1>8. CASE UNCHANGED vars
  BY <1>8 DEF vars
<1> QED
  BY <1>1, <1>2, <1>3, <1>4, <1>5, <1>6, <1>7, <1>8 DEF Next

LEMMA GhostInvariant == Spec => []IInv
<1>1. IInv /\ [Next]_vars => IInv'
  BY NextTyped, NextStarted, NextRecorded, NextBound, NextChannel, NextConserved DEF IInv
<1> QED
  BY InitInvariant, <1>1, PTL DEF Spec

(* The goroutines of a ghost, its channel and its pipe keep their shapes   *)
(* and limits.                                                             *)
THEOREM GhostTyped == Spec => []TypeOK
BY GhostInvariant, PTL DEF IInv

(* ghost.go:45 and 254: no record that could be removed is left or comes   *)
(* back when Run has returned, and no shutdown is reported as a removed    *)
(* endpoint.                                                               *)
THEOREM GhostHeartbeatHarmless == Spec => []HeartbeatHarmless
<1>1. IInv => HeartbeatHarmless
  BY DEF IInv, Recorded, Seen, HeartbeatHarmless
<1> QED
  BY <1>1, GhostInvariant, PTL

(* ghost.go:215: what was accepted has been written when the record goes,  *)
(* whatever stopped the ghost, if the parent lives.                        *)
THEOREM GhostFramesForwarded == Spec => []FramesForwarded
<1>1. IInv => FramesForwarded
  BY DEF IInv, TypeOK, Started, Conserved, InHand, FramesForwarded
<1> QED
  BY <1>1, GhostInvariant, PTL

-----------------------------------------------------------------------------
(* What the supervisor sees of a ghost.                                    *)

(* A step that leaves Run where it is and the record alone is none of the  *)
(* peer's.                                                                 *)
LEMMA Stutter == ASSUME UNCHANGED <<main, record, kept>> PROVE UNCHANGED Peer!vars
BY DEF state, Peer!vars

(* Every step of a ghost is one of the peer, or leaves what the supervisor *)
(* sees of it unchanged.                                                   *)
LEMMA StepPromise == ASSUME IInv, [Next]_vars PROVE [Peer!Next]_(Peer!vars)
<1> USE DEF files, sessions, parent, output, helpers, GoTo, state
<1> DEFINE Goal == [Peer!Next]_(Peer!vars)
<1>1. CASE Run
  <2>0. ASSUME main \in {"key", "report", "withdraw"}, main' \in {"unwind", "done"}, Remove
         PROVE  Goal
    <3>1. ~ kept
      BY <2>0 DEF IInv, Recorded, Serving
    <3>2. CASE record' = FALSE /\ UNCHANGED kept
      BY <2>0, <3>1, <3>2 DEF Peer!Next, Peer!Withdraws
    <3>3. CASE kept' = TRUE /\ UNCHANGED record
      BY <2>0, <3>3 DEF Peer!Next, Peer!Leaves
    <3> QED
      BY <2>0, <3>2, <3>3 DEF Remove
  <2>1. CASE ReadInit
    BY <2>1 DEF ReadInit, IInv, Recorded, Peer!Next, Peer!Told
  <2>2. CASE Listen
    BY <2>2 DEF Listen, IInv, Recorded, Peer!Next, Peer!Fails, Peer!vars
  <2>3. CASE Publish
    <3>1. CASE main = "publish"
      <4>1. ~ kept /\ UNCHANGED kept
        BY <2>3, <3>1 DEF Publish, IInv, Recorded
      <4>2. CASE main' = "key" /\ record' = TRUE
        BY <3>1, <4>1, <4>2 DEF Peer!Next, Peer!Publishes
      <4>3. CASE main' = "unwind" /\ UNCHANGED record
        BY <3>1, <4>1, <4>3 DEF Peer!Next, Peer!Fails
      <4> QED
        BY <2>3, <3>1, <4>2, <4>3 DEF Publish
    <3>2. CASE GoTo("key", "report") /\ UNCHANGED <<record, kept>>
      BY <3>2 DEF Peer!vars
    <3>3. CASE GoTo("key", "unwind") /\ Remove
      BY <2>0, <3>3
    <3> QED
      BY <2>3, <3>1, <3>2, <3>3 DEF Publish
  <2>4. CASE Report
    BY <2>4 DEF Report, Peer!Next, Peer!Reports
  <2>5. CASE ReportFails
    BY <2>5, <2>0 DEF ReportFails
  <2>6. CASE Unwind
    BY <2>6 DEF Unwind, Peer!vars
  <2>7. CASE Select
    BY <2>7 DEF Select, Peer!Next, Peer!Stops
  <2>8. CASE InboxClosed \/ ForwarderDone \/ HeartbeatDone
    BY <2>8 DEF InboxClosed, ForwarderDone, HeartbeatDone, Peer!vars
  <2>9. CASE Withdraw
    BY <2>9, <2>0 DEF Withdraw
  <2> QED
    BY <1>1, <2>1, <2>2, <2>3, <2>4, <2>5, <2>6, <2>7, <2>8, <2>9 DEF Run
<1>2. CASE Commands \/ Take \/ Forward \/ AcceptEnds \/ ParentReads
  <2>1. UNCHANGED <<main, record, kept>>
    BY <1>2 DEF Commands, Take, Forward, AcceptEnds, ParentReads
  <2> QED
    BY <2>1, Stutter
<1>3. CASE Heartbeat
  <2>1. CASE Update
    <3>1. main \in Serving
      BY <2>1 DEF Update, Beat, Alive, IInv, TypeOK, MainStages, Started, Before, Serving
    <3>2. record
      BY <3>1 DEF IInv, Recorded
    <3>3. record' = record
      BY Zenon, <2>1, <3>2 DEF Update, IInv, TypeOK, Flags
    <3>4. main' = main /\ kept' = kept
      BY <2>1 DEF Update
    <3> QED
      BY <3>3, <3>4, Stutter
  <2>2. CASE Tick \/ Gone \/ GiveUp \/ CancelServe
    <3>1. UNCHANGED <<main, record, kept>>
      BY <2>2 DEF Tick, Gone, GiveUp, CancelServe
    <3> QED
      BY <3>1, Stutter
  <2> QED
    BY <1>3, <2>1, <2>2 DEF Heartbeat
<1>4. ASSUME NEW c \in Conns, Accept(c) \/ Receive(c) \/ Offer(c) \/ Hangup(c)
      PROVE  Goal
  <2>1. UNCHANGED <<main, record, kept>>
    BY <1>4 DEF Accept, Receive, Offer, Hangup
  <2> QED
    BY <2>1, Stutter
<1>5. CASE KilledWriting
  <2>1. main \notin Before \ {"report"} /\ main \notin {"done", "killed"}
    BY <1>5 DEF KilledWriting, Alive, IInv, Started, Before
  <2>2. main' = "killed" /\ record' = record
    BY <1>5 DEF KilledWriting
  <2> QED
    BY <2>1, <2>2 DEF IInv, TypeOK, MainStages, Before, Peer!Next, Peer!Killed
<1>6. CASE EndpointRemoved \/ AcceptFails \/ ParentCloses \/ ParentDies \/ ShutdownCommand
  <2>1. UNCHANGED <<main, record, kept>>
    BY <1>6 DEF EndpointRemoved, AcceptFails, ParentCloses, ParentDies, ShutdownCommand
  <2> QED
    BY <2>1, Stutter
<1>7. CASE UNCHANGED vars
  BY <1>7, Stutter DEF vars
<1> QED
  BY <1>1, <1>2, <1>3, <1>4, <1>5, <1>6, <1>7 DEF Next, World

(* ghost.go:49: whatever its goroutines, the sessions and its parent do, a *)
(* ghost goes through the states Supervisor gives a child process, with a  *)
(* record from its publication to its end, and after it only if it was     *)
(* killed or could not remove it.                                          *)
THEOREM GhostPromise == Spec => Promise
<1>1. Init => Peer!Init
  BY DEF Init, Peer!Init, state
<1> QED
  BY <1>1, StepPromise, GhostInvariant, PTL DEF Spec, Promise, Peer!Spec
=============================================================================
