---------------------------- MODULE ControlProofs ----------------------------
(***************************************************************************)
(* Theorems about Control: its types, that nothing of an endpoint that has *)
(* been replaced is left running, why the loop ends and what it leaves     *)
(* behind, for any number of callers, endpoints and failures.              *)
(***************************************************************************)
EXTENDS Control, TLAPS

(* While a round is served, the address file names its endpoint.  A caller *)
(* whose last connection is still being wound up reads it again.           *)
AddressTells == stage \in {"accept", "drain", "decide"} => addr = bound

IInv == TypeOK /\ OldIsQuiet /\ AddressTells

(* Init establishes the invariant: control.go:84 begins with nothing bound. *)
LEMMA InitInvariant == Init => IInv
<1> SUFFICES ASSUME Init PROVE IInv
  OBVIOUS
<1>1. Flags
  BY Zenon DEF Init, Flags
<1>2. TypeOK
  BY <1>1, ControlAssumption DEF Init, TypeOK, Stages
<1>3. OldIsQuiet /\ AddressTells
  BY DEF Init, OldIsQuiet, AddressTells
<1> QED
  BY <1>2, <1>3 DEF IInv

(* What is true or false stays so.                                         *)
LEMMA NextFlags == ASSUME Flags, [Next]_vars PROVE Flags'
<1> USE DEF Flags, round
<1>1. CASE Serve
  BY Zenon, <1>1 DEF Serve, Bind, Publish, AcceptEnds, Drain, Decide, Accept
<1>2. CASE Watch \/ Cancel \/ BindFails \/ PublishFails \/ AcceptFails
  BY Zenon, <1>2 DEF Watch, WatchFinds, WatchStops, WatchEnds, Cancel,
                     BindFails, PublishFails, AcceptFails
<1>3. ASSUME NEW e \in Endpoints, CloseListener(e) \/ SocketRemoved(e)
      PROVE  Flags'
  BY Zenon, <1>3 DEF CloseListener, SocketRemoved
<1>4. ASSUME NEW k \in Callers,
             \/ Answer(k) \/ HandlerEnds(k)
             \/ DialControl(k) \/ CallAgain(k) \/ Dial(k)
             \/ Refused(k) \/ Expires(k) \/ HangUp(k)
      PROVE  Flags'
  BY Zenon, <1>4 DEF Answer, HandlerEnds, DialControl, CallAgain, Dial, Refused, Expires, HangUp
<1>5. CASE UNCHANGED vars
  BY Zenon, <1>5 DEF vars
<1> QED
  BY <1>1, <1>2, <1>3, <1>4, <1>5 DEF Next

(* Every step of serveControl, its goroutines and its callers keeps the    *)
(* shapes of the state.                                                    *)
LEMMA NextTyped == ASSUME TypeOK, [Next]_vars PROVE TypeOK'
<1> Flags'
  BY NextFlags DEF TypeOK
<1> USE ControlAssumption DEF TypeOK, sockets, round, callers, GoTo, Fault, Endpoints
<1>1. CASE Bind
  BY <1>1 DEF Bind, Stages
<1>2. CASE BindFails \/ PublishFails \/ AcceptFails
  <2>1. CASE BindFails
    BY <2>1 DEF BindFails, Stages
  <2>2. CASE PublishFails
    BY <2>2 DEF PublishFails, Stages
  <2>3. CASE AcceptFails
    BY <2>3 DEF AcceptFails, Stages
  <2> QED
    BY <1>2, <2>1, <2>2, <2>3
<1>3. CASE Publish \/ AcceptEnds \/ Drain
  <2>1. CASE Publish
    BY <2>1 DEF Publish, Stages
  <2>2. CASE AcceptEnds
    BY <2>2 DEF AcceptEnds, Stages
  <2>3. CASE Drain
    BY <2>3 DEF Drain, Stages
  <2> QED
    BY <1>3, <2>1, <2>2, <2>3
<1>4. CASE Decide
  BY <1>4 DEF Decide, Stages
<1>5. CASE Watch \/ Cancel
  BY <1>5 DEF Watch, WatchFinds, WatchStops, WatchEnds, Cancel
<1>6. ASSUME NEW e \in Endpoints, CloseListener(e) \/ SocketRemoved(e)
      PROVE  TypeOK'
  BY <1>6 DEF CloseListener, SocketRemoved
<1>7. ASSUME NEW k \in Callers, Accept(k) \/ Answer(k) \/ HandlerEnds(k)
      PROVE  TypeOK'
  BY <1>7 DEF Accept, Answer, HandlerEnds, Stages
<1>8. ASSUME NEW k \in Callers,
             DialControl(k) \/ CallAgain(k) \/ Dial(k) \/ Refused(k) \/ Expires(k) \/ HangUp(k)
      PROVE  TypeOK'
  BY <1>8 DEF DialControl, CallAgain, Dial, Refused, Expires, HangUp
<1>9. CASE UNCHANGED vars
  BY <1>9 DEF vars
<1> QED
  BY <1>1, <1>2, <1>3, <1>4, <1>5, <1>6, <1>7, <1>8, <1>9 DEF Next, Serve

(* A round is over only when its connections and its watchdog have ended.  *)
LEMMA NextQuiet == ASSUME IInv, [Next]_vars PROVE OldIsQuiet' /\ AddressTells'
<1> USE DEF IInv, TypeOK, OldIsQuiet, AddressTells, sockets, round, callers, GoTo, Fault
<1>1. CASE Bind \/ BindFails
  BY <1>1 DEF Bind, BindFails
<1>2. CASE Publish \/ PublishFails
  BY <1>2 DEF Publish, PublishFails
<1>3. CASE AcceptEnds \/ AcceptFails \/ Drain
  BY <1>3 DEF AcceptEnds, AcceptFails, Drain
<1>4. CASE Decide
  BY <1>4 DEF Decide
<1>5. CASE Watch \/ Cancel
  BY <1>5 DEF Watch, WatchFinds, WatchStops, WatchEnds, Cancel
<1>6. ASSUME NEW e \in Endpoints, CloseListener(e) \/ SocketRemoved(e)
      PROVE  OldIsQuiet' /\ AddressTells'
  BY <1>6 DEF CloseListener, SocketRemoved
<1>7. ASSUME NEW k \in Callers, Accept(k) \/ Answer(k) \/ HandlerEnds(k)
      PROVE  OldIsQuiet' /\ AddressTells'
  BY <1>7 DEF Accept, Answer, HandlerEnds
<1>8. ASSUME NEW k \in Callers, DialControl(k)
      PROVE  OldIsQuiet' /\ AddressTells'
  BY <1>8 DEF DialControl
<1>9. ASSUME NEW k \in Callers,
             CallAgain(k) \/ Dial(k) \/ Refused(k) \/ Expires(k) \/ HangUp(k)
      PROVE  OldIsQuiet' /\ AddressTells'
  BY <1>9 DEF CallAgain, Dial, Refused, Expires, HangUp
<1>10. CASE UNCHANGED vars
  BY <1>10 DEF vars
<1> QED
  BY <1>1, <1>2, <1>3, <1>4, <1>5, <1>6, <1>7, <1>8, <1>9, <1>10 DEF Next, Serve

LEMMA ControlInvariant == Spec => []IInv
<1>1. IInv /\ [Next]_vars => IInv'
  BY NextTyped, NextQuiet DEF IInv
<1> QED
  BY InitInvariant, <1>1, PTL DEF Spec

(* The state of the endpoint, its rounds and its callers keeps its shapes. *)
THEOREM ControlTyped == Spec => []TypeOK
BY ControlInvariant, PTL DEF IInv

(* control.go:144 and 147: an endpoint is bound, or the loop left, only    *)
(* when every connection and the watchdog of the last round have ended,    *)
(* whoever removes, cancels, calls or fails in between.                    *)
THEOREM ControlOldIsQuiet == Spec => []OldIsQuiet
BY ControlInvariant, PTL DEF IInv

-----------------------------------------------------------------------------
(* Why the loop ends, and what it leaves behind.                           *)

(* The reasons for a round to end.                                         *)
Reason == vanished \/ told \/ faults > 0

(* The listener of a round is closed, its context cancelled and its loop   *)
(* left for a reason; a missing socket is recorded before it has effects.  *)
Reasoned ==
    /\ stage = "publish" => bound \in open
    /\ stage = "accept" /\ (stopped \/ bound \notin open) => Reason
    /\ watchdog = "found" => vanished
    /\ stage \in {"drain", "decide"} => Reason

(* Between rounds, and at the end, the last one is cancelled.              *)
Finished ==
    /\ stage \in {"decide", "done", "failed", "bind"} => bound = 0 \/ bound \notin open \/ stopped
    /\ stage = "decide" => stopped
    /\ stage \in {"done", "failed"} => addr = 0

Ending == Reasoned /\ AvailableUntilTold /\ Finished

LEMMA NextEnding == ASSUME IInv, Ending, [Next]_vars PROVE Ending'
<1> USE ControlAssumption
        DEF IInv, TypeOK, OldIsQuiet, Ending, Reasoned, Reason, AvailableUntilTold, Finished,
            sockets, round, callers, GoTo, Fault, Cancelled
<1>1. CASE Bind
  BY <1>1 DEF Bind
<1>2. CASE BindFails
  BY <1>2 DEF BindFails
<1>3. CASE Publish
  BY <1>3 DEF Publish
<1>4. CASE PublishFails
  BY <1>4 DEF PublishFails
<1>5. CASE AcceptEnds \/ AcceptFails
  BY <1>5 DEF AcceptEnds, AcceptFails
<1>6. CASE Drain
  BY <1>6 DEF Drain
<1>7. CASE Decide
  BY <1>7 DEF Decide
<1>8. CASE Watch
  BY <1>8 DEF Watch, WatchFinds, WatchStops, WatchEnds
<1>9. CASE Cancel
  BY <1>9 DEF Cancel
<1>10. ASSUME NEW e \in Endpoints, CloseListener(e) PROVE Ending'
  BY <1>10 DEF CloseListener, Endpoints
<1>11. ASSUME NEW e \in Endpoints, SocketRemoved(e) PROVE Ending'
  BY <1>11 DEF SocketRemoved
<1>12. ASSUME NEW k \in Callers,
              \/ Accept(k) \/ Answer(k) \/ HandlerEnds(k) \/ DialControl(k) \/ CallAgain(k)
              \/ Dial(k) \/ Refused(k) \/ Expires(k) \/ HangUp(k)
       PROVE  Ending'
  <2>1. UNCHANGED <<stage, bound, sockets, addr, told, round, faults>>
    BY <1>12 DEF Accept, Answer, HandlerEnds, DialControl, CallAgain, Dial, Refused, Expires, HangUp
  <2> QED
    BY <2>1
<1>13. CASE UNCHANGED vars
  BY <1>13 DEF vars
<1> QED
  BY <1>1, <1>2, <1>3, <1>4, <1>5, <1>6, <1>7, <1>8, <1>9, <1>10, <1>11, <1>12, <1>13
     DEF Next, Serve

LEMMA ControlEnding == Spec => []Ending
<1>1. Init => Ending
  BY DEF Init, Ending, Reasoned, AvailableUntilTold, Finished
<1>2. IInv /\ Ending /\ [Next]_vars => Ending'
  BY NextEnding
<1> QED
  BY <1>1, <1>2, ControlInvariant, PTL DEF Spec

(* control.go:75 and 169: only a cancellation, or something that failed,   *)
(* ends the loop.                                                          *)
THEOREM ControlAvailableUntilTold == Spec => []AvailableUntilTold
BY ControlEnding, PTL DEF Ending

(* control.go:125 and 154: the error of an Accept that fails is lost: what *)
(* is looked at is the context of the round, which was cancelled just      *)
(* before, so that serveControlOnce never returns it.                      *)
THEOREM ControlErrorLost == Spec => [][stage = "decide" => stage' # "failed"]_vars
<1>1. Ending /\ [Next]_vars => [stage = "decide" => stage' # "failed"]_vars
  <2> SUFFICES ASSUME Ending, Next, stage = "decide"
               PROVE  stage' # "failed"
    OBVIOUS
  <2>1. stopped
    BY DEF Ending, Finished
  <2>2. CASE Decide
    BY <2>1, <2>2 DEF Decide, Cancelled
  <2>3. CASE ~ Decide
    BY <2>3 DEF Next, Serve, Watch, Bind, Publish, AcceptEnds, Drain, Accept, BindFails,
                PublishFails, AcceptFails, WatchFinds, WatchStops, WatchEnds, Cancel,
                CloseListener, SocketRemoved, Answer, HandlerEnds, DialControl, CallAgain,
                Dial, Refused, Expires, HangUp, GoTo
  <2> QED
    BY <2>2, <2>3
<1> QED
  BY <1>1, ControlEnding, PTL DEF Spec

(* What is left when serveControl has returned.                            *)
NothingLeft ==
    stage \in {"done", "failed"} =>
        /\ addr = 0 /\ handlers = {} /\ watchdog = "ended"
        /\ \A e \in open : e < bound \/ Cancelled

(* control.go:84 and 137: whichever way the loop ends, the address file is *)
(* gone, no connection and no watchdog is left, and every listener still   *)
(* open has a goroutine that is about to close it.                         *)
THEOREM ControlNothingLeft == Spec => []NothingLeft
<1>1. IInv /\ Ending => NothingLeft
  BY ControlAssumption
     DEF IInv, TypeOK, OldIsQuiet, Ending, Finished, NothingLeft, Cancelled
<1> QED
  BY <1>1, ControlInvariant, ControlEnding, PTL

(* control.go:112: as long as a round is served, whoever reads the address *)
(* file finds its endpoint.                                                *)
THEOREM ControlAddressTells == Spec => []AddressTells
BY ControlInvariant, PTL DEF IInv
=============================================================================
