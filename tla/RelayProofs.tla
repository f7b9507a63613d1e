---------------------------- MODULE RelayProofs ----------------------------
(***************************************************************************)
(* Proofs about Relay, for any number of members, connections, envelopes   *)
(* and sessions and any queue limit: that envelopes are in one place and   *)
(* accounted for, that what becomes of them is what Mailbox allows, that   *)
(* they are written to connections of their recipient, and whose sessions  *)
(* are listed.                                                             *)
(***************************************************************************)
EXTENDS Relay, SequenceTheorems, TLAPS

USE RelayAssumption

-----------------------------------------------------------------------------
(* The variables keep their types: whatever the interleaving, the relay's  *)
(* maps hold connections and envelopes, its goroutines are at one of the   *)
(* stages of handleConnect, and one holds envelopes exactly while it is    *)
(* inside flushQueue or handleEnvelope.                                    *)

LEMMA StageNames ==
    /\ \A s \in {"idle", "auth", "register", "take", "flush", "putBack", "serve",
                 "write", "enqueue", "unregister", "drop", "done",
                 "greet", "tell", "farewell", "gatherTell", "gatherFarewell"} : s \in Stages
    /\ RosterStages = {"greet", "tell", "farewell"}
    /\ DOMAIN AfterGather = {"gatherTell", "gatherFarewell"}
BY DEF Stages, RosterStages, AfterRosters, AfterGather

LEMMA SettleShapes ==
    ASSUME Shapes, NEW S, NEW f \in Fates
    PROVE  Settle(S, f) \in [Envelopes -> Fates]
BY DEF Shapes, Settle

LEMMA EnqueueShapes ==
    ASSUME Shapes, NEW m \in Members, NEW e \in Envelopes, Enqueue(m, e)
    PROVE  /\ queued' \in [Members -> Seq(Envelopes)]
           /\ stale' \in [Members -> Nat]
BY DEF Shapes, Enqueue, Full

LEMMA InitTyped == Init => TypeOK
BY DEF Init, TypeOK, Shapes, HandsFit, Statuses, Links, Stages, RosterStages,
       AfterRosters, AfterGather, Fates

LEMMA NextTyped == TypeOK /\ [Next]_vars => TypeOK'
<1> SUFFICES ASSUME TypeOK, [Next]_vars PROVE TypeOK'
  OBVIOUS
<1> USE DEF TypeOK, Shapes, HandsFit, store, mail, routing, rosters, GoTo
<1> USE StageNames
<1>1. ASSUME NEW m \in Members, Join(m) PROVE TypeOK'
  BY <1>1 DEF Join, Statuses
<1>2. ASSUME NEW m \in Members, Revoke(m) PROVE TypeOK'
  BY <1>2 DEF Revoke, Statuses
<1>3. ASSUME NEW m \in Members, Age(m) PROVE TypeOK'
  BY <1>3 DEF Age
<1>4. ASSUME NEW c \in Conns, Leave(c) PROVE TypeOK'
  BY <1>4 DEF Leave, Links
<1>5. ASSUME NEW c \in Conns, Notice(c) PROVE TypeOK'
  BY <1>5 DEF Notice, Links
<1>6. ASSUME NEW c \in Conns, Hello(c) PROVE TypeOK'
  BY <1>6 DEF Hello, Links
<1>7. ASSUME NEW c \in Conns, Auth(c) PROVE TypeOK'
  BY <1>7 DEF Auth
<1>8. ASSUME NEW c \in Conns, HandshakeFails(c) PROVE TypeOK'
  BY <1>8 DEF HandshakeFails, Links
<1>9. ASSUME NEW c \in Conns, Register(c) PROVE TypeOK'
  BY <1>9 DEF Register, Links
<1>10. ASSUME NEW c \in Conns, TakeQueue(c) PROVE TypeOK'
  <2> DEFINE m == MemberOf[c]
             fresh == SubSeq(queued[m], stale[m] + 1, Len(queued[m]))
  <2>1. m \in Members /\ fresh \in Seq(Envelopes)
    BY SubSeqProperties
  <2> HIDE DEF m, fresh
  <2>2. pc[c] = "take" /\ pc' = [pc EXCEPT ![c] = IF fresh = <<>> THEN "serve" ELSE "flush"]
    BY <1>10 DEF TakeQueue, m, fresh
  <2>3. hand' = [hand EXCEPT ![c] = fresh] /\ target' = target
    BY <1>10 DEF TakeQueue, m, fresh
  <2>4. fate' \in [Envelopes -> Fates]
    BY <1>10, SettleShapes DEF TakeQueue, Fates
  <2>5. Shapes'
    <3>1. /\ queued' = [queued EXCEPT ![m] = <<>>] /\ stale' = [stale EXCEPT ![m] = 0]
          /\ UNCHANGED <<status, shared, online, link, reported, todo, snap, view>>
      BY <1>10 DEF TakeQueue, m
    <3>2. queued' \in [Members -> Seq(Envelopes)] /\ stale' \in [Members -> Nat]
      BY <2>1, <3>1
    <3>3. pc' \in [Conns -> Stages]
      BY <2>2
    <3>4. hand' \in [Conns -> Seq(Envelopes)]
      BY <2>1, <2>3
    <3> QED
      BY <2>3, <2>4, <3>1, <3>2, <3>3, <3>4
  <2>6. HandsFit'
    BY <2>1, <2>2, <2>3
  <2> QED
    BY <2>5, <2>6
<1>11. ASSUME NEW c \in Conns, FlushOne(c) PROVE TypeOK'
  <2>1. hand[c] # <<>> /\ Tail(hand[c]) \in Seq(Envelopes)
    BY <1>11 DEF FlushOne
  <2>2. Shapes'
    BY <1>11, <2>1 DEF FlushOne, Settle, Fates
  <2>3. HandsFit'
    BY <1>11, <2>1 DEF FlushOne
  <2> QED
    BY <2>2, <2>3
<1>12. ASSUME NEW c \in Conns, FlushFails(c) PROVE TypeOK'
  BY <1>12 DEF FlushFails
<1>13. ASSUME NEW c \in Conns, PutBack(c) PROVE TypeOK'
  <2>1. Head(hand[c]) \in Envelopes /\ MemberOf[c] \in Members
    BY <1>13 DEF PutBack
  <2>2. queued' \in [Members -> Seq(Envelopes)] /\ stale' \in [Members -> Nat]
    BY <1>13, <2>1, EnqueueShapes DEF PutBack
  <2>3. fate' \in [Envelopes -> Fates]
    BY <1>13 DEF PutBack, Fates
  <2>4. pc' \in [Conns -> Stages] /\ hand' \in [Conns -> Seq(Envelopes)]
    BY <1>13 DEF PutBack
  <2>5. Shapes'
    BY <1>13, <2>2, <2>3, <2>4 DEF PutBack
  <2>6. HandsFit'
    BY <1>13 DEF PutBack
  <2> QED
    BY <2>5, <2>6
<1>14. ASSUME NEW c \in Conns, NEW e \in Envelopes, Send(c, e) PROVE TypeOK'
  <2> DEFINE r == AddressedTo[e]
  <2>1. r \in Members /\ <<e>> \in Seq(Envelopes) /\ Len(<<e>>) = 1 /\ <<e>> # <<>>
    OBVIOUS
  <2> HIDE DEF r
  <2>2. fate' \in [Envelopes -> Fates]
    BY <1>14, SettleShapes DEF Send, Fates
  <2>3. CASE status[r] # "active"
    BY <1>14, <2>2, <2>3 DEF Send, r
  <2>4. CASE status[r] = "active"
    <3>1. hand' = [hand EXCEPT ![c] = <<e>>] /\ target' = [target EXCEPT ![c] = online[r]]
      BY <1>14, <2>4 DEF Send, r
    <3>2. pc' = [pc EXCEPT ![c] = IF online[r] = None THEN "enqueue" ELSE "write"]
      BY <1>14, <2>4 DEF Send, r
    <3>3. Shapes'
      BY <1>14, <2>1, <2>2, <3>1, <3>2 DEF Send
    <3>4. HandsFit'
      BY <2>1, <3>1, <3>2
    <3> QED
      BY <3>3, <3>4
  <2> QED
    BY <2>3, <2>4
<1>15. ASSUME NEW c \in Conns, Forward(c) PROVE TypeOK'
  BY <1>15 DEF Forward, Settle, Fates
<1>16. ASSUME NEW c \in Conns, ForwardFails(c) PROVE TypeOK'
  BY <1>16 DEF ForwardFails
<1>17. ASSUME NEW c \in Conns, EnqueueOne(c) PROVE TypeOK'
  <2>1. Head(hand[c]) \in Envelopes /\ AddressedTo[Head(hand[c])] \in Members
    BY <1>17 DEF EnqueueOne
  <2>2. queued' \in [Members -> Seq(Envelopes)] /\ stale' \in [Members -> Nat]
    BY <1>17, <2>1, EnqueueShapes DEF EnqueueOne
  <2>3. fate' \in [Envelopes -> Fates]
    BY <1>17, SettleShapes DEF EnqueueOne, Fates
  <2>4. pc' \in [Conns -> Stages] /\ hand' \in [Conns -> Seq(Envelopes)]
    BY <1>17 DEF EnqueueOne
  <2>5. Shapes'
    BY <1>17, <2>2, <2>3, <2>4 DEF EnqueueOne
  <2>6. HandsFit'
    BY <1>17 DEF EnqueueOne
  <2> QED
    BY <2>5, <2>6
<1>18. ASSUME NEW c \in Conns, NEW S \in SUBSET Sessions, Publish(c, S) PROVE TypeOK'
  BY <1>18 DEF Publish
<1>19. ASSUME NEW c \in Conns, Gather(c) PROVE TypeOK'
  <2> DEFINE clients == {online[m] : m \in Members} \ {None}
  <2>1. clients \subseteq Conns
    OBVIOUS
  <2>2. pc[c] \in {"gatherTell", "gatherFarewell"}
    BY <1>19 DEF Gather, AfterGather
  <2> DEFINE next == AfterGather[pc[c]]
  <2>3. next \in {"tell", "farewell"} /\ AfterRosters[next] \in {"serve", "done"}
    BY <2>2 DEF AfterGather, AfterRosters
  <2>4. pc' = [pc EXCEPT ![c] = IF clients = {} THEN AfterRosters[next] ELSE next]
    BY <1>19 DEF Gather
  <2>5. todo' = [todo EXCEPT ![c] = clients]
    BY <1>19 DEF Gather
  <2> HIDE DEF next, clients
  <2>6. Shapes'
    <3>1. todo' \in [Conns -> SUBSET Conns]
      BY <2>1, <2>5
    <3>2. pc' \in [Conns -> Stages]
      BY <2>3, <2>4
    <3> QED
      BY <1>19, <3>1, <3>2 DEF Gather
  <2>7. HandsFit'
    BY <1>19, <2>2, <2>3, <2>4 DEF Gather
  <2> QED
    BY <2>6, <2>7
<1>20. ASSUME NEW c \in Conns, BuildRoster(c) PROVE TypeOK'
  BY <1>20 DEF BuildRoster, RosterFor, Rosters
<1>21. ASSUME NEW c \in Conns, WriteRoster(c) PROVE TypeOK'
  <2>1. snap[c].to \in Conns /\ snap[c].roster \in Rosters
    BY <1>21 DEF WriteRoster
  <2>2. pc[c] \in {"greet", "tell", "farewell"}
    BY <1>21 DEF WriteRoster
  <2>3. view' \in [Conns -> {None} \cup Rosters]
    BY <1>21, <2>1 DEF WriteRoster
  <2>4. pc' \in [Conns -> Stages]
    BY <1>21, <2>2 DEF WriteRoster, AfterRosters
  <2>5. pc'[c] \in {"greet", "tell", "farewell", "take", "serve", "done"}
    BY <1>21, <2>2 DEF WriteRoster, AfterRosters
  <2>6. HandsFit'
    BY <1>21, <2>2, <2>5 DEF WriteRoster
  <2> QED
    BY <1>21, <2>3, <2>4, <2>6 DEF WriteRoster
<1>22. ASSUME NEW c \in Conns, ReadFails(c) PROVE TypeOK'
  BY <1>22 DEF ReadFails
<1>23. ASSUME NEW c \in Conns, Unregister(c) PROVE TypeOK'
  BY <1>23 DEF Unregister
<1>24. ASSUME NEW c \in Conns, DropSessions(c) PROVE TypeOK'
  BY <1>24 DEF DropSessions
<1>25. CASE UNCHANGED vars
  BY <1>25 DEF vars
<1> QED
  BY <1>1, <1>2, <1>3, <1>4, <1>5, <1>6, <1>7, <1>8, <1>9, <1>10,
     <1>11, <1>12, <1>13, <1>14, <1>15, <1>16, <1>17, <1>18, <1>19, <1>20,
     <1>21, <1>22, <1>23, <1>24, <1>25 DEF Next, Goroutine

THEOREM RelayTyped == Spec => []TypeOK
BY InitTyped, NextTyped, PTL DEF Spec

-----------------------------------------------------------------------------
(* Where envelopes are.  The invariants OneCopy and Accounted speak of     *)
(* boxes; the proofs speak of queues and hands, one pair of them at a      *)
(* time.  Each part needs the others: an envelope that is sent is not held *)
(* anywhere because it is not waiting, and one that is evicted is not held *)
(* any more because it was in one place.                                   *)

QueuesApart ==
    \A m, n \in Members : \A i \in 1..Len(queued[m]), j \in 1..Len(queued[n]) :
        queued[m][i] = queued[n][j] => m = n /\ i = j

HandsApart ==
    \A c, d \in Conns : \A i \in 1..Len(hand[c]), j \in 1..Len(hand[d]) :
        hand[c][i] = hand[d][j] => c = d /\ i = j

QueuesAndHandsApart ==
    \A m \in Members, c \in Conns : \A i \in 1..Len(queued[m]), j \in 1..Len(hand[c]) :
        queued[m][i] # hand[c][j]

Queueing(e) == \E m \in Members : \E i \in 1..Len(queued[m]) : queued[m][i] = e
InHand(e) == \E c \in Conns : \E i \in 1..Len(hand[c]) : hand[c][i] = e
Tracked == \A e \in Envelopes : fate[e] = "waiting" <=> Queueing(e) \/ InHand(e)

IInv == /\ TypeOK
        /\ QueueBounded
        /\ QueuesApart
        /\ HandsApart
        /\ QueuesAndHandsApart
        /\ Tracked

LEMMA IInvImplies == IInv => OneCopy /\ Accounted
<1> SUFFICES ASSUME IInv PROVE OneCopy /\ Accounted
  OBVIOUS
<1>1. \A b \in Boxes : Box(b) \in Seq(Envelopes) /\ DOMAIN Box(b) = 1..Len(Box(b))
  BY DEF IInv, TypeOK, Shapes, Boxes, Box
<1>2. OneCopy
  <2> SUFFICES ASSUME NEW a \in Boxes, NEW b \in Boxes,
                      NEW i \in 1..Len(Box(a)), NEW j \in 1..Len(Box(b)),
                      Box(a)[i] = Box(b)[j]
               PROVE  a = b /\ i = j
    BY <1>1 DEF OneCopy
  <2>1. CASE a \in Members /\ b \in Members
    BY <2>1 DEF IInv, QueuesApart, Box
  <2>2. CASE a \in Conns /\ b \in Conns
    BY <2>2 DEF IInv, HandsApart, Box
  <2>3. CASE a \in Members /\ b \in Conns
    BY <2>3 DEF IInv, QueuesAndHandsApart, Box
  <2>4. CASE a \in Conns /\ b \in Members
    BY <2>4 DEF IInv, QueuesAndHandsApart, Box
  <2> QED
    BY <2>1, <2>2, <2>3, <2>4 DEF Boxes
<1>3. Accounted
  <2>1. \A e : e \in Held <=> \E b \in Boxes : \E i \in 1..Len(Box(b)) : Box(b)[i] = e
    BY <1>1 DEF Held, Range
  <2>2. \A e : (\E b \in Boxes : \E i \in 1..Len(Box(b)) : Box(b)[i] = e)
                 <=> Queueing(e) \/ InHand(e)
    BY DEF Boxes, Box, Queueing, InHand
  <2>3. \A e \in Held : e \in Envelopes
    BY <1>1, <2>1
  <2> QED
    BY <2>1, <2>2, <2>3 DEF Accounted, Ended, IInv, Tracked
<1> QED
  BY <1>2, <1>3

(* What a queue holds after an envelope went into it: everything but the   *)
(* oldest when it was full, moved up by one, and the envelope at the end.  *)
Dropped(m) == IF Full(m) THEN 1 ELSE 0

LEMMA EnqueueElements ==
    ASSUME TypeOK, NEW m \in Members, NEW e \in Envelopes, Enqueue(m, e)
    PROVE  /\ \A n \in Members \ {m} : queued'[n] = queued[n] /\ stale'[n] = stale[n]
           /\ Len(queued'[m]) = Len(queued[m]) - Dropped(m) + 1
           /\ Len(queued[m]) - Dropped(m) \in Nat
           /\ \A i \in 1..(Len(queued[m]) - Dropped(m)) : queued'[m][i] = queued[m][i + Dropped(m)]
           /\ queued'[m][Len(queued[m]) - Dropped(m) + 1] = e
           /\ Evicted(m) = IF Full(m) THEN {queued[m][1]} ELSE {}
           /\ stale'[m] = IF Full(m) /\ stale[m] > 0 THEN stale[m] - 1 ELSE stale[m]
<1>1. queued[m] \in Seq(Envelopes) /\ stale[m] \in Nat
  BY DEF TypeOK, Shapes
<1>2. CASE Full(m)
  <2>1. queued[m] # <<>>
    BY <1>1, <1>2 DEF Full
  <2>2. queued' = [queued EXCEPT ![m] = Append(Tail(queued[m]), e)]
    BY <1>2 DEF Enqueue
  <2>3. /\ Tail(queued[m]) \in Seq(Envelopes) /\ Len(Tail(queued[m])) = Len(queued[m]) - 1
        /\ \A i \in 1..(Len(queued[m]) - 1) : Tail(queued[m])[i] = queued[m][i + 1]
        /\ Head(queued[m]) = queued[m][1]
    BY <1>1, <2>1
  <2> QED
    BY <1>1, <1>2, <2>2, <2>3 DEF TypeOK, Shapes, Enqueue, Evicted, Dropped
<1>3. CASE ~Full(m)
  BY <1>1, <1>3 DEF TypeOK, Shapes, Enqueue, Evicted, Dropped
<1> QED
  BY <1>2, <1>3

(* What an action does to the boxes is said once, as a move from one box   *)
(* to another, and the parts of IInv follow from the move.                 *)

LEMMA Untouched ==
    ASSUME IInv, TypeOK', UNCHANGED <<queued, hand, fate>>, QueueBounded'
    PROVE  IInv'
BY DEF IInv, QueuesApart, HandsApart, QueuesAndHandsApart, Tracked, Queueing, InHand

LEMMA Single ==
    ASSUME NEW s \in Seq(Envelopes), Len(s) = 1
    PROVE  s # <<>> /\ Tail(s) = <<>> /\ Head(s) \in Envelopes
<1>1. Len(<<>>) = 0
  OBVIOUS
<1>2. s # <<>>
  BY <1>1
<1>3. Head(s) \in Envelopes
  BY <1>2
<1>4. Tail(s) \in Seq(Envelopes) /\ Len(Tail(s)) = 0
  BY <1>2
<1>5. \A t \in Seq(Envelopes) : Len(t) = 0 => t = <<>>
  BY EmptySeq
<1> QED
  BY <1>2, <1>3, <1>4, <1>5

(* What is left of a sequence after its first k elements.                   *)
LEMMA Suffix ==
    ASSUME NEW s \in Seq(Envelopes), NEW k \in Nat, k <= Len(s),
           NEW t, t = SubSeq(s, k + 1, Len(s))
    PROVE  /\ t \in Seq(Envelopes)
           /\ Len(t) = Len(s) - k
           /\ \A i \in 1..Len(t) : i + k \in (k+1)..Len(s) /\ t[i] = s[i + k]
           /\ \A i \in (k+1)..Len(s) : i - k \in 1..Len(t) /\ t[i - k] = s[i]
<1>1. Len(s) \in Nat
  OBVIOUS
<1>2. Len(t) = Len(s) - k
  BY <1>1
<1>3. t \in Seq(Envelopes)
  BY <1>1
<1>4. \A i \in 1..Len(t) : t[i] = s[i + k]
  BY <1>1, <1>2
<1> QED
  BY <1>1, <1>2, <1>3, <1>4

(* flushQueue's first half: what is not stale moves to the goroutine.      *)
LEMMA TakeQueueKeeps ==
    ASSUME IInv, TypeOK', NEW c \in Conns, TakeQueue(c)
    PROVE  IInv'
<1> DEFINE m == MemberOf[c]
           k == stale[m]
           fresh == SubSeq(queued[m], k + 1, Len(queued[m]))
<1>1. /\ m \in Members /\ k \in Nat /\ queued[m] \in Seq(Envelopes)
      /\ k <= Len(queued[m])
  BY DEF IInv, TypeOK, Shapes, QueueBounded
<1> HIDE DEF m, k, fresh
<1>2. /\ fresh \in Seq(Envelopes)
      /\ Len(fresh) = Len(queued[m]) - k
      /\ \A i \in 1..Len(fresh) : i + k \in (k+1)..Len(queued[m]) /\ fresh[i] = queued[m][i + k]
      /\ \A i \in (k+1)..Len(queued[m]) : i - k \in 1..Len(fresh) /\ fresh[i - k] = queued[m][i]
  BY <1>1, Suffix DEF fresh
<1>3. /\ queued' = [queued EXCEPT ![m] = <<>>]
      /\ stale' = [stale EXCEPT ![m] = 0]
      /\ hand' = [hand EXCEPT ![c] = fresh]
      /\ fate' = Settle({queued[m][i] : i \in 1..k}, "expired")
      /\ hand[c] = <<>>
  BY DEF TakeQueue, IInv, TypeOK, HandsFit, GoTo, m, k, fresh
<1>4. /\ queued'[m] = <<>> /\ Len(queued'[m]) = 0
      /\ \A n \in Members \ {m} : queued'[n] = queued[n]
      /\ hand'[c] = fresh
      /\ \A d \in Conns \ {c} : hand'[d] = hand[d]
  BY <1>1, <1>3 DEF IInv, TypeOK, Shapes
<1>5. QueueBounded'
  BY <1>1, <1>3, <1>4 DEF IInv, TypeOK, Shapes, QueueBounded
<1>6. QueuesApart'
  BY <1>4 DEF IInv, QueuesApart
<1>7. HandsApart'
  <2> SUFFICES ASSUME NEW d1 \in Conns, NEW d2 \in Conns,
                      NEW i \in 1..Len(hand'[d1]), NEW j \in 1..Len(hand'[d2]),
                      hand'[d1][i] = hand'[d2][j]
               PROVE  d1 = d2 /\ i = j
    BY DEF HandsApart
  <2>1. \A n \in 1..Len(fresh) : n + k \in 1..Len(queued[m])
    BY <1>1, <1>2
  <2>2. CASE d1 = c /\ d2 = c
    <3>1. i + k \in 1..Len(queued[m]) /\ j + k \in 1..Len(queued[m])
      BY <1>4, <2>1, <2>2
    <3>2. queued[m][i + k] = queued[m][j + k]
      BY <1>2, <1>4, <2>2
    <3>3. i + k = j + k
      BY <1>1, <3>1, <3>2 DEF IInv, QueuesApart
    <3> QED
      BY <1>1, <2>2, <3>3
  <2>3. CASE d1 = c /\ d2 # c
    <3>1. i + k \in 1..Len(queued[m]) /\ queued[m][i + k] = hand[d2][j]
      BY <1>2, <1>4, <2>1, <2>3
    <3> QED
      BY <1>1, <1>4, <2>3, <3>1 DEF IInv, QueuesAndHandsApart
  <2>4. CASE d1 # c /\ d2 = c
    <3>1. j + k \in 1..Len(queued[m]) /\ queued[m][j + k] = hand[d1][i]
      BY <1>2, <1>4, <2>1, <2>4
    <3> QED
      BY <1>1, <1>4, <2>4, <3>1 DEF IInv, QueuesAndHandsApart
  <2>5. CASE d1 # c /\ d2 # c
    BY <1>4, <2>5 DEF IInv, HandsApart
  <2> QED
    BY <2>2, <2>3, <2>4, <2>5
<1>8. QueuesAndHandsApart'
  <2> SUFFICES ASSUME NEW n \in Members, NEW d \in Conns,
                      NEW i \in 1..Len(queued'[n]), NEW j \in 1..Len(hand'[d])
               PROVE  queued'[n][i] # hand'[d][j]
    BY DEF QueuesAndHandsApart
  <2>1. n # m
    BY <1>4
  <2>2. CASE d = c
    <3>1. j \in 1..Len(fresh) /\ hand'[d][j] = fresh[j]
      BY <1>4, <2>2
    <3>2. j + k \in 1..Len(queued[m]) /\ fresh[j] = queued[m][j + k]
      BY <1>1, <1>2, <3>1
    <3> QED
      BY <1>1, <1>4, <2>1, <3>1, <3>2 DEF IInv, QueuesApart
  <2>3. CASE d # c
    BY <1>4, <2>1, <2>3 DEF IInv, QueuesAndHandsApart
  <2> QED
    BY <2>2, <2>3
<1>9. Tracked'
  <2> SUFFICES ASSUME NEW e \in Envelopes
               PROVE  fate'[e] = "waiting" <=> Queueing(e)' \/ InHand(e)'
    BY DEF Tracked
  <2>1. fate'[e] = IF \E i \in 1..k : queued[m][i] = e THEN "expired" ELSE fate[e]
    BY <1>3 DEF Settle
  <2>2. Queueing(e)' <=> \E n \in Members \ {m} : \E i \in 1..Len(queued[n]) : queued[n][i] = e
    BY <1>1, <1>4 DEF Queueing
  <2>3. InHand(e)' <=> \/ \E i \in (k+1)..Len(queued[m]) : queued[m][i] = e
                       \/ \E d \in Conns \ {c} : \E i \in 1..Len(hand[d]) : hand[d][i] = e
    <3>1. (\E i \in 1..Len(fresh) : fresh[i] = e)
            <=> \E i \in (k+1)..Len(queued[m]) : queued[m][i] = e
      <4>1. ASSUME NEW i \in (k+1)..Len(queued[m]), queued[m][i] = e
            PROVE  \E j \in 1..Len(fresh) : fresh[j] = e
        <5>1. i - k \in 1..Len(fresh) /\ fresh[i - k] = e
          BY <1>1, <1>2, <4>1
        <5> QED
          BY <5>1
      <4>2. ASSUME NEW i \in 1..Len(fresh), fresh[i] = e
            PROVE  \E j \in (k+1)..Len(queued[m]) : queued[m][j] = e
        <5>1. i + k \in (k+1)..Len(queued[m]) /\ queued[m][i + k] = e
          BY <1>1, <1>2, <4>2
        <5> QED
          BY <5>1
      <4> QED
        BY <4>1, <4>2
    <3> QED
      BY <1>4, <3>1 DEF InHand
  <2>4. InHand(e) <=> \E d \in Conns \ {c} : \E i \in 1..Len(hand[d]) : hand[d][i] = e
    BY <1>3 DEF InHand
  <2>5. fate[e] = "waiting" <=> Queueing(e) \/ InHand(e)
    BY DEF IInv, Tracked
  <2>6. CASE \E i \in 1..k : queued[m][i] = e
    <3>1. PICK i \in 1..k : queued[m][i] = e
      BY <2>6
    <3>2. i \in 1..Len(queued[m])
      BY <1>1
    <3>3. ~Queueing(e)'
      BY <1>1, <2>2, <3>1, <3>2 DEF IInv, QueuesApart
    <3>4. ~InHand(e)'
      BY <1>1, <2>3, <3>1, <3>2 DEF IInv, QueuesApart, QueuesAndHandsApart
    <3> QED
      BY <2>1, <2>6, <3>3, <3>4
  <2>7. CASE ~\E i \in 1..k : queued[m][i] = e
    <3>1. Queueing(e) <=> \/ Queueing(e)'
                          \/ \E i \in (k+1)..Len(queued[m]) : queued[m][i] = e
      <4>1. \A i \in 1..Len(queued[m]) : queued[m][i] = e => i \in (k+1)..Len(queued[m])
        BY <1>1, <2>7
      <4>2. \A i \in (k+1)..Len(queued[m]) : i \in 1..Len(queued[m])
        BY <1>1
      <4> QED
        BY <1>1, <2>2, <4>1, <4>2 DEF Queueing
    <3> QED
      BY <2>1, <2>3, <2>4, <2>5, <2>7, <3>1
  <2> QED
    BY <2>6, <2>7
<1> QED
  BY <1>5, <1>6, <1>7, <1>8, <1>9 DEF IInv

(* An envelope written to its recipient leaves the hand that held it.      *)
LEMMA HandedOverKeeps ==
    ASSUME IInv, TypeOK', NEW c \in Conns, hand[c] # <<>>,
           hand' = [hand EXCEPT ![c] = Tail(hand[c])],
           fate' = Settle({Head(hand[c])}, "handed"),
           UNCHANGED <<queued, stale>>
    PROVE  IInv'
<1> DEFINE rest == Tail(hand[c])
<1>1. hand \in [Conns -> Seq(Envelopes)] /\ hand[c] \in Seq(Envelopes)
  BY DEF IInv, TypeOK, Shapes
<1>2. /\ Len(hand[c]) \in Nat /\ Len(hand[c]) >= 1
      /\ Len(rest) = Len(hand[c]) - 1
      /\ Head(hand[c]) = hand[c][1]
      /\ \A i \in 1..Len(rest) : i + 1 \in 2..Len(hand[c]) /\ rest[i] = hand[c][i + 1]
      /\ \A i \in 2..Len(hand[c]) : i - 1 \in 1..Len(rest) /\ rest[i - 1] = hand[c][i]
  BY <1>1
<1>3. hand'[c] = rest /\ \A d \in Conns \ {c} : hand'[d] = hand[d]
  BY <1>1
<1> HIDE DEF rest
<1>4. QueueBounded' /\ QueuesApart'
  BY DEF IInv, QueueBounded, QueuesApart
<1>5. ASSUME NEW d \in Conns, NEW i \in 1..Len(hand'[d])
      PROVE  LET j == IF d = c THEN i + 1 ELSE i
             IN  j \in 1..Len(hand[d]) /\ hand'[d][i] = hand[d][j]
  BY <1>2, <1>3
<1>6. HandsApart'
  <2> SUFFICES ASSUME NEW d1 \in Conns, NEW d2 \in Conns,
                      NEW i \in 1..Len(hand'[d1]), NEW j \in 1..Len(hand'[d2]),
                      hand'[d1][i] = hand'[d2][j]
               PROVE  d1 = d2 /\ i = j
    BY DEF HandsApart
  <2> DEFINE i1 == IF d1 = c THEN i + 1 ELSE i
             j1 == IF d2 = c THEN j + 1 ELSE j
  <2>1. /\ i1 \in 1..Len(hand[d1]) /\ hand'[d1][i] = hand[d1][i1]
        /\ j1 \in 1..Len(hand[d2]) /\ hand'[d2][j] = hand[d2][j1]
    BY <1>5
  <2> HIDE DEF i1, j1
  <2>2. d1 = d2 /\ i1 = j1
    BY <2>1 DEF IInv, HandsApart
  <2> QED
    BY <1>3, <2>2 DEF i1, j1
<1>7. QueuesAndHandsApart'
  <2> SUFFICES ASSUME NEW n \in Members, NEW d \in Conns,
                      NEW i \in 1..Len(queued[n]), NEW j \in 1..Len(hand'[d])
               PROVE  queued[n][i] # hand'[d][j]
    BY DEF QueuesAndHandsApart
  <2> QED
    BY <1>5 DEF IInv, QueuesAndHandsApart
<1>8. Tracked'
  <2> SUFFICES ASSUME NEW e \in Envelopes
               PROVE  fate'[e] = "waiting" <=> Queueing(e) \/ InHand(e)'
    BY DEF Tracked, Queueing
  <2>1. fate'[e] = IF e = hand[c][1] THEN "handed" ELSE fate[e]
    BY <1>2 DEF Settle
  <2>2. fate[e] = "waiting" <=> Queueing(e) \/ InHand(e)
    BY DEF IInv, Tracked
  <2>3. CASE e = hand[c][1]
    <3>1. ~Queueing(e)
      BY <1>2, <2>3 DEF IInv, QueuesAndHandsApart, Queueing
    <3>2. ~InHand(e)'
      <4> SUFFICES ASSUME NEW d \in Conns, NEW i \in 1..Len(hand'[d]), hand'[d][i] = e
                   PROVE  FALSE
        BY DEF InHand
      <4> DEFINE i1 == IF d = c THEN i + 1 ELSE i
      <4>1. i1 \in 1..Len(hand[d]) /\ hand[d][i1] = e
        BY <1>5
      <4>2. d = c => i1 # 1
        OBVIOUS
      <4> HIDE DEF i1
      <4> QED
        BY <1>2, <2>3, <4>1, <4>2 DEF IInv, HandsApart
    <3> QED
      BY <2>1, <2>3, <3>1, <3>2
  <2>4. CASE e # hand[c][1]
    <3>1. ASSUME InHand(e) PROVE InHand(e)'
      <4>1. PICK d \in Conns : \E i \in 1..Len(hand[d]) : hand[d][i] = e
        BY <3>1 DEF InHand
      <4>2. PICK i \in 1..Len(hand[d]) : hand[d][i] = e
        BY <4>1
      <4>3. CASE d = c
        <5>1. i \in 2..Len(hand[c])
          BY <1>2, <2>4, <4>2, <4>3
        <5>2. i - 1 \in 1..Len(hand'[c]) /\ hand'[c][i - 1] = e
          BY <1>2, <1>3, <4>2, <4>3, <5>1
        <5> QED
          BY <5>2 DEF InHand
      <4>4. CASE d # c
        BY <1>3, <4>2, <4>4 DEF InHand
      <4> QED
        BY <4>3, <4>4
    <3>2. ASSUME InHand(e)' PROVE InHand(e)
      BY <1>5, <3>2 DEF InHand
    <3> QED
      BY <2>1, <2>2, <2>4, <3>1, <3>2
  <2> QED
    BY <2>3, <2>4
<1> QED
  BY <1>4, <1>6, <1>7, <1>8 DEF IInv

(* An envelope that could not be written goes to the end of a queue, which *)
(* may cost the queue its oldest one, and what came after it in the same   *)
(* hand is given up.                                                       *)
LEMMA PutBackKeeps ==
    ASSUME IInv, TypeOK', NEW m \in Members, NEW c \in Conns, hand[c] # <<>>,
           Enqueue(m, Head(hand[c])),
           hand' = [hand EXCEPT ![c] = <<>>],
           fate' = [e \in Envelopes |->
                      IF e \in Evicted(m) THEN "evicted"
                      ELSE IF e \in Range(Tail(hand[c])) THEN "abandoned"
                      ELSE fate[e]]
    PROVE  IInv'
<1> DEFINE e0 == Head(hand[c])
           k == Dropped(m)
           last == Len(queued[m]) - k + 1
<1>1. /\ hand \in [Conns -> Seq(Envelopes)] /\ hand[c] \in Seq(Envelopes)
      /\ Len(hand[c]) \in Nat /\ Len(hand[c]) >= 1
      /\ e0 \in Envelopes /\ e0 = hand[c][1]
      /\ Len(queued[m]) \in Nat /\ k = IF Full(m) THEN 1 ELSE 0
  <2>1. hand \in [Conns -> Seq(Envelopes)] /\ queued \in [Members -> Seq(Envelopes)]
    BY DEF IInv, TypeOK, Shapes
  <2>2. hand[c] \in Seq(Envelopes) /\ queued[m] \in Seq(Envelopes)
    BY <2>1
  <2>3. k = IF Full(m) THEN 1 ELSE 0
    BY DEF Dropped
  <2> QED
    BY <2>1, <2>2, <2>3
<1>2. /\ \A n \in Members \ {m} : queued'[n] = queued[n] /\ stale'[n] = stale[n]
      /\ Len(queued'[m]) = last /\ last \in Nat \ {0}
      /\ \A i \in 1..(last - 1) : queued'[m][i] = queued[m][i + k]
      /\ \A i \in 1..(last - 1) : i + k \in 1..Len(queued[m])
      /\ queued'[m][last] = e0
      /\ Evicted(m) = IF Full(m) THEN {queued[m][1]} ELSE {}
      /\ stale'[m] = IF Full(m) /\ stale[m] > 0 THEN stale[m] - 1 ELSE stale[m]
  <2>1. TypeOK
    BY DEF IInv
  <2>2. e0 \in Envelopes /\ Enqueue(m, e0)
    BY <1>1
  <2>3. /\ \A n \in Members \ {m} : queued'[n] = queued[n] /\ stale'[n] = stale[n]
        /\ Len(queued'[m]) = Len(queued[m]) - k + 1
        /\ Len(queued[m]) - k \in Nat
        /\ \A i \in 1..(Len(queued[m]) - k) : queued'[m][i] = queued[m][i + k]
        /\ queued'[m][Len(queued[m]) - k + 1] = e0
        /\ Evicted(m) = IF Full(m) THEN {queued[m][1]} ELSE {}
        /\ stale'[m] = IF Full(m) /\ stale[m] > 0 THEN stale[m] - 1 ELSE stale[m]
    BY <2>1, <2>2, EnqueueElements
  <2> HIDE DEF e0, k
  <2>4. last - 1 = Len(queued[m]) - k /\ last \in Nat \ {0}
    BY <1>1, <2>3
  <2>5. \A i \in 1..(last - 1) : i + k \in 1..Len(queued[m])
    BY <1>1, <2>3, <2>4
  <2> QED
    BY <2>3, <2>4, <2>5
<1>3. hand'[c] = <<>> /\ Len(hand'[c]) = 0 /\ \A d \in Conns \ {c} : hand'[d] = hand[d]
  BY <1>1
<1>4. Full(m) <=> Len(queued[m]) >= QueueLimit
  BY DEF Full
<1> HIDE DEF e0
<1>5. QueueBounded'
  <2> SUFFICES ASSUME NEW n \in Members
               PROVE  stale'[n] <= Len(queued'[n]) /\ Len(queued'[n]) <= QueueLimit
    BY DEF QueueBounded
  <2>1. /\ stale[n] <= Len(queued[n]) /\ Len(queued[n]) <= QueueLimit
        /\ stale[n] \in Nat /\ QueueLimit \in Nat \ {0}
    BY DEF IInv, TypeOK, Shapes, QueueBounded
  <2>2. CASE n # m
    BY <1>2, <2>1, <2>2
  <2>3. CASE n = m /\ Full(m)
    BY <1>1, <1>2, <1>4, <2>1, <2>3
  <2>4. CASE n = m /\ ~Full(m)
    BY <1>1, <1>2, <1>4, <2>1, <2>4
  <2> QED
    BY <2>2, <2>3, <2>4
<1> HIDE DEF k, last
<1>6. ASSUME NEW n \in Members, NEW i \in 1..Len(queued'[n])
      PROVE  \/ n = m /\ i = last /\ queued'[n][i] = e0
             \/ LET j == IF n = m THEN i + k ELSE i
                IN  j \in 1..Len(queued[n]) /\ queued'[n][i] = queued[n][j]
  BY <1>1, <1>2
<1>7. /\ \A n \in Members : \A i \in 1..Len(queued[n]) : queued[n][i] # e0
      /\ \A d \in Conns \ {c} : \A i \in 1..Len(hand[d]) : hand[d][i] # e0
  BY <1>1 DEF IInv, QueuesAndHandsApart, HandsApart
<1>8. QueuesApart'
  <2> SUFFICES ASSUME NEW n1 \in Members, NEW n2 \in Members,
                      NEW i \in 1..Len(queued'[n1]), NEW j \in 1..Len(queued'[n2]),
                      queued'[n1][i] = queued'[n2][j]
               PROVE  n1 = n2 /\ i = j
    BY DEF QueuesApart
  <2> DEFINE i1 == IF n1 = m THEN i + k ELSE i
             j1 == IF n2 = m THEN j + k ELSE j
  <2>1. \/ n1 = m /\ i = last /\ queued'[n1][i] = e0
        \/ i1 \in 1..Len(queued[n1]) /\ queued'[n1][i] = queued[n1][i1]
    BY <1>6
  <2>2. \/ n2 = m /\ j = last /\ queued'[n2][j] = e0
        \/ j1 \in 1..Len(queued[n2]) /\ queued'[n2][j] = queued[n2][j1]
    BY <1>6
  <2>3. i1 = j1 /\ n1 = n2 => i = j
    BY <1>1
  <2> HIDE DEF i1, j1
  <2> QED
    BY <1>7, <2>1, <2>2, <2>3 DEF IInv, QueuesApart
<1>9. HandsApart'
  BY <1>3 DEF IInv, HandsApart
<1>10. QueuesAndHandsApart'
  <2> SUFFICES ASSUME NEW n \in Members, NEW d \in Conns,
                      NEW i \in 1..Len(queued'[n]), NEW j \in 1..Len(hand'[d])
               PROVE  queued'[n][i] # hand'[d][j]
    BY DEF QueuesAndHandsApart
  <2>1. d # c /\ hand'[d] = hand[d]
    BY <1>3
  <2> DEFINE i1 == IF n = m THEN i + k ELSE i
  <2>2. \/ n = m /\ i = last /\ queued'[n][i] = e0
        \/ i1 \in 1..Len(queued[n]) /\ queued'[n][i] = queued[n][i1]
    BY <1>6
  <2> HIDE DEF i1
  <2> QED
    BY <1>7, <2>1, <2>2 DEF IInv, QueuesAndHandsApart
<1>11. Tracked'
  <2> SUFFICES ASSUME NEW e \in Envelopes
               PROVE  fate'[e] = "waiting" <=> Queueing(e)' \/ InHand(e)'
    BY DEF Tracked
  <2>1. fate[e] = "waiting" <=> Queueing(e) \/ InHand(e)
    BY DEF IInv, Tracked
  <2>2. e \in Range(Tail(hand[c])) <=> \E i \in 2..Len(hand[c]) : hand[c][i] = e
    <3> DEFINE rest == Tail(hand[c])
    <3>1. /\ rest \in Seq(Envelopes) /\ Len(rest) = Len(hand[c]) - 1
          /\ \A i \in 1..Len(rest) : i + 1 \in 2..Len(hand[c]) /\ rest[i] = hand[c][i + 1]
          /\ \A i \in 2..Len(hand[c]) : i - 1 \in 1..Len(rest) /\ rest[i - 1] = hand[c][i]
      BY <1>1
    <3> HIDE DEF rest
    <3>2. e \in Range(rest) <=> \E i \in 1..Len(rest) : rest[i] = e
      <4>1. DOMAIN rest = 1..Len(rest)
        BY <3>1
      <4> QED
        BY <4>1 DEF Range
    <3>3. (\E i \in 1..Len(rest) : rest[i] = e) <=> \E i \in 2..Len(hand[c]) : hand[c][i] = e
      BY <3>1
    <3> QED
      BY <3>2, <3>3 DEF rest
  <2>3. InHand(e)' <=> \E d \in Conns \ {c} : \E i \in 1..Len(hand[d]) : hand[d][i] = e
    BY <1>3 DEF InHand
  <2>4. CASE e \in Evicted(m)
    <3>1. Full(m) /\ e = queued[m][1] /\ 1 \in 1..Len(queued[m]) /\ k = 1
      BY <1>1, <1>2, <1>4, <2>4
    <3>2. ~InHand(e)'
      BY <2>3, <3>1 DEF IInv, QueuesAndHandsApart
    <3>3. ~Queueing(e)'
      <4> SUFFICES ASSUME NEW n \in Members, NEW i \in 1..Len(queued'[n]), queued'[n][i] = e
                   PROVE  FALSE
        BY DEF Queueing
      <4> DEFINE i1 == IF n = m THEN i + k ELSE i
      <4>1. \/ n = m /\ i = last /\ queued'[n][i] = e0
            \/ i1 \in 1..Len(queued[n]) /\ queued'[n][i] = queued[n][i1]
        BY <1>6
      <4>2. n = m => i1 # 1
        BY <3>1
      <4> HIDE DEF i1
      <4> QED
        BY <1>7, <3>1, <4>1, <4>2 DEF IInv, QueuesApart
    <3> QED
      BY <2>4, <3>2, <3>3
  <2>5. CASE e \notin Evicted(m) /\ e \in Range(Tail(hand[c]))
    <3>1. PICK i \in 2..Len(hand[c]) : hand[c][i] = e
      BY <2>2, <2>5
    <3>2. i \in 1..Len(hand[c]) /\ 1 \in 1..Len(hand[c]) /\ i # 1
      BY <1>1
    <3>3. e # e0
      BY <1>1, <3>1, <3>2 DEF IInv, HandsApart
    <3>4. ~InHand(e)'
      BY <2>3, <3>1, <3>2 DEF IInv, HandsApart
    <3>5. ~Queueing(e)'
      <4> SUFFICES ASSUME NEW n \in Members, NEW j \in 1..Len(queued'[n]), queued'[n][j] = e
                   PROVE  FALSE
        BY DEF Queueing
      <4> QED
        BY <1>6, <3>1, <3>2, <3>3 DEF IInv, QueuesAndHandsApart
    <3> QED
      BY <2>5, <3>4, <3>5
  <2>6. CASE e = e0
    <3>1. e \notin Evicted(m) /\ e \notin Range(Tail(hand[c]))
      <4>1. e \notin Evicted(m)
        <5>1. Full(m) => 1 \in 1..Len(queued[m])
          BY <1>1, <1>4
        <5>2. Full(m) => queued[m][1] # e
          BY <1>7, <2>6, <5>1
        <5> QED
          BY <1>2, <5>2
      <4>2. \A i \in 2..Len(hand[c]) : i \in 1..Len(hand[c]) /\ i # 1
        BY <1>1
      <4>3. 1 \in 1..Len(hand[c])
        BY <1>1
      <4> QED
        BY <1>1, <2>2, <2>6, <4>1, <4>2, <4>3 DEF IInv, HandsApart
    <3>2. InHand(e)
      BY <1>1, <2>6 DEF InHand
    <3>3. last \in 1..Len(queued'[m])
      BY <1>2
    <3>4. Queueing(e)'
      BY <1>2, <2>6, <3>3 DEF Queueing
    <3> QED
      BY <2>1, <3>1, <3>2, <3>4
  <2>7. CASE e # e0 /\ e \notin Evicted(m) /\ e \notin Range(Tail(hand[c]))
    <3>1. InHand(e)' <=> InHand(e)
      <4>1. ~\E i \in 1..Len(hand[c]) : hand[c][i] = e
        <5>1. \A i \in 1..Len(hand[c]) : i = 1 \/ i \in 2..Len(hand[c])
          BY <1>1
        <5> QED
          BY <1>1, <2>2, <2>7, <5>1
      <4> QED
        BY <2>3, <4>1 DEF InHand
    <3>2. Queueing(e)' => Queueing(e)
      <4> SUFFICES ASSUME NEW n \in Members, NEW i \in 1..Len(queued'[n]), queued'[n][i] = e
                   PROVE  Queueing(e)
        BY DEF Queueing
      <4> QED
        BY <1>6, <2>7 DEF Queueing
    <3>3. Queueing(e) => Queueing(e)'
      <4> SUFFICES ASSUME NEW n \in Members, NEW i \in 1..Len(queued[n]), queued[n][i] = e
                   PROVE  Queueing(e)'
        BY DEF Queueing
      <4>1. CASE n # m
        BY <1>2, <4>1 DEF Queueing
      <4>2. CASE n = m
        <5>1. k = 1 => i # 1
          <6>1. k = 1 => Full(m)
            BY <1>1
          <6>2. Full(m) => e # queued[m][1]
            BY <1>2, <2>7
          <6> QED
            BY <4>2, <6>1, <6>2
        <5>2. i - k \in 1..(last - 1)
          <6>1. i \in 1..Len(queued[m]) /\ last = Len(queued[m]) - k + 1
            BY <1>1, <4>2 DEF last
          <6>2. CASE k = 0
            BY <1>1, <6>1, <6>2
          <6>3. CASE k = 1
            BY <1>1, <5>1, <6>1, <6>3
          <6> QED
            BY <1>1, <6>2, <6>3
        <5>3. i - k \in 1..Len(queued'[m]) /\ queued'[m][i - k] = e
          BY <1>1, <1>2, <4>2, <5>2
        <5> QED
          BY <5>3 DEF Queueing
      <4> QED
        BY <4>1, <4>2
    <3> QED
      BY <2>1, <2>7, <3>1, <3>2, <3>3
  <2> QED
    BY <2>4, <2>5, <2>6, <2>7
<1> QED
  BY <1>5, <1>8, <1>9, <1>10, <1>11 DEF IInv

(* An envelope that is accepted comes into a hand that was empty, and was  *)
(* not held before because it was not waiting.                             *)
LEMMA SendKeeps ==
    ASSUME IInv, TypeOK', NEW c \in Conns, NEW e \in Envelopes, Send(c, e)
    PROVE  IInv'
<1>1. UNCHANGED <<queued, stale>> /\ QueueBounded' /\ QueuesApart'
  BY DEF Send, IInv, QueueBounded, QueuesApart
<1>2. fate[e] = "unsent" /\ ~Queueing(e) /\ ~InHand(e)
  BY DEF Send, IInv, Tracked
<1>3. CASE status[AddressedTo[e]] # "active"
  <2>1. UNCHANGED hand /\ fate' = Settle({e}, "refused")
    BY <1>3 DEF Send, routing
  <2>2. HandsApart' /\ QueuesAndHandsApart'
    BY <1>1, <2>1 DEF IInv, HandsApart, QueuesAndHandsApart
  <2>3. Tracked'
    BY <1>1, <1>2, <2>1 DEF IInv, Tracked, Settle, Queueing, InHand
  <2> QED
    BY <1>1, <2>2, <2>3 DEF IInv
<1>4. CASE status[AddressedTo[e]] = "active"
  <2>1. /\ hand' = [hand EXCEPT ![c] = <<e>>] /\ fate' = Settle({e}, "waiting")
        /\ pc[c] = "serve"
    BY <1>4 DEF Send
  <2>2. /\ hand'[c] = <<e>> /\ Len(hand'[c]) = 1 /\ hand'[c][1] = e
        /\ \A d \in Conns \ {c} : hand'[d] = hand[d]
    BY <2>1 DEF IInv, TypeOK, Shapes
  <2>3. hand[c] = <<>>
    BY <2>1 DEF IInv, TypeOK, HandsFit
  <2>4. /\ \A d \in Conns : \A i \in 1..Len(hand[d]) : hand[d][i] # e
        /\ \A n \in Members : \A i \in 1..Len(queued[n]) : queued[n][i] # e
    BY <1>2 DEF Queueing, InHand
  <2>5. \A i \in 1..Len(hand'[c]) : i = 1
    BY <2>2
  <2>6. HandsApart'
    BY <2>2, <2>4, <2>5 DEF IInv, HandsApart
  <2>7. QueuesAndHandsApart'
    BY <1>1, <2>2, <2>4, <2>5 DEF IInv, QueuesAndHandsApart
  <2>8. Tracked'
    <3> SUFFICES ASSUME NEW f \in Envelopes
                 PROVE  fate'[f] = "waiting" <=> Queueing(f)' \/ InHand(f)'
      BY DEF Tracked
    <3>1. fate'[f] = IF f = e THEN "waiting" ELSE fate[f]
      BY <2>1 DEF Settle
    <3>2. Queueing(f)' <=> Queueing(f)
      BY <1>1 DEF Queueing
    <3>3. CASE f = e
      <4>1. 1 \in 1..Len(hand'[c])
        BY <2>2
      <4>2. InHand(f)'
        BY <2>2, <3>3, <4>1 DEF InHand
      <4> QED
        BY <3>1, <3>3, <4>2
    <3>4. CASE f # e
      <4>1. InHand(f)' <=> \E d \in Conns \ {c} : \E i \in 1..Len(hand[d]) : hand[d][i] = f
        BY <2>2, <2>5, <3>4 DEF InHand
      <4>2. InHand(f) <=> \E d \in Conns \ {c} : \E i \in 1..Len(hand[d]) : hand[d][i] = f
        BY <2>3 DEF InHand
      <4> QED
        BY <3>1, <3>2, <3>4, <4>1, <4>2 DEF IInv, Tracked
    <3> QED
      BY <3>3, <3>4
  <2> QED
    BY <1>1, <2>6, <2>7, <2>8 DEF IInv
<1> QED
  BY <1>3, <1>4

LEMMA InitPlaced == Init => IInv
<1> SUFFICES ASSUME Init PROVE IInv
  OBVIOUS
<1>1. TypeOK
  BY InitTyped
<1>2. \A m \in Members : queued[m] = <<>> /\ Len(queued[m]) = 0 /\ stale[m] = 0
  BY DEF Init
<1>3. \A c \in Conns : hand[c] = <<>> /\ Len(hand[c]) = 0
  BY DEF Init
<1>4. QueueBounded
  BY <1>2 DEF QueueBounded
<1>5. QueuesApart /\ HandsApart /\ QueuesAndHandsApart
  BY <1>2, <1>3 DEF QueuesApart, HandsApart, QueuesAndHandsApart
<1>6. Tracked
  BY <1>2, <1>3 DEF Init, Tracked, Queueing, InHand
<1> QED
  BY <1>1, <1>4, <1>5, <1>6 DEF IInv

LEMMA NextPlaced == IInv /\ [Next]_vars => IInv'
<1> SUFFICES ASSUME IInv, [Next]_vars PROVE IInv'
  OBVIOUS
<1>1. TypeOK'
  BY NextTyped DEF IInv
<1>2. ASSUME UNCHANGED <<queued, stale, hand, fate>> PROVE IInv'
  BY <1>1, <1>2, Untouched DEF IInv, QueueBounded
<1> USE DEF mail, routing
<1>3. ASSUME NEW m \in Members, Join(m) \/ Revoke(m) \/ Age(m) PROVE IInv'
  <2>1. CASE Join(m) \/ Revoke(m)
    BY <1>2, <2>1 DEF Join, Revoke
  <2>2. CASE Age(m)
    <3>1. UNCHANGED <<queued, hand, fate>>
      BY <2>2 DEF Age
    <3>2. QueueBounded'
      BY <2>2 DEF Age, IInv, TypeOK, Shapes, QueueBounded
    <3> QED
      BY <1>1, <3>1, <3>2, Untouched
  <2> QED
    BY <1>3, <2>1, <2>2
<1>4. ASSUME NEW c \in Conns,
             Leave(c) \/ Notice(c) \/ Hello(c) \/ Auth(c) \/ HandshakeFails(c) \/ Register(c)
      PROVE  IInv'
  BY <1>2, <1>4 DEF Leave, Notice, Hello, Auth, HandshakeFails, Register
<1>5. ASSUME NEW c \in Conns, TakeQueue(c) PROVE IInv'
  BY <1>1, <1>5, TakeQueueKeeps
<1>6. ASSUME NEW c \in Conns, FlushOne(c) PROVE IInv'
  <2>1. hand[c] # <<>>
    BY <1>6 DEF FlushOne, GoTo, IInv, TypeOK, HandsFit
  <2> QED
    BY <1>1, <1>6, <2>1, HandedOverKeeps DEF FlushOne
<1>7. ASSUME NEW c \in Conns, FlushFails(c) \/ ForwardFails(c) PROVE IInv'
  BY <1>2, <1>7 DEF FlushFails, ForwardFails
<1>8. ASSUME NEW c \in Conns, PutBack(c) PROVE IInv'
  <2>1. hand[c] # <<>> /\ MemberOf[c] \in Members
    BY <1>8 DEF PutBack, GoTo, IInv, TypeOK, HandsFit
  <2> QED
    BY <1>1, <1>8, <2>1, PutBackKeeps DEF PutBack
<1>9. ASSUME NEW c \in Conns, NEW e \in Envelopes, Send(c, e) PROVE IInv'
  BY <1>1, <1>9, SendKeeps
<1>10. ASSUME NEW c \in Conns, Forward(c) PROVE IInv'
  <2>1. hand[c] \in Seq(Envelopes) /\ Len(hand[c]) = 1
    BY <1>10 DEF Forward, GoTo, IInv, TypeOK, Shapes, HandsFit
  <2>2. hand[c] # <<>> /\ Tail(hand[c]) = <<>>
    BY <2>1, Single
  <2>3. hand' = [hand EXCEPT ![c] = Tail(hand[c])]
    BY <1>10, <2>2 DEF Forward
  <2>4. fate' = Settle({Head(hand[c])}, "handed") /\ UNCHANGED <<queued, stale>>
    BY <1>10 DEF Forward
  <2> QED
    BY <1>1, <2>2, <2>3, <2>4, HandedOverKeeps
<1>11. ASSUME NEW c \in Conns, EnqueueOne(c) PROVE IInv'
  <2>1. hand[c] \in Seq(Envelopes) /\ Len(hand[c]) = 1
    BY <1>11 DEF EnqueueOne, GoTo, IInv, TypeOK, Shapes, HandsFit
  <2>2. hand[c] # <<>> /\ Tail(hand[c]) = <<>> /\ AddressedTo[Head(hand[c])] \in Members
    BY <2>1, Single
  <2>3. Range(Tail(hand[c])) = {}
    BY <2>2 DEF Range
  <2> DEFINE m == AddressedTo[Head(hand[c])]
  <2>4. fate' = [e \in Envelopes |->
                   IF e \in Evicted(m) THEN "evicted"
                   ELSE IF e \in Range(Tail(hand[c])) THEN "abandoned"
                   ELSE fate[e]]
    BY <1>11, <2>3 DEF EnqueueOne, Settle
  <2> QED
    BY <1>1, <1>11, <2>2, <2>4, PutBackKeeps DEF EnqueueOne
<1>12. ASSUME NEW c \in Conns, NEW S \in SUBSET Sessions, Publish(c, S) PROVE IInv'
  BY <1>2, <1>12 DEF Publish
<1>13. ASSUME NEW c \in Conns, Gather(c) \/ BuildRoster(c) \/ WriteRoster(c) PROVE IInv'
  BY <1>2, <1>13 DEF Gather, BuildRoster, WriteRoster
<1>14. ASSUME NEW c \in Conns, ReadFails(c) \/ Unregister(c) \/ DropSessions(c) PROVE IInv'
  BY <1>2, <1>14 DEF ReadFails, Unregister, DropSessions
<1>15. CASE UNCHANGED vars
  BY <1>2, <1>15 DEF vars
<1> QED
  BY <1>3, <1>4, <1>5, <1>6, <1>7, <1>8, <1>9, <1>10, <1>11, <1>12, <1>13,
     <1>14, <1>15 DEF Next, Goroutine

THEOREM RelayPlaced == Spec => []IInv
BY InitPlaced, NextPlaced, PTL DEF Spec

(* enqueue keeps every queue within queueLimit, even when a failed flush   *)
(* puts an envelope back into a queue others have been filling.            *)
THEOREM RelayBounded == Spec => []QueueBounded
<1>1. IInv => QueueBounded
  BY DEF IInv
<1> QED
  BY <1>1, RelayPlaced, PTL

(* No interleaving of flushes, forwards and connections replacing one      *)
(* another leaves an envelope in two places.                               *)
THEOREM RelayOneCopy == Spec => []OneCopy
BY RelayPlaced, IInvImplies, PTL

(* What the relay holds is exactly what it accepted and has neither handed *)
(* over nor given up for one of the reasons the code has.                  *)
THEOREM RelayAccounted == Spec => []Accounted
BY RelayPlaced, IInvImplies, PTL

-----------------------------------------------------------------------------
(* The relay implements a mailbox.  Once Accounted is known, all three     *)
(* sets of the abstract mailbox are functions of fate, so it is enough to  *)
(* look at what each action does to the fates.                             *)

(* What may become of an envelope in a step that changes fates.            *)
Accepts(e) == fate[e] = "unsent" /\ fate' = Settle({e}, "waiting")
Hands(e) == fate[e] = "waiting" /\ fate' = Settle({e}, "handed")
GivesUp ==
    \A e \in Envelopes :
        \/ fate'[e] = fate[e]
        \/ fate[e] = "waiting" /\ fate'[e] \in {"evicted", "expired", "abandoned"}
Refuses ==
    \E e \in Envelopes : fate[e] = "unsent" /\ fate' = Settle({e}, "refused")
FatesMove == (\E e \in Envelopes : Accepts(e) \/ Hands(e)) \/ GivesUp \/ Refuses

LEMMA WaitingElements ==
    ASSUME IInv
    PROVE  /\ \A m \in Members : \A i \in 1..Len(queued[m]) : fate[queued[m][i]] = "waiting"
           /\ \A c \in Conns : \A i \in 1..Len(hand[c]) : fate[hand[c][i]] = "waiting"
<1>1. \A m \in Members : queued[m] \in Seq(Envelopes)
  BY DEF IInv, TypeOK, Shapes
<1>2. \A c \in Conns : hand[c] \in Seq(Envelopes)
  BY DEF IInv, TypeOK, Shapes
<1>3. ASSUME NEW m \in Members, NEW i \in 1..Len(queued[m])
      PROVE  fate[queued[m][i]] = "waiting"
  BY <1>1 DEF IInv, Tracked, Queueing
<1>4. ASSUME NEW c \in Conns, NEW i \in 1..Len(hand[c])
      PROVE  fate[hand[c][i]] = "waiting"
  BY <1>2 DEF IInv, Tracked, InHand
<1> QED
  BY <1>3, <1>4

LEMMA HandHead ==
    ASSUME IInv, NEW c \in Conns, pc[c] \in {"flush", "putBack", "write", "enqueue"}
    PROVE  /\ hand[c] # <<>>
           /\ Head(hand[c]) \in Envelopes /\ fate[Head(hand[c])] = "waiting"
           /\ \A e \in Range(Tail(hand[c])) : fate[e] = "waiting"
<1>1. hand[c] \in Seq(Envelopes) /\ hand[c] # <<>>
  BY DEF IInv, TypeOK, Shapes, HandsFit
<1>2. /\ Len(hand[c]) >= 1 /\ Head(hand[c]) = hand[c][1]
      /\ Len(Tail(hand[c])) = Len(hand[c]) - 1
      /\ DOMAIN Tail(hand[c]) = 1..(Len(hand[c]) - 1)
      /\ \A i \in 1..(Len(hand[c]) - 1) :
           i + 1 \in 1..Len(hand[c]) /\ Tail(hand[c])[i] = hand[c][i + 1]
  BY <1>1
<1>3. \A i \in 1..Len(hand[c]) : fate[hand[c][i]] = "waiting" /\ hand[c][i] \in Envelopes
  BY <1>1, WaitingElements
<1>4. 1 \in 1..Len(hand[c])
  BY <1>2
<1> QED
  BY <1>1, <1>2, <1>3, <1>4 DEF Range

LEMMA EvictedWaits ==
    ASSUME IInv, NEW m \in Members
    PROVE  \A e \in Evicted(m) : fate[e] = "waiting"
<1>1. queued[m] \in Seq(Envelopes) /\ QueueLimit \in Nat \ {0}
  BY RelayAssumption DEF IInv, TypeOK, Shapes
<1>2. CASE Full(m)
  <2>1. Len(queued[m]) >= 1 /\ 1 \in 1..Len(queued[m]) /\ Head(queued[m]) = queued[m][1]
    BY <1>1, <1>2 DEF Full
  <2>2. fate[Head(queued[m])] = "waiting"
    BY <2>1, WaitingElements
  <2> QED
    BY <1>2, <2>2 DEF Evicted
<1>3. CASE ~Full(m)
  BY <1>3 DEF Evicted
<1> QED
  BY <1>2, <1>3

(* Every step of the relay accepts one envelope, hands one over, gives     *)
(* some up or leaves the fates of those it has accepted alone.             *)
LEMMA StepFates ==
    ASSUME IInv, [Next]_vars
    PROVE  FatesMove
<1> USE DEF mail
<1>1. ASSUME UNCHANGED fate PROVE FatesMove
  BY <1>1 DEF GivesUp, FatesMove
<1>2. ASSUME NEW m \in Members, Join(m) \/ Revoke(m) \/ Age(m) PROVE FatesMove
  BY <1>1, <1>2 DEF Join, Revoke, Age
<1>3. ASSUME NEW c \in Conns,
             \/ Leave(c) \/ Notice(c) \/ Hello(c) \/ Auth(c) \/ HandshakeFails(c)
             \/ Register(c) \/ FlushFails(c) \/ ForwardFails(c)
             \/ Gather(c) \/ BuildRoster(c) \/ WriteRoster(c)
             \/ ReadFails(c) \/ Unregister(c) \/ DropSessions(c)
      PROVE  FatesMove
  BY <1>1, <1>3 DEF Leave, Notice, Hello, Auth, HandshakeFails, Register, FlushFails,
       ForwardFails, Gather, BuildRoster, WriteRoster, ReadFails, Unregister, DropSessions
<1>4. ASSUME NEW c \in Conns, NEW S \in SUBSET Sessions, Publish(c, S) PROVE FatesMove
  BY <1>1, <1>4 DEF Publish
<1>5. ASSUME NEW c \in Conns, TakeQueue(c) PROVE FatesMove
  <2> DEFINE m == MemberOf[c]
             S == {queued[m][i] : i \in 1..stale[m]}
  <2>1. m \in Members /\ stale[m] \in Nat /\ Len(queued[m]) \in Nat /\ stale[m] <= Len(queued[m])
    BY RelayAssumption DEF IInv, TypeOK, Shapes, QueueBounded
  <2>2. \A e \in S : fate[e] = "waiting"
    <3>1. \A i \in 1..stale[m] : i \in 1..Len(queued[m])
      BY <2>1
    <3> QED
      BY <2>1, <3>1, WaitingElements
  <2>3. fate' = Settle(S, "expired")
    BY <1>5 DEF TakeQueue
  <2> HIDE DEF S, m
  <2> QED
    BY <2>2, <2>3 DEF Settle, GivesUp, FatesMove
<1>6. ASSUME NEW c \in Conns, FlushOne(c) \/ Forward(c) PROVE FatesMove
  <2>1. pc[c] \in {"flush", "write"} /\ fate' = Settle({Head(hand[c])}, "handed")
    BY <1>6 DEF FlushOne, Forward, GoTo
  <2> QED
    BY <2>1, HandHead DEF Hands, FatesMove
<1>7. ASSUME NEW c \in Conns, PutBack(c) PROVE FatesMove
  <2>1. MemberOf[c] \in Members /\ pc[c] = "putBack"
    BY <1>7, RelayAssumption DEF PutBack, GoTo
  <2>2. \A e \in Evicted(MemberOf[c]) \cup Range(Tail(hand[c])) : fate[e] = "waiting"
    BY <2>1, HandHead, EvictedWaits
  <2> QED
    BY <1>7, <2>2 DEF PutBack, GivesUp, FatesMove
<1>8. ASSUME NEW c \in Conns, EnqueueOne(c) PROVE FatesMove
  <2> DEFINE m == AddressedTo[Head(hand[c])]
  <2>1. m \in Members
    BY <1>8, HandHead, RelayAssumption DEF EnqueueOne, GoTo
  <2>2. fate' = Settle(Evicted(m), "evicted")
    BY <1>8 DEF EnqueueOne
  <2> HIDE DEF m
  <2> QED
    BY <2>1, <2>2, EvictedWaits DEF Settle, GivesUp, FatesMove
<1>9. ASSUME NEW c \in Conns, NEW e \in Envelopes, Send(c, e)
      PROVE  FatesMove
  BY <1>9 DEF Send, Accepts, Refuses, FatesMove
<1>10. CASE UNCHANGED vars
  BY <1>1, <1>10 DEF vars
<1> QED
  BY <1>2, <1>3, <1>4, <1>5, <1>6, <1>7, <1>8, <1>9, <1>10,
     RelayAssumption DEF Next, Goroutine

(* The same, said of the abstract mailbox.                                 *)
LEMMA StepPromise ==
    ASSUME IInv, IInv', [Next]_vars
    PROVE  [Promise!Next]_(Promise!mailbox)
<1> DEFINE waiting == {e \in Envelopes : fate[e] = "waiting"}
           handed == {e \in Envelopes : fate[e] = "handed"}
           lost == {e \in Envelopes : fate[e] \in {"evicted", "expired", "abandoned"}}
<1>1. Held = waiting /\ Held' = waiting'
  <2>1. Accounted /\ Accounted'
    BY IInvImplies, PTL
  <2> QED
    BY <2>1 DEF Accounted, Ended
<1>2. /\ Ended({"handed"}) = handed /\ Ended({"handed"})' = handed'
      /\ Lost = lost /\ Lost' = lost'
  BY DEF Ended, Lost
<1>3. fate \in [Envelopes -> Fates] /\ fate' \in [Envelopes -> Fates]
  BY DEF IInv, TypeOK, Shapes
<1> SUFFICES \/ \E e \in Envelopes : Promise!Accept(e) \/ Promise!Hand(e)
             \/ \E S \in SUBSET Held : Promise!GiveUp(S)
             \/ UNCHANGED Promise!mailbox
  BY DEF Promise!Next
<1>4. ASSUME NEW e \in Envelopes, Accepts(e) PROVE Promise!Accept(e)
  <2>1. /\ e \notin waiting \cup handed \cup lost
        /\ waiting' = waiting \cup {e} /\ handed' = handed /\ lost' = lost
    BY <1>3, <1>4 DEF Accepts, Settle
  <2> QED
    BY <1>1, <1>2, <2>1 DEF Promise!Accept
<1>5. ASSUME NEW e \in Envelopes, Hands(e) PROVE Promise!Hand(e)
  <2>1. /\ e \in waiting
        /\ waiting' = waiting \ {e} /\ handed' = handed \cup {e} /\ lost' = lost
    BY <1>3, <1>5 DEF Hands, Settle
  <2> QED
    BY <1>1, <1>2, <2>1 DEF Promise!Hand
<1>6. ASSUME GivesUp PROVE \E S \in SUBSET Held : Promise!GiveUp(S)
  <2> DEFINE S == waiting \ waiting'
  <2>1. /\ S \subseteq waiting
        /\ waiting' = waiting \ S /\ handed' = handed /\ lost' = lost \cup S
    BY <1>3, <1>6 DEF GivesUp
  <2> HIDE DEF S
  <2>2. Promise!GiveUp(S)
    BY <1>1, <1>2, <2>1 DEF Promise!GiveUp
  <2> QED
    BY <1>1, <2>1, <2>2
<1>7. ASSUME Refuses PROVE UNCHANGED Promise!mailbox
  <2>1. waiting' = waiting /\ handed' = handed /\ lost' = lost
    BY <1>3, <1>7 DEF Refuses, Settle
  <2> QED
    BY <1>1, <1>2, <2>1 DEF Promise!mailbox
<1> QED
  BY <1>4, <1>5, <1>6, <1>7, StepFates DEF FatesMove

LEMMA InitPromise == Init => Promise!Init
<1> SUFFICES ASSUME Init PROVE Promise!Init
  OBVIOUS
<1>1. Held = Ended({"waiting"})
  BY InitPlaced, IInvImplies DEF Accounted
<1> QED
  BY <1>1 DEF Init, Ended, Lost, Promise!Init

(* The relay implements a mailbox: whatever goroutines do in whatever      *)
(* order, an accepted envelope is held until it is handed over, once, or   *)
(* given up, and then never handed over.                                   *)
THEOREM RelayMailbox == Spec => Mailbox
<1>1. Init => Promise!Init
  BY InitPromise
<1>2. IInv /\ IInv' /\ [Next]_vars => [Promise!Next]_(Promise!mailbox)
  BY StepPromise
<1> QED
  BY <1>1, <1>2, RelayPlaced, PTL DEF Mailbox, Spec, Promise!Spec

-----------------------------------------------------------------------------
(* Who is registered.  That the map is exact rests on a connection being   *)
(* used once and on a connector having one socket at a time: the goroutine *)
(* that is past its read loop has a closed socket, and of two connections  *)
(* of one member the registered one is the one whose socket is open.       *)

Ending == {"unregister", "drop", "gatherFarewell", "farewell", "done"}

UsedOnce == \A c \in Conns : pc[c] = "idle" <=> link[c] = "unused"
EndedIsDown == \A c \in Conns : pc[c] \in Ending => link[c] = "down"
OneSocket ==
    \A c, d \in Conns :
        MemberOf[c] = MemberOf[d] /\ link[c] = "up" /\ link[d] = "up" => c = d

OnlineInv == TypeOK /\ UsedOnce /\ EndedIsDown /\ OneSocket /\ OnlineExact

LEMMA InitOnline == Init => OnlineInv
BY InitTyped DEF Init, OnlineInv, UsedOnce, EndedIsDown, OneSocket, OnlineExact, Ending, Registered

LEMMA NextOnline == OnlineInv /\ [Next]_vars => OnlineInv'
<1> SUFFICES ASSUME OnlineInv, [Next]_vars PROVE OnlineInv'
  OBVIOUS
<1>1. TypeOK'
  BY NextTyped DEF OnlineInv
<1> USE RelayAssumption DEF UsedOnce, EndedIsDown, OneSocket, OnlineExact, Ending, Registered, GoTo
(* A goroutine that stays registered, or stays on its way out.             *)
<1>2. ASSUME UNCHANGED <<online, link>>, NEW c \in Conns,
             NEW t, pc' = [pc EXCEPT ![c] = t], t # "idle", pc[c] # "idle",
             t \in Registered <=> pc[c] \in Registered,
             t \in Ending => pc[c] \in Ending \/ link[c] = "down"
      PROVE  OnlineInv'
  <2>1. \A d \in Conns : pc'[d] = IF d = c THEN t ELSE pc[d]
    BY <1>2 DEF OnlineInv, TypeOK, Shapes
  <2>2. UsedOnce'
    BY <1>2, <2>1 DEF OnlineInv
  <2>3. EndedIsDown' /\ OneSocket'
    BY <1>2, <2>1 DEF OnlineInv
  <2>4. \A d \in Conns : pc'[d] \in Registered <=> pc[d] \in Registered
    BY <1>2, <2>1
  <2>5. OnlineExact'
    <3>1. \A d \in Conns : link'[d] = "up" /\ pc'[d] \in Registered => online'[MemberOf[d]] = d
      BY <1>2, <2>4 DEF OnlineInv
    <3>2. ASSUME NEW m \in Members, online'[m] # None
          PROVE  MemberOf[online'[m]] = m /\ pc'[online'[m]] \in Registered
      <4>1. online[m] \in Conns
        BY <1>2, <3>2 DEF OnlineInv, TypeOK, Shapes
      <4> QED
        BY <1>2, <2>4, <3>2, <4>1 DEF OnlineInv
    <3> QED
      BY <3>1, <3>2
  <2> QED
    BY <1>1, <2>2, <2>3, <2>5 DEF OnlineInv
<1>3. ASSUME UNCHANGED <<online, link, pc>> PROVE OnlineInv'
  BY <1>1, <1>3 DEF OnlineInv
<1>4. ASSUME NEW m \in Members, Join(m) \/ Revoke(m) \/ Age(m) PROVE OnlineInv'
  BY <1>3, <1>4 DEF Join, Revoke, Age
<1>5. ASSUME NEW c \in Conns, Leave(c) \/ Notice(c) PROVE OnlineInv'
  <2>1. PICK l \in {"halfopen", "down"} : link' = [link EXCEPT ![c] = l]
    BY <1>5 DEF Leave, Notice
  <2>2. link[c] \in {"up", "halfopen"} /\ link[c] # l /\ UNCHANGED <<online, pc>>
    BY <1>5, <2>1 DEF Leave, Notice, OnlineInv, TypeOK, Shapes
  <2>3. \A d \in Conns : link'[d] = IF d = c THEN l ELSE link[d]
    BY <2>1 DEF OnlineInv, TypeOK, Shapes
  <2>4. UsedOnce' /\ EndedIsDown'
    BY <2>2, <2>3 DEF OnlineInv
  <2>5. OneSocket' /\ OnlineExact'
    BY <2>2, <2>3 DEF OnlineInv
  <2> QED
    BY <1>1, <2>4, <2>5 DEF OnlineInv
<1>6. ASSUME NEW c \in Conns, Hello(c) PROVE OnlineInv'
  <2>1. /\ pc[c] = "idle" /\ online' = online
        /\ \A d \in Conns : MemberOf[d] = MemberOf[c] => link[d] # "up"
        /\ \A d \in Conns : /\ pc'[d] = IF d = c THEN "auth" ELSE pc[d]
                            /\ link'[d] = IF d = c THEN "up" ELSE link[d]
    BY <1>6 DEF Hello, OnlineInv, TypeOK, Shapes
  <2>2. UsedOnce' /\ EndedIsDown' /\ OneSocket'
    BY <2>1 DEF OnlineInv
  <2>3. \A m \in Members : online[m] # None => online[m] \in Conns \ {c}
    <3>1. ASSUME NEW m \in Members, online[m] # None PROVE online[m] \in Conns
      BY <3>1 DEF OnlineInv, TypeOK, Shapes
    <3>2. ASSUME NEW m \in Members, online[m] # None PROVE online[m] # c
      BY <2>1, <3>2 DEF OnlineInv
    <3> QED
      BY <3>1, <3>2
  <2>4. OnlineExact'
    BY <2>1, <2>3 DEF OnlineInv
  <2> QED
    BY <1>1, <2>2, <2>4 DEF OnlineInv
<1>7. ASSUME NEW c \in Conns, Auth(c) PROVE OnlineInv'
  BY <1>2, <1>7 DEF Auth
<1>8. ASSUME NEW c \in Conns, HandshakeFails(c) PROVE OnlineInv'
  <2>1. /\ pc[c] = "auth" /\ online' = online
        /\ \A d \in Conns : /\ pc'[d] = IF d = c THEN "done" ELSE pc[d]
                            /\ link'[d] = IF d = c THEN "down" ELSE link[d]
    BY <1>8 DEF HandshakeFails, OnlineInv, TypeOK, Shapes
  <2>2. UsedOnce' /\ EndedIsDown' /\ OneSocket'
    BY <2>1 DEF OnlineInv
  <2>3. \A m \in Members : online[m] # None => online[m] \in Conns \ {c}
    <3>1. ASSUME NEW m \in Members, online[m] # None PROVE online[m] \in Conns
      BY <3>1 DEF OnlineInv, TypeOK, Shapes
    <3>2. ASSUME NEW m \in Members, online[m] # None PROVE online[m] # c
      BY <2>1, <3>2 DEF OnlineInv
    <3> QED
      BY <3>1, <3>2
  <2>4. OnlineExact'
    BY <2>1, <2>3 DEF OnlineInv
  <2> QED
    BY <1>1, <2>2, <2>4 DEF OnlineInv
<1>9. ASSUME NEW c \in Conns, Register(c) PROVE OnlineInv'
  <2> DEFINE old == online[MemberOf[c]]
  <2>1. /\ pc[c] = "register" /\ pc' = [pc EXCEPT ![c] = "greet"]
        /\ online' = [online EXCEPT ![MemberOf[c]] = c]
        /\ \A d \in Conns : link'[d] = IF d = old THEN "down" ELSE link[d]
    BY <1>9 DEF Register
  <2>2. MemberOf[c] \in Members /\ old # c
    BY <2>1 DEF OnlineInv
  <2>3. old \in Conns => MemberOf[old] = MemberOf[c] /\ pc[old] \in Registered
    BY <2>2 DEF OnlineInv
  <2> HIDE DEF old
  <2>4. UsedOnce' /\ EndedIsDown' /\ OneSocket'
    <3>1. \A d \in Conns : pc'[d] = IF d = c THEN "greet" ELSE pc[d]
      BY <2>1 DEF OnlineInv, TypeOK, Shapes
    <3>2. \A d \in Conns : d = old => pc[d] # "idle"
      BY <2>3
    <3>3. UsedOnce'
      BY <2>1, <3>1, <3>2 DEF OnlineInv
    <3>4. EndedIsDown' /\ OneSocket'
      BY <2>1, <3>1 DEF OnlineInv
    <3> QED
      BY <3>3, <3>4
  <2>5. ASSUME NEW d \in Conns, link'[d] = "up", pc'[d] \in Registered
        PROVE  online'[MemberOf[d]] = d
    <3>1. CASE d = c
      BY <2>1, <2>2, <3>1 DEF OnlineInv, TypeOK, Shapes
    <3>2. CASE d # c
      <4>1. link[d] = "up" /\ pc[d] \in Registered /\ d # old
        BY <2>1, <2>5, <3>2 DEF OnlineInv, TypeOK, Shapes
      <4>2. online[MemberOf[d]] = d /\ MemberOf[d] \in Members
        BY <4>1 DEF OnlineInv
      <4>3. MemberOf[d] # MemberOf[c]
        BY <4>1, <4>2 DEF old
      <4> QED
        BY <2>1, <4>2, <4>3 DEF OnlineInv, TypeOK, Shapes
    <3> QED
      BY <3>1, <3>2
  <2>6. ASSUME NEW m \in Members, online'[m] # None
        PROVE  MemberOf[online'[m]] = m /\ pc'[online'[m]] \in Registered
    BY <2>1, <2>2, <2>6 DEF OnlineInv, TypeOK, Shapes
  <2> QED
    BY <1>1, <2>4, <2>5, <2>6 DEF OnlineInv
<1>10. ASSUME NEW c \in Conns, TakeQueue(c) PROVE OnlineInv'
  BY <1>2, <1>10 DEF TakeQueue
<1>11. ASSUME NEW c \in Conns, FlushOne(c) PROVE OnlineInv'
  BY <1>2, <1>11 DEF FlushOne
<1>12. ASSUME NEW c \in Conns, FlushFails(c) \/ PutBack(c) PROVE OnlineInv'
  BY <1>2, <1>12 DEF FlushFails, PutBack
<1>13. ASSUME NEW c \in Conns, NEW e \in Envelopes, Send(c, e) PROVE OnlineInv'
  <2>1. CASE UNCHANGED <<online, link, pc>>
    BY <1>3, <2>1
  <2>2. CASE pc' # pc
    BY <1>2, <1>13, <2>2 DEF Send
  <2> QED
    BY <1>13, <2>1, <2>2 DEF Send
<1>14. ASSUME NEW c \in Conns, Forward(c) \/ ForwardFails(c) \/ EnqueueOne(c) PROVE OnlineInv'
  BY <1>2, <1>14 DEF Forward, ForwardFails, EnqueueOne
<1>15. ASSUME NEW c \in Conns, NEW S \in SUBSET Sessions, Publish(c, S) PROVE OnlineInv'
  BY <1>2, <1>15 DEF Publish
<1>16. ASSUME NEW c \in Conns, Gather(c) PROVE OnlineInv'
  <2>1. /\ \/ pc[c] = "gatherTell" /\ pc'[c] \in {"tell", "serve"}
           \/ pc[c] = "gatherFarewell" /\ pc'[c] \in {"farewell", "done"}
        /\ pc' = [pc EXCEPT ![c] = pc'[c]]
        /\ UNCHANGED <<online, link>>
    <3>1. CASE pc[c] = "gatherTell"
      BY <1>16, <3>1 DEF Gather, AfterGather, AfterRosters, OnlineInv, TypeOK, Shapes
    <3>2. CASE pc[c] = "gatherFarewell"
      BY <1>16, <3>2 DEF Gather, AfterGather, AfterRosters, OnlineInv, TypeOK, Shapes
    <3> QED
      BY <1>16, <3>1, <3>2 DEF Gather, AfterGather
  <2> QED
    BY <1>2, <2>1
<1>17. ASSUME NEW c \in Conns, BuildRoster(c) PROVE OnlineInv'
  BY <1>3, <1>17 DEF BuildRoster
<1>18. ASSUME NEW c \in Conns, WriteRoster(c) PROVE OnlineInv'
  <2>1. /\ \/ pc[c] \in {"greet", "tell"} /\ pc'[c] \in {"greet", "tell", "take", "serve"}
           \/ pc[c] = "farewell" /\ pc'[c] \in {"farewell", "done"}
        /\ pc' = [pc EXCEPT ![c] = pc'[c]]
        /\ UNCHANGED <<online, link>>
    BY <1>18 DEF WriteRoster, RosterStages, AfterRosters, OnlineInv, TypeOK, Shapes
  <2> QED
    BY <1>2, <2>1
<1>19. ASSUME NEW c \in Conns, ReadFails(c) PROVE OnlineInv'
  <2>1. link[c] = "down"
    BY <1>19 DEF ReadFails, Writable, OnlineInv, TypeOK, Shapes, Links
  <2> QED
    BY <1>1, <1>19, <2>1 DEF ReadFails, OnlineInv, TypeOK, Shapes
<1>20. ASSUME NEW c \in Conns, Unregister(c) PROVE OnlineInv'
  <2>1. /\ pc[c] = "unregister" /\ link' = link
        /\ \A d \in Conns : pc'[d] = IF d = c THEN "drop" ELSE pc[d]
        /\ \A m \in Members : online'[m] = IF m = MemberOf[c] /\ online[m] = c
                                          THEN None ELSE online[m]
    BY <1>20 DEF Unregister, OnlineInv, TypeOK, Shapes
  <2>2. link[c] = "down"
    BY <2>1, <1>20 DEF OnlineInv
  <2>3. UsedOnce' /\ EndedIsDown' /\ OneSocket'
    BY <2>1, <2>2 DEF OnlineInv
  <2>4. ASSUME NEW d \in Conns, link'[d] = "up", pc'[d] \in Registered
        PROVE  online'[MemberOf[d]] = d
    BY <2>1, <2>2, <2>4 DEF OnlineInv
  <2>5. ASSUME NEW m \in Members, online'[m] # None
        PROVE  MemberOf[online'[m]] = m /\ pc'[online'[m]] \in Registered
    <3>1. online'[m] = online[m] /\ online[m] # c
      BY <2>1, <2>5 DEF OnlineInv
    <3> QED
      BY <2>1, <2>5, <3>1 DEF OnlineInv, TypeOK, Shapes
  <2> QED
    BY <1>1, <2>3, <2>4, <2>5 DEF OnlineInv
<1>21. ASSUME NEW c \in Conns, DropSessions(c) PROVE OnlineInv'
  BY <1>2, <1>21 DEF DropSessions
<1>22. CASE UNCHANGED vars
  BY <1>3, <1>22 DEF vars
<1> HIDE DEF UsedOnce, EndedIsDown, OneSocket, OnlineExact, Ending, Registered, GoTo
<1> QED
  BY <1>4, <1>5, <1>6, <1>7, <1>8, <1>9, <1>10, <1>11, <1>12, <1>13, <1>14, <1>15,
     <1>16, <1>17, <1>18, <1>19, <1>20, <1>21, <1>22 DEF Next, Goroutine

(* The map of connections is exact: the connection that replaced another   *)
(* one stays in it when the old one unregisters late, and it never names a *)
(* connection whose goroutine has left.                                    *)
THEOREM RelayOnline == Spec => []OnlineExact
<1>1. Spec => []OnlineInv
  BY InitOnline, NextOnline, PTL DEF Spec
<1>2. OnlineInv => OnlineExact
  BY DEF OnlineInv
<1> QED
  BY <1>1, <1>2, PTL

-----------------------------------------------------------------------------
(* For whom envelopes are.                                                 *)

QueuesRight == \A m \in Members : \A i \in 1..Len(queued[m]) : AddressedTo[queued[m][i]] = m
FlushRight ==
    \A c \in Conns : pc[c] \in {"flush", "putBack"} =>
        \A i \in 1..Len(hand[c]) : AddressedTo[hand[c][i]] = MemberOf[c]
TargetRight ==
    \A c \in Conns : target[c] # None => MemberOf[target[c]] = AddressedTo[Head(hand[c])]

LEMMA RightParts ==
    ASSUME TypeOK
    PROVE  RightRecipient <=> QueuesRight /\ FlushRight /\ TargetRight
<1>1. \A m \in Members : queued[m] \in Seq(Envelopes) /\ DOMAIN queued[m] = 1..Len(queued[m])
  BY DEF TypeOK, Shapes
<1>2. \A c \in Conns : hand[c] \in Seq(Envelopes) /\ DOMAIN hand[c] = 1..Len(hand[c])
  BY DEF TypeOK, Shapes
<1>3. (\A m \in Members : \A e \in Range(queued[m]) : AddressedTo[e] = m) <=> QueuesRight
  BY <1>1 DEF Range, QueuesRight
<1>4. (\A c \in Conns : pc[c] \in {"flush", "putBack"} =>
          \A e \in Range(hand[c]) : AddressedTo[e] = MemberOf[c]) <=> FlushRight
  BY <1>2 DEF Range, FlushRight
<1> QED
  BY <1>3, <1>4 DEF RightRecipient, TargetRight

LEMMA EnqueueRight ==
    ASSUME TypeOK, QueuesRight, NEW m \in Members, NEW e \in Envelopes,
           Enqueue(m, e), AddressedTo[e] = m
    PROVE  QueuesRight'
<1> DEFINE d == Dropped(m)
           n == Len(queued[m]) - d
<1>1. /\ n \in Nat /\ d \in {0, 1} /\ Len(queued[m]) = n + d
      /\ Len(queued'[m]) = n + 1 /\ queued'[m][n + 1] = e
      /\ \A i \in 1..n : queued'[m][i] = queued[m][i + d]
      /\ \A k \in Members \ {m} : queued'[k] = queued[k]
  <2>1. Len(queued[m]) \in Nat /\ Dropped(m) \in {0, 1}
    BY DEF TypeOK, Shapes, Dropped
  <2> QED
    BY <2>1, EnqueueElements
<1> HIDE DEF d, n
<1>2. ASSUME NEW i \in 1..Len(queued'[m]) PROVE AddressedTo[queued'[m][i]] = m
  <2>1. CASE i = n + 1
    BY <1>1, <2>1
  <2>2. CASE i # n + 1
    <3>1. i \in 1..n /\ i + d \in 1..Len(queued[m])
      BY <1>1, <2>2
    <3>2. queued'[m][i] = queued[m][i + d]
      BY <1>1, <3>1
    <3>3. AddressedTo[queued[m][i + d]] = m
      BY <3>1 DEF QueuesRight
    <3> QED
      BY <3>2, <3>3
  <2> QED
    BY <2>1, <2>2
<1>3. ASSUME NEW k \in Members \ {m}, NEW i \in 1..Len(queued'[k])
      PROVE  AddressedTo[queued'[k][i]] = k
  BY <1>1 DEF QueuesRight
<1> QED
  BY <1>2, <1>3 DEF QueuesRight

RightInv == TypeOK /\ QueueBounded /\ OnlineExact /\ QueuesRight /\ FlushRight /\ TargetRight

LEMMA InitRight == Init => QueuesRight /\ FlushRight /\ TargetRight
BY DEF Init, QueuesRight, FlushRight, TargetRight

LEMMA NextRight ==
    ASSUME RightInv, TypeOK', [Next]_vars
    PROVE  QueuesRight' /\ FlushRight' /\ TargetRight'
<1> DEFINE Right == QueuesRight /\ FlushRight /\ TargetRight
<1> SUFFICES Right'
  OBVIOUS
<1> USE RelayAssumption DEF GoTo, mail, routing
<1>1. /\ pc \in [Conns -> Stages] /\ hand \in [Conns -> Seq(Envelopes)]
      /\ target \in [Conns -> Conns \cup {None}] /\ queued \in [Members -> Seq(Envelopes)]
      /\ online \in [Members -> Conns \cup {None}]
  BY DEF RightInv, TypeOK, Shapes
(* A goroutine moves on without touching envelopes.                        *)
<1>2. ASSUME UNCHANGED <<queued, hand, target>>, NEW c \in Conns, NEW t,
             pc' = [pc EXCEPT ![c] = t],
             t \in {"flush", "putBack"} => pc[c] \in {"flush", "putBack"}
      PROVE  Right'
  BY <1>1, <1>2 DEF RightInv, QueuesRight, FlushRight, TargetRight
<1>3. ASSUME UNCHANGED <<queued, hand, target, pc>> PROVE Right'
  BY <1>3 DEF RightInv, QueuesRight, FlushRight, TargetRight
<1>4. ASSUME NEW m \in Members, Join(m) \/ Revoke(m) \/ Age(m) PROVE Right'
  BY <1>3, <1>4 DEF Join, Revoke, Age
<1>5. ASSUME NEW c \in Conns, Leave(c) \/ Notice(c) \/ BuildRoster(c) PROVE Right'
  BY <1>3, <1>5 DEF Leave, Notice, BuildRoster
<1>6. ASSUME NEW c \in Conns,
             \/ Hello(c) \/ Auth(c) \/ HandshakeFails(c) \/ Register(c)
             \/ FlushFails(c) \/ ReadFails(c) \/ Unregister(c) \/ DropSessions(c)
      PROVE  Right'
  BY <1>2, <1>6 DEF Hello, Auth, HandshakeFails, Register, FlushFails, ReadFails,
       Unregister, DropSessions
<1>7. ASSUME NEW c \in Conns, NEW S \in SUBSET Sessions, Publish(c, S) PROVE Right'
  BY <1>2, <1>7 DEF Publish
<1>8. ASSUME NEW c \in Conns, Gather(c) \/ WriteRoster(c) PROVE Right'
  <2>1. pc'[c] \notin {"flush", "putBack"}
    <3>1. CASE Gather(c)
      <4>1. pc[c] \in {"gatherTell", "gatherFarewell"}
        BY <3>1 DEF Gather, AfterGather
      <4>2. AfterGather[pc[c]] \in {"tell", "farewell"}
        BY <4>1 DEF AfterGather
      <4>3. AfterRosters[AfterGather[pc[c]]] \in {"serve", "done"}
        BY <4>2 DEF AfterRosters
      <4>4. pc'[c] \in {AfterGather[pc[c]], AfterRosters[AfterGather[pc[c]]]}
        BY <1>1, <3>1 DEF Gather
      <4> QED
        BY <4>2, <4>3, <4>4
    <3>2. CASE WriteRoster(c)
      <4>1. pc[c] \in {"greet", "tell", "farewell"}
        BY <3>2 DEF WriteRoster, RosterStages, AfterRosters
      <4>2. pc'[c] = pc[c] \/ pc'[c] = AfterRosters[pc[c]]
        BY <1>1, <3>2 DEF WriteRoster
      <4>3. AfterRosters[pc[c]] \in {"take", "serve", "done"}
        BY <4>1 DEF AfterRosters
      <4> QED
        BY <4>1, <4>2, <4>3
    <3> QED
      BY <1>8, <3>1, <3>2
  <2>2. UNCHANGED <<queued, hand, target>> /\ pc' = [pc EXCEPT ![c] = pc'[c]]
    BY <1>1, <1>8 DEF Gather, WriteRoster
  <2> QED
    BY <1>2, <2>1, <2>2
<1>9. ASSUME NEW c \in Conns, TakeQueue(c) PROVE Right'
  <2> DEFINE m == MemberOf[c]
             k == stale[m]
  <2>1. m \in Members /\ k \in Nat /\ k <= Len(queued[m]) /\ queued[m] \in Seq(Envelopes)
    BY <1>1 DEF RightInv, QueueBounded, TypeOK, Shapes
  <2>2. /\ hand' = [hand EXCEPT ![c] = SubSeq(queued[m], k + 1, Len(queued[m]))]
        /\ queued' = [queued EXCEPT ![m] = <<>>]
        /\ pc[c] = "take" /\ UNCHANGED target
        /\ \A d \in Conns \ {c} : pc'[d] = pc[d]
    BY <1>1, <1>9 DEF TakeQueue
  <2>3. hand'[c] = SubSeq(queued[m], k + 1, Len(queued[m])) /\ \A d \in Conns \ {c} : hand'[d] = hand[d]
    BY <1>1, <2>2
  <2> HIDE DEF m, k
  <2>4. \A i \in 1..Len(hand'[c]) : i + k \in 1..Len(queued[m]) /\ hand'[c][i] = queued[m][i + k]
    <3> DEFINE q == queued[m]
               t == hand'[c]
    <3>1. \A i \in 1..Len(hand'[c]) :
             i + k \in (k+1)..Len(queued[m]) /\ hand'[c][i] = queued[m][i + k]
      <4>1. q \in Seq(Envelopes) /\ k \in Nat /\ k <= Len(q) /\ t = SubSeq(q, k + 1, Len(q))
        BY <2>1, <2>3
      <4> HIDE DEF q, t
      <4>2. \A i \in 1..Len(t) : i + k \in (k+1)..Len(q) /\ t[i] = q[i + k]
        BY ONLY <4>1, Suffix
      <4> QED
        BY <4>2 DEF q, t
    <3>2. \A j \in (k+1)..Len(queued[m]) : j \in 1..Len(queued[m])
      BY <2>1
    <3> QED
      BY <3>1, <3>2
  <2>5. QueuesRight'
    <3>1. queued'[m] = <<>> /\ Len(<<>>) = 0 /\ \A n \in Members \ {m} : queued'[n] = queued[n]
      BY <1>1, <2>1, <2>2
    <3> QED
      BY <3>1 DEF RightInv, QueuesRight
  <2>6. FlushRight'
    <3>1. \A i \in 1..Len(queued[m]) : AddressedTo[queued[m][i]] = m
      BY <2>1 DEF RightInv, QueuesRight
    <3>2. ASSUME NEW i \in 1..Len(hand'[c]) PROVE AddressedTo[hand'[c][i]] = MemberOf[c]
      <4>1. i + k \in 1..Len(queued[m]) /\ hand'[c][i] = queued[m][i + k]
        BY <2>4
      <4>2. AddressedTo[queued[m][i + k]] = m
        BY <3>1, <4>1
      <4> QED
        BY <4>1, <4>2 DEF m
    <3>3. ASSUME NEW d \in Conns \ {c}, pc'[d] \in {"flush", "putBack"},
                 NEW i \in 1..Len(hand'[d])
          PROVE  AddressedTo[hand'[d][i]] = MemberOf[d]
      <4>1. pc'[d] = pc[d] /\ hand'[d] = hand[d]
        BY <2>2, <2>3
      <4> QED
        BY <3>3, <4>1 DEF RightInv, FlushRight
    <3> QED
      BY <3>2, <3>3 DEF FlushRight
  <2>7. TargetRight'
    <3>1. target[c] = None
      BY <2>2 DEF RightInv, TypeOK, HandsFit
    <3> QED
      BY <2>2, <2>3, <3>1 DEF RightInv, TargetRight
  <2> QED
    BY <2>5, <2>6, <2>7
<1>10. ASSUME NEW c \in Conns, FlushOne(c) PROVE Right'
  <2>1. /\ pc[c] = "flush" /\ hand' = [hand EXCEPT ![c] = Tail(hand[c])]
        /\ UNCHANGED <<queued, target>> /\ \A d \in Conns \ {c} : pc'[d] = pc[d]
    BY <1>1, <1>10 DEF FlushOne
  <2>2. hand[c] # <<>> /\ target[c] = None
    BY <2>1 DEF RightInv, TypeOK, HandsFit
  <2>3. hand'[c] = Tail(hand[c]) /\ \A d \in Conns \ {c} : hand'[d] = hand[d]
    BY <1>1, <2>1
  <2>4. \A i \in 1..Len(hand'[c]) : i + 1 \in 1..Len(hand[c]) /\ hand'[c][i] = hand[c][i + 1]
    BY <1>1, <2>2, <2>3
  <2>5. \A i \in 1..Len(hand'[c]) : AddressedTo[hand'[c][i]] = MemberOf[c]
    BY <2>1, <2>4 DEF RightInv, FlushRight
  <2> QED
    BY <2>1, <2>2, <2>3, <2>5 DEF RightInv, QueuesRight, FlushRight, TargetRight
<1>11. ASSUME NEW c \in Conns, PutBack(c) \/ EnqueueOne(c) PROVE Right'
  <2> DEFINE e == Head(hand[c])
             m == IF pc[c] = "putBack" THEN MemberOf[c] ELSE AddressedTo[e]
  <2>1. /\ pc[c] \in {"putBack", "enqueue"} /\ Enqueue(m, e)
        /\ pc' = [pc EXCEPT ![c] = "serve"] /\ hand' = [hand EXCEPT ![c] = <<>>]
        /\ UNCHANGED target
    BY <1>11 DEF PutBack, EnqueueOne
  <2>2. hand[c] # <<>> /\ target[c] = None
    BY <2>1 DEF RightInv, TypeOK, HandsFit
  <2>3. e \in Envelopes /\ m \in Members /\ AddressedTo[e] = m
    <3>1. e = hand[c][1] /\ 1 \in 1..Len(hand[c]) /\ e \in Envelopes
      BY <1>1, <2>2
    <3>2. pc[c] = "putBack" => AddressedTo[e] = MemberOf[c]
      BY <3>1 DEF RightInv, FlushRight
    <3> QED
      BY <3>1, <3>2
  <2> HIDE DEF e, m
  <2>4. QueuesRight'
    BY <2>1, <2>3, EnqueueRight DEF RightInv
  <2>5. \A d \in Conns : hand'[d] = IF d = c THEN <<>> ELSE hand[d]
    BY <1>1, <2>1
  <2>6. \A d \in Conns : pc'[d] = IF d = c THEN "serve" ELSE pc[d]
    BY <1>1, <2>1
  <2>7. FlushRight' /\ TargetRight'
    BY <2>1, <2>2, <2>5, <2>6 DEF RightInv, FlushRight, TargetRight
  <2> QED
    BY <2>4, <2>7
<1>12. ASSUME NEW c \in Conns, NEW e \in Envelopes, Send(c, e) PROVE Right'
  <2>1. CASE status[AddressedTo[e]] # "active"
    BY <1>3, <1>12, <2>1 DEF Send
  <2>2. CASE status[AddressedTo[e]] = "active"
    <3>1. /\ hand' = [hand EXCEPT ![c] = <<e>>]
          /\ target' = [target EXCEPT ![c] = online[AddressedTo[e]]]
          /\ UNCHANGED queued
          /\ pc' = [pc EXCEPT ![c] = IF online[AddressedTo[e]] = None THEN "enqueue" ELSE "write"]
      BY <1>12, <2>2 DEF Send
    <3>2. \A d \in Conns : /\ hand'[d] = IF d = c THEN <<e>> ELSE hand[d]
                           /\ target'[d] = IF d = c THEN online[AddressedTo[e]] ELSE target[d]
                           /\ d # c => pc'[d] = pc[d]
      BY <1>1, <3>1
    <3>3. pc'[c] \notin {"flush", "putBack"}
      BY <1>1, <3>1
    <3>4. online[AddressedTo[e]] # None => MemberOf[online[AddressedTo[e]]] = AddressedTo[e]
      BY DEF RightInv, OnlineExact
    <3>5. Head(<<e>>) = e
      OBVIOUS
    <3>6. QueuesRight' /\ FlushRight'
      BY <3>1, <3>2, <3>3 DEF RightInv, QueuesRight, FlushRight
    <3>7. TargetRight'
      BY <3>2, <3>4, <3>5 DEF RightInv, TargetRight
    <3> QED
      BY <3>6, <3>7
  <2> QED
    BY <2>1, <2>2
<1>13. ASSUME NEW c \in Conns, Forward(c) \/ ForwardFails(c) PROVE Right'
  <2>1. /\ target' = [target EXCEPT ![c] = None] /\ UNCHANGED queued
        /\ \A d \in Conns \ {c} : hand'[d] = hand[d] /\ pc'[d] = pc[d]
        /\ pc'[c] \in {"serve", "enqueue"}
    BY <1>1, <1>13 DEF Forward, ForwardFails
  <2>2. \A d \in Conns : target'[d] = IF d = c THEN None ELSE target[d]
    BY <1>1, <2>1
  <2> QED
    BY <2>1, <2>2 DEF RightInv, QueuesRight, FlushRight, TargetRight
<1>14. CASE UNCHANGED vars
  BY <1>3, <1>14 DEF vars
<1> HIDE DEF Right
<1> QED
  BY <1>4, <1>5, <1>6, <1>7, <1>8, <1>9, <1>10, <1>11, <1>12, <1>13, <1>14
     DEF Next, Goroutine

(* An envelope waits in its recipient's queue and is written to its        *)
(* recipient's connections only, through a flush that fails, a forward     *)
(* that fails and connections that replace one another.                    *)
THEOREM RelayRightRecipient == Spec => []RightRecipient
<1> DEFINE Right == QueuesRight /\ FlushRight /\ TargetRight
<1>1. Init => Right
  BY InitRight
<1>2. /\ TypeOK /\ QueueBounded /\ OnlineExact /\ Right
      /\ TypeOK' /\ [Next]_vars
      => Right'
  BY NextRight DEF RightInv
<1>3. TypeOK /\ Right => RightRecipient
  BY RightParts
<1> QED
  BY <1>1, <1>2, <1>3, RelayTyped, RelayBounded, RelayOnline, PTL DEF Spec

-----------------------------------------------------------------------------
(* Whose sessions are listed.                                              *)

Present == Registered \cup {"drop"}

(* The goroutine of a connection that reported sessions stays until it has *)
(* taken them out again; nothing else puts any in.                         *)
LEMMA NextListed ==
    ASSUME TypeOK, NoOrphanSessions, [Next]_vars
    PROVE  NoOrphanSessions'
<1> USE RelayAssumption DEF NoOrphanSessions, Present, Registered, GoTo, store
(* Wherever a goroutine goes, it does not leave the read loop for good.    *)
<1>1. ASSUME UNCHANGED <<shared, reported>>, NEW c \in Conns,
             NEW u, pc' = [pc EXCEPT ![c] = u], pc[c] \in Present => u \in Present
      PROVE  NoOrphanSessions'
  <2>1. \A d \in Conns : pc[d] \in Present => pc'[d] \in Present
    BY <1>1 DEF TypeOK, Shapes
  <2> QED
    BY <1>1, <2>1
<1>2. ASSUME UNCHANGED <<reported, pc>>, \A m \in Members : shared'[m] # {} => shared[m] # {}
      PROVE  NoOrphanSessions'
  BY <1>2
<1>3. ASSUME NEW m \in Members, Join(m) \/ Revoke(m) \/ Age(m) PROVE NoOrphanSessions'
  <2>1. CASE Revoke(m)
    <3>1. \A o \in Members : shared'[o] # {} => shared[o] # {}
      BY <2>1 DEF Revoke, TypeOK, Shapes
    <3>2. UNCHANGED <<reported, pc>>
      BY <2>1 DEF Revoke
    <3> QED
      BY <1>2, <3>1, <3>2
  <2>2. CASE Join(m) \/ Age(m)
    BY <1>2, <2>2 DEF Join, Age
  <2> QED
    BY <1>3, <2>1, <2>2
<1>4. ASSUME NEW c \in Conns, Leave(c) \/ Notice(c) \/ BuildRoster(c) PROVE NoOrphanSessions'
  BY <1>2, <1>4 DEF Leave, Notice, BuildRoster
<1>5. ASSUME NEW c \in Conns, Hello(c) \/ Auth(c) \/ HandshakeFails(c) \/ Register(c)
      PROVE  NoOrphanSessions'
  <2>1. CASE Hello(c)
    BY <1>1, <2>1 DEF Hello
  <2>2. CASE Auth(c)
    BY <1>1, <2>2 DEF Auth
  <2>3. CASE HandshakeFails(c)
    BY <1>1, <2>3 DEF HandshakeFails
  <2>4. CASE Register(c)
    BY <1>1, <2>4 DEF Register
  <2> QED
    BY <1>5, <2>1, <2>2, <2>3, <2>4
<1>6. ASSUME NEW c \in Conns, TakeQueue(c) \/ FlushOne(c)
      PROVE  NoOrphanSessions'
  <2>1. PICK u \in {"serve", "flush"} : pc' = [pc EXCEPT ![c] = u]
    <3>1. CASE TakeQueue(c)
      BY <3>1 DEF TakeQueue
    <3>2. CASE FlushOne(c)
      BY <3>2 DEF FlushOne
    <3> QED
      BY <1>6, <3>1, <3>2
  <2>2. UNCHANGED <<shared, reported>>
    BY <1>6 DEF TakeQueue, FlushOne
  <2> QED
    BY <1>1, <2>1, <2>2
<1>7. ASSUME NEW c \in Conns, FlushFails(c) \/ PutBack(c)
      PROVE  NoOrphanSessions'
  <2>1. CASE FlushFails(c)
    BY <1>1, <2>1 DEF FlushFails
  <2>2. CASE PutBack(c)
    BY <1>1, <2>2 DEF PutBack
  <2> QED
    BY <1>7, <2>1, <2>2
<1>8. ASSUME NEW c \in Conns, NEW e \in Envelopes, Send(c, e) PROVE NoOrphanSessions'
  <2>1. CASE UNCHANGED <<shared, reported, pc>>
    BY <1>2, <2>1
  <2>2. CASE pc' # pc
    BY <1>1, <1>8, <2>2 DEF Send
  <2> QED
    BY <1>8, <2>1, <2>2 DEF Send
<1>9. ASSUME NEW c \in Conns, Forward(c) \/ ForwardFails(c) \/ EnqueueOne(c)
      PROVE  NoOrphanSessions'
  <2>1. CASE Forward(c)
    BY <1>1, <2>1 DEF Forward
  <2>2. CASE ForwardFails(c)
    BY <1>1, <2>2 DEF ForwardFails
  <2>3. CASE EnqueueOne(c)
    BY <1>1, <2>3 DEF EnqueueOne
  <2> QED
    BY <1>9, <2>1, <2>2, <2>3
<1>10. ASSUME NEW c \in Conns, NEW S \in SUBSET Sessions, Publish(c, S)
       PROVE  NoOrphanSessions'
  <2>1. /\ shared' = [shared EXCEPT ![MemberOf[c]] = S]
        /\ \A d \in Conns : pc'[d] = IF d = c THEN "gatherTell" ELSE pc[d]
        /\ \A d \in Conns : reported'[d] <=> d = c \/ reported[d]
    BY <1>10 DEF Publish, TypeOK, Shapes
  <2>2. ASSUME NEW m \in Members, shared'[m] # {}
        PROVE  \E d \in Conns : /\ MemberOf[d] = m /\ reported'[d]
                                /\ pc'[d] \in Present
    <3>1. CASE m = MemberOf[c]
      BY <2>1, <3>1
    <3>2. CASE m # MemberOf[c]
      <4>1. shared[m] # {}
        BY <2>1, <2>2, <3>2 DEF TypeOK, Shapes
      <4> QED
        BY <2>1, <4>1
    <3> QED
      BY <3>1, <3>2
  <2> QED
    BY <2>2
<1>11. ASSUME NEW c \in Conns, Gather(c) PROVE NoOrphanSessions'
  <2>1. /\ \/ pc[c] = "gatherTell" /\ pc'[c] \in {"tell", "serve"}
           \/ pc[c] = "gatherFarewell" /\ pc'[c] \in {"farewell", "done"}
        /\ pc' = [pc EXCEPT ![c] = pc'[c]]
        /\ UNCHANGED <<shared, reported>>
    <3>1. CASE pc[c] = "gatherTell"
      BY <1>11, <3>1 DEF Gather, AfterGather, AfterRosters, TypeOK, Shapes
    <3>2. CASE pc[c] = "gatherFarewell"
      BY <1>11, <3>2 DEF Gather, AfterGather, AfterRosters, TypeOK, Shapes
    <3> QED
      BY <1>11, <3>1, <3>2 DEF Gather, AfterGather
  <2> QED
    BY <1>1, <2>1
<1>12. ASSUME NEW c \in Conns, WriteRoster(c) PROVE NoOrphanSessions'
  <2>1. /\ \/ pc[c] \in {"greet", "tell"} /\ pc'[c] \in {"greet", "tell", "take", "serve"}
           \/ pc[c] = "farewell" /\ pc'[c] \in {"farewell", "done"}
        /\ pc' = [pc EXCEPT ![c] = pc'[c]]
        /\ UNCHANGED <<shared, reported>>
    BY <1>12 DEF WriteRoster, RosterStages, AfterRosters, TypeOK, Shapes
  <2> QED
    BY <1>1, <2>1
<1>13. ASSUME NEW c \in Conns, ReadFails(c) \/ Unregister(c) PROVE NoOrphanSessions'
  BY <1>1, <1>13 DEF ReadFails, Unregister
<1>14. ASSUME NEW c \in Conns, DropSessions(c) PROVE NoOrphanSessions'
  <2>1. /\ shared' = [shared EXCEPT ![MemberOf[c]] = IF reported[c] THEN {} ELSE @]
        /\ reported' = reported
        /\ \A d \in Conns : d # c => pc'[d] = pc[d]
    BY <1>14 DEF DropSessions, TypeOK, Shapes
  <2>2. ASSUME NEW m \in Members, shared'[m] # {}
        PROVE  \E d \in Conns : /\ MemberOf[d] = m /\ reported'[d]
                                /\ pc'[d] \in Present
    <3>1. shared[m] # {} /\ (MemberOf[c] = m => ~ reported[c])
      BY <2>1, <2>2 DEF TypeOK, Shapes
    <3>2. PICK d \in Conns : MemberOf[d] = m /\ reported[d] /\ pc[d] \in Present
      BY <3>1
    <3>3. d # c
      BY <3>1, <3>2
    <3> QED
      BY <2>1, <3>2, <3>3
  <2> QED
    BY <2>2
<1>15. CASE UNCHANGED vars
  BY <1>2, <1>15 DEF vars
<1> HIDE DEF NoOrphanSessions, Present, Registered, GoTo
<1> QED
  BY <1>3, <1>4, <1>5, <1>6, <1>7, <1>8, <1>9, <1>10, <1>11, <1>12, <1>13, <1>14, <1>15
     DEF Next, Goroutine

(* server.go:219 and 360: sessions are listed only while a connection that *)
(* reported them has yet to take them out, however reports, replacements,  *)
(* revocations and closed sockets follow each other.                       *)
THEOREM RelayNoOrphanSessions == Spec => []NoOrphanSessions
<1>1. Init => NoOrphanSessions
  BY DEF Init, NoOrphanSessions
<1>2. TypeOK /\ NoOrphanSessions /\ [Next]_vars => NoOrphanSessions'
  BY NextListed
<1> QED
  BY <1>1, <1>2, RelayTyped, PTL DEF Spec

-----------------------------------------------------------------------------
(* The workspace.                                                          *)

(* The parts of Kept, before and after a step.                             *)
Use(st) == [m \in Members |-> IF st[m] = "absent" THEN 0 ELSE 1]
Standing(st) == [m \in Members |-> IF st[m] = "absent" THEN "none" ELSE st[m]]
Exposed(sh) == {m \in Members : sh[m] # {}}

Parts(use, standing, exposed) ==
    [created |-> Members, uses |-> use, status |-> standing, exposed |-> exposed, settled |-> {}]

LEMMA KeptParts ==
    /\ Kept = Parts(Use(status), Standing(status), Exposed(shared))
    /\ Kept' = Parts(Use(status'), Standing(status'), Exposed(shared'))
  BY DEF Kept, Parts, Use, Standing, Exposed

(* What somebody's new standing changes.                                   *)
LEMMA StandingMoves ==
    ASSUME NEW st \in [Members -> Statuses], NEW m \in Members,
           NEW s \in Statuses \ {"absent"}
    PROVE  /\ Standing([st EXCEPT ![m] = s]) = [Standing(st) EXCEPT ![m] = s]
           /\ st[m] = "absent" => Use([st EXCEPT ![m] = s]) = [Use(st) EXCEPT ![m] = @ + 1]
           /\ st[m] # "absent" => Use([st EXCEPT ![m] = s]) = Use(st)
<1> DEFINE after == [st EXCEPT ![m] = s]
<1>1. after[m] = s /\ \A n \in Members \ {m} : after[n] = st[n]
  OBVIOUS
<1> HIDE DEF after
<1>2. Standing(after) = [Standing(st) EXCEPT ![m] = s]
  BY <1>1 DEF Standing
<1>3. ASSUME st[m] = "absent" PROVE Use(after) = [Use(st) EXCEPT ![m] = @ + 1]
  <2>1. Use(st)[m] = 0 /\ \A n \in Members \ {m} : Use(after)[n] = Use(st)[n]
    BY <1>1, <1>3 DEF Use
  <2>2. Use(after)[m] = 1
    BY <1>1 DEF Use
  <2>3. Use(after) = [n \in Members |-> IF n = m THEN Use(st)[m] + 1 ELSE Use(st)[n]]
    BY <2>1, <2>2 DEF Use
  <2> QED
    BY <2>3 DEF Use
<1>4. ASSUME st[m] # "absent" PROVE Use(after) = Use(st)
  BY <1>1, <1>4 DEF Use
<1> QED
  BY <1>2, <1>3, <1>4 DEF after

(* Somebody joins.                                                         *)
LEMMA JoinKept ==
    ASSUME status \in [Members -> Statuses], NEW m \in Members, Join(m)
    PROVE  Store!Next
<1>1. /\ status[m] = "absent" /\ status' = [status EXCEPT ![m] = "active"]
      /\ UNCHANGED shared
  BY DEF Join
<1>2. "active" \in Statuses \ {"absent"}
  BY DEF Statuses
<1>3. /\ Standing(status') = [Standing(status) EXCEPT ![m] = "active"]
      /\ Use(status') = [Use(status) EXCEPT ![m] = @ + 1]
  BY <1>1, <1>2, StandingMoves
<1>4. Exposed(shared') = Exposed(shared)
  BY <1>1
<1>5. Kept' = [Kept EXCEPT !.status[m] = "active", !.uses[m] = @ + 1]
  <2>1. Kept' = Parts(Use(status'), Standing(status'), Exposed(shared))
    BY <1>4, KeptParts
  <2>2. Kept' = [Kept EXCEPT !.status = Standing(status'), !.uses = Use(status')]
    <3> DEFINE w == Kept
               w2 == Kept'
               use == Use(status)
               use2 == Use(status')
               standing == Standing(status)
               standing2 == Standing(status')
               exposed == Exposed(shared)
    <3>1. w = Parts(use, standing, exposed) /\ w2 = Parts(use2, standing2, exposed)
      BY <2>1, KeptParts
    <3> HIDE DEF w, w2, use, use2, standing, standing2, exposed
    <3>2. w2 = [w EXCEPT !.status = standing2, !.uses = use2]
      <4> DEFINE w1 == Parts(use, standing2, exposed)
      <4>1. w1 = [w EXCEPT !.status = standing2]
        BY ONLY <3>1 DEF Parts
      <4>2. w2 = [w1 EXCEPT !.uses = use2]
        BY ONLY <3>1 DEF Parts
      <4> HIDE DEF w1
      <4>3. w2 = [[w EXCEPT !.status = standing2] EXCEPT !.uses = use2]
        BY ONLY <4>1, <4>2, Zenon
      <4>4. [[w EXCEPT !.status = standing2] EXCEPT !.uses = use2]
              = [w EXCEPT !.status = standing2, !.uses = use2]
        OBVIOUS
      <4> QED
        BY ONLY <4>3, <4>4
    <3> QED
      BY <3>2 DEF w, w2, use, use2, standing, standing2, exposed
  <2>3. Kept.status = Standing(status) /\ Kept.uses = Use(status)
    BY KeptParts DEF Parts
  <2> QED
    BY <1>3, <2>2, <2>3
<1> DEFINE op == [kind |-> "redeem", inv |-> m, who |-> m]
<1>6. op \in Store!Ops
  BY DEF Store!Ops
<1>7. Store!Changes(Kept, op, {})
  BY <1>1 DEF Store!Changes, Store!Usable, Kept
<1>8. Store!Apply(Kept, op) = [Kept EXCEPT !.status[m] = "active", !.uses[m] = @ + 1]
  BY DEF Store!Apply
<1> QED
  BY <1>5, <1>6, <1>7, <1>8 DEF Store!Next, Store!Do

(* Somebody is revoked, and loses the sessions.                            *)
LEMMA RevokeKept ==
    ASSUME status \in [Members -> Statuses], shared \in [Members -> SUBSET Sessions],
           NEW m \in Members, Revoke(m)
    PROVE  Store!Next
<1>1. /\ status[m] = "active" /\ status' = [status EXCEPT ![m] = "revoked"]
      /\ shared' = [shared EXCEPT ![m] = {}]
  BY DEF Revoke
<1>2. "revoked" \in Statuses \ {"absent"}
  BY DEF Statuses
<1>3. /\ Standing(status') = [Standing(status) EXCEPT ![m] = "revoked"]
      /\ Use(status') = Use(status)
  <2>1. status[m] # "absent"
    BY <1>1
  <2>2. /\ Standing([status EXCEPT ![m] = "revoked"]) = [Standing(status) EXCEPT ![m] = "revoked"]
        /\ Use([status EXCEPT ![m] = "revoked"]) = Use(status)
    BY <1>2, <2>1, StandingMoves
  <2> QED
    BY <1>1, <2>2
<1>4. Exposed(shared') = Exposed(shared) \ {m}
  BY <1>1 DEF Exposed
<1>5. Kept' = [Kept EXCEPT !.status[m] = "revoked", !.exposed = @ \ {m}]
  <2>1. Kept' = Parts(Use(status), Standing(status'), Exposed(shared'))
    BY <1>3, KeptParts
  <2>2. Kept' = [Kept EXCEPT !.status = Standing(status'), !.exposed = Exposed(shared')]
    <3> DEFINE w == Kept
               w2 == Kept'
               use == Use(status)
               standing == Standing(status)
               standing2 == Standing(status')
               exposed == Exposed(shared)
               exposed2 == Exposed(shared')
    <3>1. w = Parts(use, standing, exposed) /\ w2 = Parts(use, standing2, exposed2)
      BY <2>1, KeptParts
    <3> HIDE DEF w, w2, use, standing, standing2, exposed, exposed2
    <3>2. w2 = [w EXCEPT !.status = standing2, !.exposed = exposed2]
      <4> DEFINE w1 == Parts(use, standing2, exposed)
      <4>1. w1 = [w EXCEPT !.status = standing2]
        BY ONLY <3>1 DEF Parts
      <4>2. w2 = [w1 EXCEPT !.exposed = exposed2]
        BY ONLY <3>1 DEF Parts
      <4> HIDE DEF w1
      <4>3. w2 = [[w EXCEPT !.status = standing2] EXCEPT !.exposed = exposed2]
        BY ONLY <4>1, <4>2, Zenon
      <4>4. [[w EXCEPT !.status = standing2] EXCEPT !.exposed = exposed2]
              = [w EXCEPT !.status = standing2, !.exposed = exposed2]
        OBVIOUS
      <4> QED
        BY ONLY <4>3, <4>4
    <3> QED
      BY <3>2 DEF w, w2, use, standing, standing2, exposed, exposed2
  <2>3. Kept.status = Standing(status) /\ Kept.exposed = Exposed(shared)
    BY KeptParts DEF Parts
  <2> QED
    BY <1>3, <1>4, <2>2, <2>3
<1> DEFINE op == [kind |-> "revoke", who |-> m]
<1>6. op \in Store!Ops
  BY DEF Store!Ops
<1>7. Store!Changes(Kept, op, {})
  BY <1>1 DEF Store!Changes, Kept
<1>8. Store!Apply(Kept, op) = [Kept EXCEPT !.status[m] = "revoked", !.exposed = @ \ {m}]
  BY DEF Store!Apply, Store!Revoke
<1> QED
  BY <1>5, <1>6, <1>7, <1>8 DEF Store!Next, Store!Do

(* A report of sessions, of none, or the end of a connection.              *)
LEMMA SessionsKept ==
    ASSUME shared \in [Members -> SUBSET Sessions], UNCHANGED status,
           NEW m \in Members, NEW S, shared' = [shared EXCEPT ![m] = S],
           S # {} => status[m] = "active"
    PROVE  Store!Next
<1>1. Use(status') = Use(status) /\ Standing(status') = Standing(status)
  OBVIOUS
<1>2. CASE S # {}
  <2>1. Exposed(shared') = Exposed(shared) \cup {m}
    BY <1>2 DEF Exposed
  <2>2. Kept' = [Kept EXCEPT !.exposed = @ \cup {m}]
    <3> DEFINE use == Use(status)
               standing == Standing(status)
               exposed == Exposed(shared)
    <3>1. /\ Kept = Parts(use, standing, exposed)
          /\ Kept' = Parts(use, standing, exposed \cup {m})
      BY <1>1, <2>1, KeptParts
    <3> HIDE DEF use, standing, exposed
    <3> QED
      BY ONLY <3>1 DEF Parts
  <2> DEFINE op == [kind |-> "expose", who |-> m]
  <2>3. op \in Store!Ops
    BY DEF Store!Ops
  <2>4. Store!Changes(Kept, op, {})
    BY <1>2 DEF Store!Changes, Kept
  <2>5. Store!Apply(Kept, op) = [Kept EXCEPT !.exposed = @ \cup {m}]
    BY DEF Store!Apply
  <2> QED
    BY <2>2, <2>3, <2>4, <2>5 DEF Store!Next, Store!Do
<1>3. CASE S = {}
  <2>1. Exposed(shared') = Exposed(shared) \ {m}
    BY <1>3 DEF Exposed
  <2>2. Kept' = [Kept EXCEPT !.exposed = @ \ {m}]
    <3> DEFINE use == Use(status)
               standing == Standing(status)
               exposed == Exposed(shared)
    <3>1. /\ Kept = Parts(use, standing, exposed)
          /\ Kept' = Parts(use, standing, exposed \ {m})
      BY <1>1, <2>1, KeptParts
    <3> HIDE DEF use, standing, exposed
    <3> QED
      BY ONLY <3>1 DEF Parts
  <2> DEFINE op == [kind |-> "drop", who |-> m]
  <2>3. op \in Store!Ops
    BY DEF Store!Ops
  <2>4. Store!Changes(Kept, op, {})
    BY DEF Store!Changes
  <2>5. Store!Apply(Kept, op) = [Kept EXCEPT !.exposed = @ \ {m}]
    BY DEF Store!Apply
  <2> QED
    BY <2>2, <2>3, <2>4, <2>5 DEF Store!Next, Store!Do
<1> QED
  BY <1>2, <1>3

(* Every step is one operation of the store, or leaves it alone.           *)
LEMMA NextKept == ASSUME TypeOK, [Next]_vars PROVE [Store!Next]_Kept
<1>1. status \in [Members -> Statuses] /\ shared \in [Members -> SUBSET Sessions]
  BY DEF TypeOK, Shapes
<1>2. ASSUME UNCHANGED <<status, shared>> PROVE UNCHANGED Kept
  BY <1>2 DEF Kept
<1>3. ASSUME NEW m \in Members, Join(m) \/ Revoke(m) PROVE Store!Next
  BY <1>1, <1>3, JoinKept, RevokeKept
<1>4. ASSUME NEW c \in Publishers, NEW S \in SUBSET Sessions, Publish(c, S) PROVE Store!Next
  <2>1. MemberOf[c] \in Members
    BY RelayAssumption
  <2> QED
    BY <1>1, <1>4, <2>1, SessionsKept DEF Publish
<1>5. ASSUME NEW c \in Conns, DropSessions(c) PROVE [Store!Next]_Kept
  <2>1. MemberOf[c] \in Members
    BY RelayAssumption
  <2>2. CASE reported[c]
    <3>1. shared' = [shared EXCEPT ![MemberOf[c]] = {}] /\ UNCHANGED status
      BY <1>5, <2>2 DEF DropSessions
    <3> QED
      BY <1>1, <2>1, <3>1, SessionsKept
  <2>3. CASE ~ reported[c]
    BY <1>1, <1>2, <1>5, <2>1, <2>3 DEF DropSessions
  <2> QED
    BY <2>2, <2>3
<1>6. ASSUME NEW m \in Members, Age(m) PROVE UNCHANGED Kept
  BY <1>2, <1>6 DEF Age, store
<1>7. ASSUME NEW c \in Conns,
             Leave(c) \/ Notice(c) \/ Hello(c) \/ Auth(c) \/ HandshakeFails(c)
               \/ \E e \in Envelopes : Send(c, e)
      PROVE  UNCHANGED Kept
  BY <1>2, <1>7 DEF Leave, Notice, Hello, Auth, HandshakeFails, Send, store
<1>8. ASSUME NEW c \in Conns, Goroutine(c), ~ DropSessions(c) PROVE UNCHANGED Kept
  BY <1>2, <1>8 DEF Goroutine, Register, TakeQueue, FlushOne, FlushFails, PutBack, Forward,
     ForwardFails, EnqueueOne, Gather, BuildRoster, WriteRoster, ReadFails, Unregister, store
<1>9. CASE UNCHANGED vars
  BY <1>2, <1>9 DEF vars
<1> QED
  BY <1>3, <1>4, <1>5, <1>6, <1>7, <1>8, <1>9 DEF Next

(* store.go:525: through every goroutine of the relay the store changes by *)
(* the operations of Workspace, one at a time.                             *)
THEOREM RelayWorkspaceKept == Spec => WorkspaceKept
<1>1. TypeOK /\ [Next]_vars => [Store!Next]_Kept
  BY NextKept
<1> QED
  BY <1>1, RelayTyped, PTL DEF Spec, WorkspaceKept

(* server.go:219: a revoked member, whose connection lives on, is listed   *)
(* with no session, whatever it reports.                                   *)
THEOREM RelayRevokedHidden == Spec => []Store!RevokedHidden
<1>1. Init => Store!RevokedHidden
  BY DEF Init, Store!RevokedHidden, Kept
<1>2. TypeOK /\ Store!RevokedHidden /\ [Next]_vars => Store!RevokedHidden'
  <2> SUFFICES ASSUME TypeOK, Store!RevokedHidden, [Store!Next]_Kept
               PROVE  Store!RevokedHidden'
    BY NextKept
  <2>1. CASE UNCHANGED Kept
    BY <2>1 DEF Store!RevokedHidden
  <2>2. CASE Store!Next
    <3>1. PICK op \in Store!Ops : Store!Changes(Kept, op, {}) /\ Kept' = Store!Apply(Kept, op)
      BY <2>2 DEF Store!Next, Store!Do
    <3> DEFINE w == Kept
               Hidden(v) == \A m \in v.exposed : v.status[m] = "active"
    <3>2. /\ Hidden(w) /\ w.exposed \subseteq Members /\ DOMAIN w.status = Members
          /\ w = [created |-> w.created, uses |-> w.uses, status |-> w.status,
                  exposed |-> w.exposed, settled |-> w.settled]
      BY DEF Store!RevokedHidden, Kept
    <3> HIDE DEF w
    <3>3. Store!Changes(w, op, {}) /\ Kept' = Store!Apply(w, op)
      BY <3>1 DEF w
    <3>4. Hidden(Store!Apply(w, op))
      BY <3>2, <3>3 DEF Store!Ops, Store!Changes, Store!Apply, Store!Revoke
    <3> QED
      BY <3>3, <3>4 DEF Store!RevokedHidden
  <2> QED
    BY <2>1, <2>2
<1> QED
  BY <1>1, <1>2, RelayTyped, PTL DEF Spec
=============================================================================
