------------------------- MODULE RelayClientProofs -------------------------
(***************************************************************************)
(* Theorems about RelayClient: its types, that two messages for one        *)
(* address never carry the same number, that whoever sent a message can be *)
(* answered, and that nothing follows a Close; for any members, sessions,  *)
(* senders and capacities.                                                 *)
(***************************************************************************)
EXTENDS RelayClient, TLAPS

(* No connection is in use while the next one is dialled, and an envelope  *)
(* is in hand exactly while it is handed on.                               *)
Placed ==
    /\ pc \in {"dial", "install", "backoff"} => conn = 0
    /\ pc = "deliver" <=> pending # Nothing

(* Whoever sent something is remembered as a person, which neither a       *)
(* roster nor the loss of the connection undoes.                           *)
Heard == replyTo \cup Range(deliveries) \cup ({pending} \ {Nothing})
Remembered == Heard \subseteq lastKnown \cap members

(* A number that is written or about to be was taken, and by one sender.   *)
InUse(g, a) == sending[g] # Nothing /\ sending[g].to = a
Taken ==
    /\ \A a \in Addresses : \A i \in DOMAIN written[a] : written[a][i] <= seq[a]
    /\ \A a \in Addresses : \A g \in Senders : InUse(g, a) =>
         /\ sending[g].number <= seq[a]
         /\ \A i \in DOMAIN written[a] : written[a][i] # sending[g].number
         /\ \A h \in Senders \ {g} : InUse(h, a) => sending[h].number # sending[g].number

IInv == TypeOK /\ Placed /\ Remembered /\ Taken /\ NumbersDistinct

(* relay.go:123: a client begins with no connection and nothing known.     *)
LEMMA InitInvariant == Init => IInv
<1> SUFFICES ASSUME Init PROVE IInv
  OBVIOUS
<1> USE ClientAssumption DEF Init
<1>1. TypeOK
  BY DEF TypeOK, Stages, Addresses
<1>2. Placed /\ Taken /\ NumbersDistinct
  BY DEF Placed, Taken, InUse, NumbersDistinct
<1>3. Remembered
  BY DEF Remembered, Heard, Range
<1> QED
  BY <1>1, <1>2, <1>3 DEF IInv

(* A number taken under the lock is higher than any in use.                *)
LEMMA NextNumbers ==
    ASSUME TypeOK, Taken, NumbersDistinct, [Next]_vars
    PROVE  Taken' /\ NumbersDistinct'
<1> USE ClientAssumption
<1> DEFINE Good == Taken /\ NumbersDistinct
<1>1. ASSUME UNCHANGED sends PROVE Good'
  BY <1>1 DEF sends, Taken, InUse, NumbersDistinct
<1>2. CASE KeepConnected
  BY <1>1, <1>2 DEF KeepConnected, Dial, DialFails, Install, Healthy, Copy, Publish, ApplyRoster,
                    ApplyEnvelope, Deliver, ReadFails, Drop, Retry, Stop, sends
<1>3. ASSUME NEW x \in Exposures, Expose(x) PROVE Good'
  BY <1>1, <1>3 DEF Expose, sends
<1>4. CASE ExposeWrite \/ Close \/ Closed \/ Take \/ LinkDrops
  BY <1>1, <1>4 DEF ExposeWrite, Close, Closed, Take, LinkDrops, sends
<1>5. ASSUME NEW m \in Incoming, RelaySends(m) PROVE Good'
  BY <1>1, <1>5 DEF RelaySends, sends
<1>6. ASSUME NEW g \in Senders, NEW a \in Targets, Send(g, a) PROVE Good'
  <2>1. a \in Addresses
    BY DEF Addresses
  <2>2. /\ UNCHANGED written /\ seq[a] \in Nat
        /\ \A b \in Addresses : seq'[b] = IF b = a THEN seq[a] + 1 ELSE seq[b]
        /\ \A h \in Senders \ {g} : sending'[h] = sending[h]
        /\ sending'[g] # Nothing => sending'[g].to = a /\ sending'[g].number = seq[a] + 1
    BY <1>6, <2>1 DEF Send, TypeOK
  <2>3. \A b \in Addresses : seq[b] \in Nat /\ \A i \in DOMAIN written[b] : written[b][i] \in Nat
    BY DEF TypeOK
  <2>4. \A h \in Senders : sending[h] # Nothing => sending[h].number \in Nat
    BY DEF TypeOK
  <2>5. \A b \in Addresses : \A i \in DOMAIN written'[b] : written'[b][i] <= seq'[b]
    BY <2>2, <2>3 DEF Taken
  <2>6. ASSUME NEW b \in Addresses, NEW h \in Senders, InUse(h, b)'
        PROVE  /\ sending'[h].number <= seq'[b]
               /\ \A i \in DOMAIN written'[b] : written'[b][i] # sending'[h].number
               /\ \A k \in Senders \ {h} : InUse(k, b)' => sending'[k].number # sending'[h].number
    <3>1. CASE h = g
      <4>1. b = a /\ sending'[h].number = seq[a] + 1
        BY <2>2, <2>6, <3>1 DEF InUse
      <4>2. \A k \in Senders \ {h} : InUse(k, b)' => sending'[k].number <= seq[a]
        BY <2>1, <2>2, <3>1, <4>1 DEF InUse, Taken
      <4>3. \A k \in Senders \ {h} : InUse(k, b)' => sending'[k].number \in Nat
        BY <2>2, <2>4, <3>1 DEF InUse
      <4>4. \A i \in DOMAIN written'[b] : written'[b][i] <= seq[a] /\ written'[b][i] \in Nat
        BY <2>1, <2>2, <2>3, <4>1 DEF Taken
      <4> QED
        BY <2>1, <2>2, <4>1, <4>2, <4>3, <4>4
    <3>2. CASE h # g
      <4>1. InUse(h, b) /\ sending'[h] = sending[h] /\ sending[h].number \in Nat
        BY <2>2, <2>4, <2>6, <3>2 DEF InUse
      <4>2. sending[h].number <= seq[b] /\ \A i \in DOMAIN written[b] : written[b][i] # sending[h].number
        BY <4>1 DEF Taken
      <4>3. ASSUME NEW k \in Senders \ {h}, InUse(k, b)'
            PROVE  sending'[k].number # sending'[h].number
        <5>1. CASE k = g
          BY <2>2, <4>1, <4>2, <4>3, <5>1 DEF InUse
        <5>2. CASE k # g
          BY <2>2, <4>1, <4>3, <5>2 DEF InUse, Taken
        <5> QED
          BY <5>1, <5>2
      <4> QED
        BY <2>2, <2>3, <4>1, <4>2, <4>3
    <3> QED
      BY <3>1, <3>2
  <2>7. NumbersDistinct'
    BY <2>2 DEF NumbersDistinct
  <2> QED
    BY <2>5, <2>6, <2>7 DEF Taken
<1>7. ASSUME NEW g \in Senders, SendWrite(g) PROVE Good'
  <2>1. CASE written' = written
    BY <1>7, <2>1 DEF SendWrite, Taken, InUse, NumbersDistinct, TypeOK
  <2>2. CASE written' # written
    <3> DEFINE a == sending[g].to
               n == sending[g].number
    <3>1. /\ a \in Addresses /\ n \in Nat /\ InUse(g, a)
          /\ written' = [written EXCEPT ![a] = Append(@, n)]
          /\ UNCHANGED seq /\ \A h \in Senders : sending'[h] = IF h = g THEN Nothing ELSE sending[h]
      BY <1>7, <2>2 DEF SendWrite, InUse, TypeOK
    <3>2. n <= seq[a] /\ \A i \in DOMAIN written[a] : written[a][i] # n
      BY <3>1 DEF Taken
    <3> HIDE DEF a, n
    <3>3. /\ \A b \in Addresses \ {a} : written'[b] = written[b]
          /\ DOMAIN written'[a] = 1..(Len(written[a]) + 1) /\ DOMAIN written[a] = 1..Len(written[a])
          /\ Len(written[a]) \in Nat
          /\ \A i \in 1..Len(written[a]) : written'[a][i] = written[a][i]
          /\ written'[a][Len(written[a]) + 1] = n
      BY <3>1 DEF TypeOK
    <3>4. \A i \in DOMAIN written'[a] : written'[a][i] = n \/ (i \in DOMAIN written[a] /\ written'[a][i] = written[a][i])
      BY <3>3
    <3>5. \A b \in Addresses : \A i \in DOMAIN written'[b] : written'[b][i] <= seq'[b]
      BY <3>1, <3>2, <3>3, <3>4 DEF Taken
    <3>6. ASSUME NEW b \in Addresses, NEW h \in Senders, InUse(h, b)'
          PROVE  /\ sending'[h].number <= seq'[b]
                 /\ \A i \in DOMAIN written'[b] : written'[b][i] # sending'[h].number
                 /\ \A k \in Senders \ {h} : InUse(k, b)' => sending'[k].number # sending'[h].number
      <4>1. h # g /\ InUse(h, b) /\ sending'[h] = sending[h]
        BY <3>1, <3>6 DEF InUse
      <4>2. b = a => sending[h].number # n
        BY <3>1, <4>1 DEF Taken, n
      <4>3. \A i \in DOMAIN written'[b] : written'[b][i] # sending'[h].number
        BY <3>3, <3>4, <4>1, <4>2 DEF Taken
      <4>4. \A k \in Senders \ {h} : InUse(k, b)' => InUse(k, b) /\ sending'[k] = sending[k]
        BY <3>1 DEF InUse
      <4> QED
        BY <3>1, <4>1, <4>3, <4>4 DEF Taken
    <3>7. NumbersDistinct'
      <4>1. ASSUME NEW i \in DOMAIN written'[a], NEW j \in DOMAIN written'[a],
                   written'[a][i] = written'[a][j]
            PROVE  i = j
        BY <3>1, <3>2, <3>3, <4>1 DEF NumbersDistinct
      <4> QED
        BY <3>1, <3>3, <4>1 DEF NumbersDistinct
    <3> QED
      BY <3>5, <3>6, <3>7 DEF Taken
  <2> QED
    BY <2>1, <2>2
<1>8. CASE UNCHANGED vars
  BY <1>1, <1>8 DEF vars, sends
<1> QED
  BY <1>2, <1>3, <1>4, <1>5, <1>6, <1>7, <1>8 DEF Next

(* The parts of TypeOK that no two goroutines write in the same step: what *)
(* keepConnected holds, and what the senders do.                           *)
LEMMA NextTyped ==
    ASSUME TypeOK, Placed, [Next]_vars
    PROVE  TypeOK' /\ Placed'
<1> USE ClientAssumption DEF TypeOK, Placed, GoTo, Stages, Addresses, known, outward, sends, inward
<1> DEFINE Good == TypeOK /\ Placed
<1>1. CASE KeepConnected
  <2>1. CASE Dial
    BY <2>1 DEF Dial
  <2>2. CASE DialFails \/ Install \/ Healthy
    <3>1. CASE DialFails
      BY <3>1 DEF DialFails
    <3>2. CASE Install
      BY <3>2 DEF Install
    <3>3. CASE Healthy
      BY <3>3 DEF Healthy
    <3> QED
      BY <2>2, <3>1, <3>2, <3>3
  <2>3. CASE Copy \/ Publish
    BY <2>3 DEF Copy, Publish
  <2>4. CASE ApplyRoster
    <3>1. Head(wire) \in Incoming /\ Tail(wire) \in Seq(Incoming)
      BY <2>4 DEF ApplyRoster
    <3>2. Head(wire).peers \subseteq Sessions
      BY <2>4, <3>1 DEF ApplyRoster, Incoming, Rosters
    <3> QED
      BY <2>4, <3>1, <3>2 DEF ApplyRoster
  <2>5. CASE ApplyEnvelope
    <3>1. Head(wire) \in Incoming /\ Tail(wire) \in Seq(Incoming)
      BY <2>5 DEF ApplyEnvelope
    <3>2. Head(wire).from \in People
      BY <2>5, <3>1 DEF ApplyEnvelope, Incoming, Rosters
    <3> QED
      BY <2>5, <3>1, <3>2 DEF ApplyEnvelope
  <2>6. CASE Deliver
    <3>1. pending \in People
      BY <2>6 DEF Deliver
    <3>2. CASE Len(deliveries) < InboxLimit /\ deliveries' = Append(deliveries, pending)
      BY <2>6, <3>1, <3>2 DEF Deliver
    <3>3. CASE deliveries' = deliveries
      BY <2>6, <3>3 DEF Deliver
    <3> QED
      BY <2>6, <3>2, <3>3 DEF Deliver
  <2>7. CASE ReadFails \/ Retry \/ Stop
    <3>1. CASE ReadFails
      BY <3>1 DEF ReadFails
    <3>2. CASE Retry
      BY <3>2 DEF Retry
    <3>3. CASE Stop
      BY <3>3 DEF Stop
    <3> QED
      BY <2>7, <3>1, <3>2, <3>3
  <2>8. CASE Drop
    BY <2>8 DEF Drop
  <2> QED
    BY <1>1, <2>1, <2>2, <2>3, <2>4, <2>5, <2>6, <2>7, <2>8 DEF KeepConnected
<1>2. ASSUME NEW x \in Exposures, Expose(x) PROVE Good'
  BY <1>2 DEF Expose
<1>3. CASE ExposeWrite \/ Close \/ Closed \/ LinkDrops
  BY <1>3 DEF ExposeWrite, Close, Closed, LinkDrops
<1>4. CASE Take
  <2>1. /\ Head(deliveries) \in People /\ Tail(deliveries) \in Seq(People)
        /\ Len(Tail(deliveries)) <= InboxLimit
    BY <1>4 DEF Take
  <2> QED
    BY <1>4, <2>1 DEF Take
<1>5. ASSUME NEW m \in Incoming, RelaySends(m) PROVE Good'
  BY <1>5 DEF RelaySends
<1>6. ASSUME NEW g \in Senders, NEW a \in Targets, Send(g, a) PROVE Good'
  BY <1>6 DEF Send
<1>7. ASSUME NEW g \in Senders, SendWrite(g) PROVE Good'
  <2>1. CASE Up(sending[g].on)
    <3>1. /\ sending[g].to \in Addresses
          /\ Append(written[sending[g].to], sending[g].number) \in Seq(1..NumberLimit)
      BY <1>7 DEF SendWrite
    <3>2. written' \in [Addresses -> Seq(1..NumberLimit)]
      BY <1>7, <2>1, <3>1 DEF SendWrite
    <3>3. sending' \in [Senders -> {Nothing} \cup
                          [to : Addresses, number : 1..NumberLimit, on : 1..DialLimit]]
      BY <1>7 DEF SendWrite
    <3> QED
      BY <1>7, <3>2, <3>3, SMTT(30) DEF SendWrite
  <2>2. CASE ~ Up(sending[g].on)
    BY <1>7, <2>2 DEF SendWrite
  <2> QED
    BY <2>1, <2>2
<1>8. CASE UNCHANGED vars
  BY <1>8 DEF vars
<1> QED
  BY <1>1, <1>2, <1>3, <1>4, <1>5, <1>6, <1>7, <1>8 DEF Next

(* A person who was heard stays in lastKnown, and a member.                *)
LEMMA NextRemembered ==
    ASSUME TypeOK, Placed, Remembered, [Next]_vars
    PROVE  Remembered'
<1> USE ClientAssumption DEF GoTo
<1>1. ASSUME lastKnown \subseteq lastKnown', members \subseteq members', Heard' \subseteq Heard
      PROVE  Remembered'
  BY <1>1 DEF Remembered
<1>2. CASE Dial \/ DialFails \/ Install \/ Healthy \/ Copy \/ Publish \/ ReadFails \/ Retry \/ Stop
  BY <1>1, <1>2 DEF Dial, DialFails, Install, Healthy, Copy, Publish, ReadFails, Retry, Stop,
                    Heard, known, inward
<1>3. CASE ApplyRoster
  BY <1>1, <1>3 DEF ApplyRoster, Heard, inward, TypeOK
<1>4. CASE ApplyEnvelope
  BY <1>4 DEF ApplyEnvelope, Remembered, Heard, inward, TypeOK
<1>5. CASE Deliver
  <2>1. pending \in People /\ pending' = Nothing
    BY <1>5 DEF Deliver, Placed, TypeOK
  <2>2. Range(deliveries') \subseteq Range(deliveries) \cup {pending}
    <3>1. CASE deliveries' = Append(deliveries, pending)
      BY <2>1, <3>1 DEF Range, TypeOK
    <3>2. CASE deliveries' = deliveries
      BY <3>2
    <3> QED
      BY <1>5, <3>1, <3>2 DEF Deliver
  <2> QED
    BY <1>1, <1>5, <2>1, <2>2 DEF Deliver, Heard, known
<1>6. CASE Drop
  BY <1>1, <1>6 DEF Drop, Heard, inward
<1>7. ASSUME NEW x \in Exposures, Expose(x) PROVE Remembered'
  BY <1>1, <1>7 DEF Expose, Heard, known, inward
<1>8. CASE ExposeWrite \/ Close \/ Closed \/ LinkDrops
  BY <1>1, <1>8 DEF ExposeWrite, Close, Closed, LinkDrops, Heard, known, inward
<1>9. CASE Take
  <2>1. Head(deliveries) \in Range(deliveries) /\ Range(Tail(deliveries)) \subseteq Range(deliveries)
    <3>1. /\ deliveries \in Seq(People) /\ deliveries # <<>>
          /\ \A i \in DOMAIN Tail(deliveries) :
               i + 1 \in DOMAIN deliveries /\ Tail(deliveries)[i] = deliveries[i + 1]
      BY <1>9 DEF Take, TypeOK
    <3> QED
      BY <3>1 DEF Range
  <2> QED
    BY <1>1, <1>9, <2>1 DEF Take, Heard, known
<1>10. ASSUME NEW m \in Incoming, RelaySends(m) PROVE Remembered'
  BY <1>1, <1>10 DEF RelaySends, Heard, known, inward
<1>11. ASSUME NEW g \in Senders, NEW a \in Targets, Send(g, a) \/ SendWrite(g) PROVE Remembered'
  BY <1>1, <1>11 DEF Send, SendWrite, Heard, known, inward
<1>12. ASSUME NEW g \in Senders, SendWrite(g) PROVE Remembered'
  BY <1>1, <1>12 DEF SendWrite, Heard, known, inward
<1>13. CASE UNCHANGED vars
  BY <1>1, <1>13 DEF vars, Heard
<1> QED
  BY <1>2, <1>3, <1>4, <1>5, <1>6, <1>7, <1>8, <1>9, <1>10, <1>11, <1>12, <1>13
     DEF Next, KeepConnected

LEMMA Invariant == Spec => []IInv
<1>1. IInv /\ [Next]_vars => IInv'
  BY NextTyped, NextRemembered, NextNumbers DEF IInv
<1> QED
  BY <1>1, InitInvariant, PTL DEF Spec

(* The fields of the client and the locals of its goroutines keep their    *)
(* shapes: in particular the channel of deliveries its capacity, and the   *)
(* connection in use is the latest that was dialled (relay.go:293).        *)
THEOREM ClientTyped == Spec => []TypeOK
<1>1. IInv => TypeOK
  BY DEF IInv
<1> QED
  BY <1>1, Invariant, PTL

(* relay.go:206: two sends never take the same number for one address,     *)
(* whatever order they are written in and however often the client         *)
(* reconnects in between.                                                  *)
THEOREM ClientNumbersDistinct == Spec => []NumbersDistinct
<1>1. IInv => NumbersDistinct
  BY DEF IInv
<1> QED
  BY <1>1, Invariant, PTL

(* relay.go:565: whoever sent a message can be sent one back, whatever     *)
(* rosters and broken connections come between.                            *)
THEOREM ClientSendersAnswerable == Spec => []SendersAnswerable
<1>1. IInv => SendersAnswerable
  BY DEF IInv, Remembered, Heard, SendersAnswerable, Reachable
<1> QED
  BY <1>1, Invariant, PTL

(* A client that is closed has no goroutine left that hands envelopes on.  *)
ClosedStopped == life = "closed" => pc = "stopped"
NothingHandedOn == life = "closed" => deliveries' \in {deliveries, Tail(deliveries)}

LEMMA NextClosed ==
    ASSUME ClosedStopped, [Next]_vars
    PROVE  ClosedStopped' /\ NothingHandedOn
<1> USE DEF ClosedStopped, NothingHandedOn
<1>1. CASE KeepConnected
  BY <1>1 DEF KeepConnected, Dial, DialFails, Install, Healthy, Copy, Publish, ApplyRoster,
              ApplyEnvelope, Deliver, ReadFails, Drop, Retry, Stop, GoTo, inward
<1>2. ASSUME NEW x \in Exposures, Expose(x) PROVE ClosedStopped' /\ NothingHandedOn
  BY <1>2 DEF Expose, inward
<1>3. CASE ExposeWrite \/ Close \/ Closed
  BY <1>3 DEF ExposeWrite, Close, Closed, inward
<1>4. CASE Take \/ LinkDrops
  BY <1>4 DEF Take, LinkDrops, inward
<1>5. ASSUME NEW g \in Senders, SendWrite(g) \/ \E a \in Targets : Send(g, a)
      PROVE  ClosedStopped' /\ NothingHandedOn
  BY <1>5 DEF SendWrite, Send, inward
<1>6. ASSUME NEW m \in Incoming, RelaySends(m) PROVE ClosedStopped' /\ NothingHandedOn
  BY <1>6 DEF RelaySends, inward
<1>7. CASE UNCHANGED vars
  BY <1>7 DEF vars
<1> QED
  BY <1>1, <1>2, <1>3, <1>4, <1>5, <1>6, <1>7 DEF Next

(* relay.go:286: Close closes the channel of deliveries.  Nothing is sent  *)
(* on it from then on, whatever was being read, handed on or waited for    *)
(* when Close began; what is in it can still be taken.                     *)
THEOREM ClientClosesQuietly == Spec => [][NothingHandedOn]_vars
<1>1. Init => ClosedStopped
  BY DEF Init, ClosedStopped
<1>2. ClosedStopped /\ [Next]_vars => ClosedStopped' /\ [NothingHandedOn]_vars
  BY NextClosed
<1> QED
  BY <1>1, <1>2, PTL DEF Spec

-----------------------------------------------------------------------------
(* What the relay was told of the sessions, when reports do not overlap.   *)

Connected == {"healthy", "copy", "publish", "read", "deliver"}
ReportsApart == ~ (pc = "publish" /\ writing = conn)
ReportTells == link = "up" /\ pc \in {"read", "deliver"} /\ writing = 0 => published = exposed

(* A report on an earlier connection changes nothing, and one about to be  *)
(* written on this one is of what is exposed now.                          *)
Told ==
    /\ pc = "install" => dialled # 0
    /\ pc \in Connected => conn = dialled /\ conn # 0
    /\ pc = "publish" => report = exposed
    /\ link = "up" /\ pc \in {"read", "deliver"} /\ writing # dialled => published = exposed

LEMMA NextTold ==
    ASSUME TypeOK, Told, ReportsApart', [Next]_vars
    PROVE  Told'
<1>1. dialled \in Nat
  BY ClientAssumption DEF TypeOK
<1> USE <1>1 DEF Told, ReportsApart, Connected, GoTo, outward
<1>2. CASE Dial
  BY <1>2 DEF Dial
<1>3. CASE Install \/ Healthy \/ Copy
  BY <1>3 DEF Install, Healthy, Copy
<1>4. CASE Publish
  BY <1>4 DEF Publish
<1>5. CASE ApplyRoster \/ ApplyEnvelope \/ Deliver \/ ReadFails
  BY <1>5 DEF ApplyRoster, ApplyEnvelope, Deliver, ReadFails
<1>6. CASE DialFails \/ Drop \/ Retry \/ Stop
  BY <1>6 DEF DialFails, Drop, Retry, Stop
<1>7. ASSUME NEW x \in Exposures, Expose(x) PROVE Told'
  BY <1>7 DEF Expose
<1>8. CASE ExposeWrite
  BY <1>8 DEF ExposeWrite, Up
<1>9. CASE Close \/ Closed \/ Take \/ LinkDrops
  BY <1>9 DEF Close, Closed, Take, LinkDrops
<1>10. ASSUME NEW g \in Senders, SendWrite(g) \/ \E a \in Targets : Send(g, a) PROVE Told'
  BY <1>10 DEF SendWrite, Send
<1>11. ASSUME NEW m \in Incoming, RelaySends(m) PROVE Told'
  BY <1>11 DEF RelaySends
<1>12. CASE UNCHANGED vars
  BY <1>12 DEF vars
<1> QED
  BY <1>2, <1>3, <1>4, <1>5, <1>6, <1>7, <1>8, <1>9, <1>10, <1>11, <1>12 DEF Next, KeepConnected

(* relay.go:163: the report after a dial copies the exposed sessions and   *)
(* writes them without the lock.  As long as the daemon does not report on *)
(* the same connection in between, the relay has been told of exactly the  *)
(* sessions that are exposed, as soon as neither has a report to write:    *)
(* the overlap is all that the next report has to repair.                  *)
THEOREM ClientReportTells == Spec /\ []ReportsApart => []ReportTells
<1>1. Init => Told
  BY DEF Init, Told, Connected
<1>2. TypeOK /\ Told /\ ReportsApart' /\ [Next]_vars => Told'
  BY NextTold
<1>3. TypeOK /\ Told => ReportTells
  <2>1. ASSUME TypeOK, Told, pc \in {"read", "deliver"}, writing = 0 PROVE writing # dialled
    BY <2>1 DEF Told, Connected
  <2> QED
    BY <2>1 DEF Told, ReportTells
<1> QED
  BY <1>1, <1>2, <1>3, ClientTyped, PTL DEF Spec
=============================================================================
