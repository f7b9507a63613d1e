-------------------------- MODULE PromotionProofs --------------------------
(***************************************************************************)
(* Theorems about Promotion: how many peers a round leaves, which ones it  *)
(* starts, which ones it keeps, and where a frame goes; for any sessions,  *)
(* any policies and any number of changes while a round is under way.      *)
(***************************************************************************)
EXTENDS Promotion, FiniteSetTheorems, TLAPS

Rounds == [listed : SUBSET Sessions, unlisted : SUBSET Sessions,
           asked : SUBSET Sessions, unasked : SUBSET Sessions,
           caps : SUBSET Nat, modes : SUBSET Modes,
           torn : BOOLEAN, mixed : BOOLEAN]
Writings == [session : Sessions, want : BOOLEAN, read : Nat, kept : Nat]

(* The part of TypeOK that the decision of the poll rests on.              *)
Shaped ==
    /\ policy \in Policy
    /\ writing \in {Nobody} \cup Writings
    /\ writing # Nobody => writing.kept <= writing.read
                           /\ writing.read <= Len(policy.subscribed)
    /\ roster \subseteq Sessions /\ ever \in BOOLEAN
    /\ stage \in Stages
    /\ listed \subseteq Sessions /\ cands \subseteq listed
    /\ view \in Seq(Sessions) /\ shared \in BOOLEAN /\ at \in 0..Len(view)
    /\ stage # "range" => at = 0
    /\ round \in Rounds /\ IsFiniteSet(round.caps)

-----------------------------------------------------------------------------
(* What a round has seen.                                                  *)

(* While a round is under way, what is so now has been so in it.           *)
Sees(h, r, e, p) ==
    /\ r \subseteq h.listed /\ Sessions \ r \subseteq h.unlisted
    /\ IF e THEN /\ Asked(p) \subseteq h.asked
                 /\ Sessions \ Asked(p) \subseteq h.unasked
            ELSE Sessions \subseteq h.unasked
    /\ p.cap \in h.caps /\ p.mode \in h.modes
Observed ==
    stage # "idle" => /\ Sees(round, roster, ever, policy)
                      /\ "off" \in round.modes => Sessions \subseteq round.unasked

Grows(h, g) ==
    /\ h.listed \subseteq g.listed /\ h.unlisted \subseteq g.unlisted
    /\ h.asked \subseteq g.asked /\ h.unasked \subseteq g.unasked
    /\ h.caps \subseteq g.caps /\ h.modes \subseteq g.modes /\ (h.torn => g.torn)
    /\ (h.mixed => g.mixed)

LEMMA NotedSees ==
    ASSUME NEW h \in Rounds, IsFiniteSet(h.caps), NEW r \in SUBSET Sessions,
           NEW e \in BOOLEAN, NEW p \in Policy
    PROVE  LET g == Noted(h, r, e, p)
           IN  /\ g \in Rounds /\ IsFiniteSet(g.caps) /\ Grows(h, g) /\ Sees(g, r, e, p)
               /\ g.torn = h.torn /\ g.mixed = h.mixed
               /\ ("off" \in h.modes => Sessions \subseteq h.unasked)
                    => ("off" \in g.modes => Sessions \subseteq g.unasked)
<1> DEFINE a == IF e THEN Asked(p) ELSE {}
           g == Noted(h, r, e, p)
<1>1. a \subseteq Sessions /\ p.cap \in Nat /\ p.mode \in Modes
  BY DEF Asked, Policy, Modes, Range
<1>2. p.mode = "off" => a = {}
  BY DEF Asked, Policy, Modes
<1>3. g = [h EXCEPT !.listed = @ \cup r, !.unlisted = @ \cup (Sessions \ r),
                    !.asked = @ \cup a, !.unasked = @ \cup (Sessions \ a),
                    !.caps = @ \cup {p.cap}, !.modes = @ \cup {p.mode}]
  BY DEF Noted
<1> HIDE DEF g
<1>4. /\ g.listed = h.listed \cup r /\ g.unlisted = h.unlisted \cup (Sessions \ r)
      /\ g.asked = h.asked \cup a /\ g.unasked = h.unasked \cup (Sessions \ a)
      /\ g.caps = h.caps \cup {p.cap} /\ g.modes = h.modes \cup {p.mode}
      /\ g.torn = h.torn /\ g.mixed = h.mixed
      /\ g = [listed |-> g.listed, unlisted |-> g.unlisted, asked |-> g.asked,
              unasked |-> g.unasked, caps |-> g.caps, modes |-> g.modes,
              torn |-> g.torn, mixed |-> g.mixed]
  BY <1>3 DEF Rounds
<1>5. IsFiniteSet(g.caps)
  BY <1>4, FS_AddElement
<1>6. g \in Rounds
  BY <1>1, <1>4 DEF Rounds
<1>7. Grows(h, g) /\ Sees(g, r, e, p)
  BY <1>4 DEF Grows, Sees
<1> QED
  BY <1>2, <1>4, <1>5, <1>6, <1>7 DEF g

(* What subscribe makes of the policy and of the poll's slice.             *)
Moved(seq) ==
    \A i \in 1..Len(view) :
        view'[i] = view[i] \/ \E j \in DOMAIN seq : view'[i] = seq[j]

LEMMA CompactShape ==
    ASSUME Shaped, Compact
    PROVE  /\ policy' \in Policy /\ policy'.cap = policy.cap /\ policy'.mode = policy.mode
           /\ Len(policy'.subscribed) = Len(policy.subscribed)
           /\ view' \in Seq(Sessions) /\ Len(view') = Len(view)
           /\ ~ shared => view' = view
           /\ writing' \in Writings /\ writing'.kept <= writing'.read
           /\ writing'.read <= Len(policy.subscribed)
           /\ Moved(policy.subscribed)
<1> DEFINE s == policy.subscribed[writing.read + 1]
           k == writing.kept + 1
<1>1. /\ policy.subscribed \in Seq(Sessions) /\ policy.cap \in Nat /\ policy.mode \in Modes
      /\ writing \in Writings /\ view \in Seq(Sessions) /\ policy \in Policy
  BY DEF Shaped, Compact, Unlocked, Policy
<1>2. /\ writing.read \in Nat /\ writing.kept \in Nat /\ writing.kept <= writing.read
      /\ writing.read < Len(policy.subscribed)
  BY <1>1 DEF Shaped, Compact, Writings, Unlocked
<1>3. k \in 1..Len(policy.subscribed) /\ writing.read + 1 \in 1..Len(policy.subscribed) /\ s \in Sessions
  BY <1>1, <1>2
<1>4. k \in Nat /\ writing.read + 1 \in Nat /\ k <= writing.read + 1
      /\ writing.read + 1 <= Len(policy.subscribed) /\ writing.kept <= writing.read + 1
  BY <1>1, <1>2
<1>5. CASE s = writing.session
  <2>1. writing' = [writing EXCEPT !.read = @ + 1] /\ UNCHANGED <<policy, view>>
    BY <1>5 DEF Compact
  <2> HIDE DEF s, k
  <2>2. writing' \in Writings /\ writing'.kept = writing.kept /\ writing'.read = writing.read + 1
    BY <1>1, <1>4, <2>1 DEF Writings
  <2> QED
    BY <1>1, <1>4, <2>1, <2>2 DEF Moved
<1>6. CASE s # writing.session
  <2>1. /\ writing' = [writing EXCEPT !.read = @ + 1, !.kept = k]
        /\ policy' = [policy EXCEPT !.subscribed[k] = s]
        /\ view' = IF shared THEN Put(view, k, s) ELSE view
    BY <1>6 DEF Compact
  <2>2. s = policy.subscribed[writing.read + 1] /\ writing.read + 1 \in DOMAIN policy.subscribed
    BY <1>1, <1>3
  <2> HIDE DEF s, k
  <2>3. writing' \in Writings /\ writing'.kept = k /\ writing'.read = writing.read + 1
    BY <1>1, <1>4, <2>1 DEF Writings
  <2>4. /\ policy' \in Policy /\ policy'.cap = policy.cap /\ policy'.mode = policy.mode
        /\ Len(policy'.subscribed) = Len(policy.subscribed)
    <3>1. policy.subscribed \in Seq(Sessions) /\ [policy.subscribed EXCEPT ![k] = s] \in Seq(Sessions)
          /\ Len([policy.subscribed EXCEPT ![k] = s]) = Len(policy.subscribed)
      BY <1>1, <1>3
    <3> QED
      BY <1>1, <2>1, <3>1 DEF Policy
  <2>5. /\ view' \in Seq(Sessions) /\ Len(view') = Len(view)
        /\ \A i \in 1..Len(view) : view'[i] = view[i] \/ view'[i] = s
    BY <1>1, <1>3, <2>1 DEF Put
  <2>6. Moved(policy.subscribed)
    BY <2>2, <2>5 DEF Moved
  <2>7. ~ shared => view' = view
    BY <2>1
  <2> QED
    BY <1>4, <2>3, <2>4, <2>5, <2>6, <2>7
<1> QED
  BY <1>5, <1>6

LEMMA StoreShape ==
    ASSUME Shaped, NEW grown \in BOOLEAN, Store(grown)
    PROVE  /\ policy' \in Policy /\ policy'.cap = policy.cap
           /\ policy.mode = "manual" => policy'.mode = "manual"
           /\ view' \in Seq(Sessions) /\ Len(view') = Len(view)
           /\ ~ shared => view' = view
           /\ shared' => shared
           /\ policy.mode = "manual" => Moved(policy'.subscribed)
<1> DEFINE kept == SubSeq(policy.subscribed, 1, writing.kept)
           end == writing.kept + 1
           next == IF writing.want THEN Append(kept, writing.session) ELSE kept
           mode == IF writing.want /\ policy.mode = "off" THEN "manual" ELSE policy.mode
<1>1. /\ policy.subscribed \in Seq(Sessions) /\ policy.cap \in Nat /\ policy.mode \in Modes
      /\ writing \in Writings /\ view \in Seq(Sessions) /\ policy \in Policy
  BY DEF Shaped, Store, Unlocked, Policy
<1>2. writing.kept \in 0..Len(policy.subscribed) /\ writing.session \in Sessions
  BY <1>1 DEF Shaped, Store, Writings, Unlocked
<1>3. kept \in Seq(Sessions) /\ Len(kept) = writing.kept
  BY <1>1, <1>2
<1>4. /\ next \in Seq(Sessions) /\ end \in Nat
      /\ writing.want => end \in DOMAIN next /\ next[end] = writing.session
  BY <1>2, <1>3
<1>5. /\ policy' = [policy EXCEPT !.subscribed = next, !.mode = mode]
      /\ view' = IF writing.want /\ shared /\ ~ grown
                   THEN Put(view, end, writing.session) ELSE view
      /\ shared' = (shared /\ ~ grown)
  BY DEF Store
<1>6a. mode \in Modes /\ (policy.mode = "manual" => mode = "manual")
  BY <1>1 DEF Modes
<1> HIDE DEF kept, end, next, mode
<1>6b. policy' = [mode |-> mode, cap |-> policy.cap, subscribed |-> next]
  BY <1>1, <1>5 DEF Policy
<1>6. /\ policy' \in Policy /\ policy'.cap = policy.cap /\ policy'.subscribed = next
      /\ policy.mode = "manual" => policy'.mode = "manual"
  BY <1>1, <1>4, <1>6a, <1>6b DEF Policy
<1>7. /\ view' \in Seq(Sessions) /\ Len(view') = Len(view)
      /\ ~ shared => view' = view
      /\ \A i \in 1..Len(view) : \/ view'[i] = view[i]
                                 \/ writing.want /\ view'[i] = writing.session
  BY <1>1, <1>2, <1>4, <1>5 DEF Put
<1>8. Moved(policy'.subscribed)
  BY <1>4, <1>6, <1>7 DEF Moved
<1> QED
  BY <1>5, <1>6, <1>7, <1>8


-----------------------------------------------------------------------------
(* What others do while a round is under way.                              *)

World ==
    \/ Compact \/ \E grown \in BOOLEAN : Store(grown)
    \/ \E p \in Policies : Reload(p)
    \/ \E r \in SUBSET Sessions : RosterChanges(r)

(* The record of the round after a change of what is so now.               *)
LEMMA Recorded ==
    ASSUME Shaped, Observed, NEW r \in SUBSET Sessions, NEW e \in BOOLEAN,
           NEW p \in Policy, NEW b \in BOOLEAN,
           round' = IF stage = "idle" THEN round
                    ELSE [Noted(round, r, e, p) EXCEPT !.torn = @ \/ b]
    PROVE  /\ round' \in Rounds /\ IsFiniteSet(round'.caps)
           /\ stage # "idle" => /\ Grows(round, round') /\ Sees(round', r, e, p)
                                /\ b => round'.torn
                                /\ "off" \in round'.modes => Sessions \subseteq round'.unasked
<1>1. CASE stage = "idle"
  BY <1>1 DEF Shaped
<1>2. CASE stage # "idle"
  <2> DEFINE g == Noted(round, r, e, p)
  <2>1. round \in Rounds /\ IsFiniteSet(round.caps)
        /\ ("off" \in round.modes => Sessions \subseteq round.unasked)
    BY <1>2 DEF Shaped, Observed
  <2>2. /\ g \in Rounds /\ IsFiniteSet(g.caps) /\ Grows(round, g) /\ Sees(g, r, e, p)
        /\ g.torn = round.torn /\ g.mixed = round.mixed
        /\ "off" \in g.modes => Sessions \subseteq g.unasked
    BY <2>1, NotedSees
  <2>3. round' = [g EXCEPT !.torn = @ \/ b]
    BY <1>2
  <2> HIDE DEF g
  <2>4. /\ round'.listed = g.listed /\ round'.unlisted = g.unlisted
        /\ round'.asked = g.asked /\ round'.unasked = g.unasked
        /\ round'.caps = g.caps /\ round'.modes = g.modes /\ round'.mixed = g.mixed
    BY <2>2, <2>3 DEF Rounds
  <2>5. round'.torn = (g.torn \/ b)
    BY <2>2, <2>3 DEF Rounds
  <2>6. round' \in Rounds
    BY <2>2, <2>3 DEF Rounds
  <2>7. Grows(round, round') /\ Sees(round', r, e, p)
    BY <2>2, <2>4, <2>5 DEF Grows, Sees
  <2> QED
    BY <2>2, <2>4, <2>5, <2>6, <2>7
<1> QED
  BY <1>1, <1>2

(* The same, where nothing moves under the poll.                           *)
LEMMA Untorn ==
    ASSUME Shaped, NEW r \in SUBSET Sessions, NEW e \in BOOLEAN, NEW p \in Policy,
           Remember(r, e, p)
    PROVE  round' = IF stage = "idle" THEN round
                    ELSE [Noted(round, r, e, p) EXCEPT !.torn = @ \/ FALSE]
<1> DEFINE g == Noted(round, r, e, p)
<1>1. g \in Rounds
  BY NotedSees DEF Shaped
<1> HIDE DEF g
<1>2. [g EXCEPT !.torn = @ \/ FALSE] = g
  BY <1>1 DEF Rounds
<1> QED
  BY <1>2 DEF Remember, g

(* None of it lets the slice of the poll hold what nobody asked for, and   *)
(* what it moves there it does not hide.                                   *)
LEMMA WorldMoves ==
    ASSUME Shaped, Observed, World
    PROVE  /\ Shaped' /\ Observed'
           /\ stage # "idle" => Grows(round, round')
           /\ (ever => ever') /\ Len(view') = Len(view)
           /\ stage # "idle" /\ ~ round'.torn => view' = view
           /\ stage # "idle" /\ ever =>
                \A i \in 1..Len(view) : view'[i] = view[i] \/ view'[i] \in round'.asked \/ "off" \in round'.modes
           /\ UNCHANGED <<stage, listed, at, cands, used, want, running, peers, frame>>
<1> USE PromotionAssumption
<1>1. /\ policy \in Policy /\ roster \in SUBSET Sessions /\ ever \in BOOLEAN
      /\ shared \in BOOLEAN /\ view \in Seq(Sessions) /\ round \in Rounds /\ IsFiniteSet(round.caps)
  BY DEF Shaped
<1>2. ASSUME NEW i \in 1..Len(view), stage # "idle", ever, Grows(round, round'),
             view' \in Seq(Sessions), Len(view') = Len(view),
             NEW p \in Policy, Asked(p) \subseteq round'.asked,
             policy.mode = "manual" => p.mode = "manual" /\ Moved(p.subscribed)
      PROVE  view'[i] = view[i] \/ view'[i] \in round'.asked \/ "off" \in round'.modes
  <2>1. view'[i] \in Sessions /\ policy.mode \in Modes
    BY <1>1, <1>2 DEF Policy
  <2>2. Asked(policy) \subseteq round'.asked /\ policy.mode \in round'.modes
    BY <1>2 DEF Observed, Sees, Grows
  <2>3. CASE policy.mode = "manual"
    <3>1. Asked(p) = Range(p.subscribed)
      BY <1>2, <2>3 DEF Asked
    <3> QED
      BY <1>2, <2>3, <3>1 DEF Moved, Range
  <2>4. CASE policy.mode = "auto"
    BY <2>1, <2>2, <2>4 DEF Asked
  <2>5. CASE policy.mode = "off"
    BY <2>2, <2>5
  <2> QED
    BY <2>1, <2>3, <2>4, <2>5 DEF Modes
<1>3. CASE Compact
  <2>1. /\ policy' \in Policy /\ policy'.cap = policy.cap /\ policy'.mode = policy.mode
        /\ Len(policy'.subscribed) = Len(policy.subscribed)
        /\ view' \in Seq(Sessions) /\ Len(view') = Len(view)
        /\ ~ shared => view' = view
        /\ writing' \in Writings /\ writing'.kept <= writing'.read
        /\ writing'.read <= Len(policy.subscribed)
        /\ Moved(policy.subscribed)
    BY <1>3, CompactShape
  <2>2. UNCHANGED <<roster, ever, stage, listed, shared, at, cands, used, want, running, peers, frame>>
    BY <1>3 DEF Compact, remote, table, routing
  <2>3. CASE round' = round /\ policy' = policy /\ view' = view
    <3>1. Shaped'
      BY <2>1, <2>2, <2>3 DEF Shaped
    <3>2. Observed'
      BY <2>2, <2>3 DEF Observed
    <3> QED
      BY <2>1, <2>2, <2>3, <3>1, <3>2 DEF Grows
  <2>4. CASE round' = IF stage = "idle" THEN round
                      ELSE [Noted(round, roster, ever, policy') EXCEPT !.torn = @ \/ shared]
    <3>1. /\ round' \in Rounds /\ IsFiniteSet(round'.caps)
          /\ stage # "idle" =>
               /\ Grows(round, round') /\ Sees(round', roster, ever, policy')
               /\ shared => round'.torn
               /\ "off" \in round'.modes => Sessions \subseteq round'.unasked
      BY <1>1, <2>1, <2>4, Recorded
    <3>2. Shaped'
      BY <2>1, <2>2, <3>1 DEF Shaped
    <3>3. Observed'
      BY <2>1, <2>2, <3>1 DEF Observed
    <3>4. stage # "idle" /\ ~ round'.torn => view' = view
      BY <1>1, <2>1, <3>1
    <3>5. ASSUME stage # "idle", ever, NEW i \in 1..Len(view)
          PROVE  view'[i] = view[i] \/ view'[i] \in round'.asked \/ "off" \in round'.modes
      <4>1. Asked(policy) \subseteq round'.asked
        BY <3>1, <3>5 DEF Observed, Sees, Grows
      <4> QED
        BY <1>1, <1>2, <2>1, <3>1, <3>5, <4>1
    <3> QED
      BY <2>1, <2>2, <3>1, <3>2, <3>3, <3>4, <3>5
  <2> QED
    BY <1>3, <2>3, <2>4 DEF Compact
<1>4. ASSUME NEW grown \in BOOLEAN, Store(grown)
      PROVE  /\ Shaped' /\ Observed'
             /\ stage # "idle" => Grows(round, round')
             /\ (ever => ever') /\ Len(view') = Len(view)
             /\ stage # "idle" /\ ~ round'.torn => view' = view
             /\ stage # "idle" /\ ever =>
                  \A i \in 1..Len(view) : view'[i] = view[i] \/ view'[i] \in round'.asked \/ "off" \in round'.modes
             /\ UNCHANGED <<stage, listed, at, cands, used, want, running, peers, frame>>
  <2>1. /\ policy' \in Policy /\ policy'.cap = policy.cap
        /\ policy.mode = "manual" => policy'.mode = "manual"
        /\ view' \in Seq(Sessions) /\ Len(view') = Len(view)
        /\ ~ shared => view' = view
        /\ shared' => shared
        /\ policy.mode = "manual" => Moved(policy'.subscribed)
    BY <1>4, StoreShape
  <2>2. /\ UNCHANGED <<roster, ever, stage, listed, at, cands, used, want, running, peers, frame>>
        /\ writing' = Nobody /\ shared' = (shared /\ ~ grown)
        /\ round' = IF stage = "idle" THEN round
                    ELSE [Noted(round, roster, ever, policy') EXCEPT !.torn = @ \/ shared]
    BY <1>4 DEF Store, remote, table, routing
  <2>3. /\ round' \in Rounds /\ IsFiniteSet(round'.caps)
        /\ stage # "idle" =>
             /\ Grows(round, round') /\ Sees(round', roster, ever, policy')
             /\ shared => round'.torn
             /\ "off" \in round'.modes => Sessions \subseteq round'.unasked
    BY <1>1, <2>1, <2>2, Recorded
  <2>4. shared' \in BOOLEAN
    BY <1>1, <2>2
  <2>5. Shaped'
    BY <2>1, <2>2, <2>3, <2>4 DEF Shaped
  <2>6. Observed'
    BY <2>1, <2>2, <2>3 DEF Observed
  <2>7. stage # "idle" /\ ~ round'.torn => view' = view
    BY <2>1, <2>3
  <2>8. ASSUME stage # "idle", ever, NEW i \in 1..Len(view)
        PROVE  view'[i] = view[i] \/ view'[i] \in round'.asked \/ "off" \in round'.modes
    <3>1. Asked(policy') \subseteq round'.asked
      BY <2>3, <2>8 DEF Sees
    <3> QED
      BY <1>2, <2>1, <2>3, <2>8, <3>1
  <2> QED
    BY <2>1, <2>2, <2>3, <2>5, <2>6, <2>7, <2>8
<1>5. ASSUME NEW p \in Policies, Reload(p)
      PROVE  /\ Shaped' /\ Observed'
             /\ (stage # "idle" => Grows(round, round'))
             /\ UNCHANGED <<ever, view, stage, listed, at, cands, used, want, running, peers, frame>>
  <2>1. p \in Policy
    OBVIOUS
  <2>2. /\ UNCHANGED <<roster, ever, view, stage, listed, at, cands, used, want, running, peers, frame>>
        /\ writing = Nobody /\ writing' = Nobody /\ shared' = FALSE /\ policy' = p
        /\ Remember(roster, ever, p)
    BY <1>5 DEF Reload, Unlocked, remote, table, routing
  <2>3. round' = IF stage = "idle" THEN round
                 ELSE [Noted(round, roster, ever, p) EXCEPT !.torn = @ \/ FALSE]
    BY <1>1, <2>1, <2>2, Untorn
  <2>4. /\ round' \in Rounds /\ IsFiniteSet(round'.caps)
        /\ stage # "idle" =>
             /\ Grows(round, round') /\ Sees(round', roster, ever, p)
             /\ "off" \in round'.modes => Sessions \subseteq round'.unasked
    BY <1>1, <2>1, <2>3, Recorded
  <2>5. Shaped'
    BY <2>1, <2>2, <2>4 DEF Shaped
  <2> QED
    BY <2>2, <2>4, <2>5 DEF Observed
<1>6. ASSUME NEW r \in SUBSET Sessions, RosterChanges(r)
      PROVE  /\ Shaped' /\ Observed'
             /\ (stage # "idle" => Grows(round, round'))
             /\ ever' = TRUE
             /\ UNCHANGED <<view, stage, listed, at, cands, used, want, running, peers, frame>>
  <2>1. /\ UNCHANGED <<policy, writing, shared, view, stage, listed, at, cands, used, want,
                       running, peers, frame>>
        /\ roster' = r /\ ever' = TRUE /\ Remember(r, TRUE, policy)
    BY <1>6 DEF RosterChanges, settings, local, table, routing
  <2>2. round' = IF stage = "idle" THEN round
                 ELSE [Noted(round, r, TRUE, policy) EXCEPT !.torn = @ \/ FALSE]
    BY <1>1, <2>1, Untorn
  <2>3. /\ round' \in Rounds /\ IsFiniteSet(round'.caps)
        /\ stage # "idle" =>
             /\ Grows(round, round') /\ Sees(round', r, TRUE, policy)
             /\ "off" \in round'.modes => Sessions \subseteq round'.unasked
    BY <1>1, <2>2, Recorded
  <2>4. Shaped'
    BY <2>1, <2>3 DEF Shaped
  <2> QED
    BY <2>1, <2>3, <2>4 DEF Observed
<1> QED
  BY <1>3, <1>4, <1>5, <1>6 DEF World


-----------------------------------------------------------------------------
(* The decision, stage by stage.                                           *)

(* Somebody who may be promoted: seen on the roster, and asked for unless  *)
(* promotion went off on the way.                                          *)
Called(s) ==
    s \in round.listed /\ (s \in round.asked \/ "off" \in round.modes)

(* Somebody who may be passed over.                                        *)
Excused(s) == s \in round.unlisted \cup round.unasked \/ round.torn \/ round.mixed

Deciding == {"roster", "mode", "slice", "range", "count", "used", "cut"}

Started ==
    /\ stage = "idle" => want = NoPeers
    /\ stage \in {"idle", "roster", "mode", "slice"} => cands = {}
    /\ stage \in Deciding => ever /\ \E m \in round.modes : m # "off"

Reading ==
    stage \in Deciding \ {"roster"} =>
        listed \subseteq round.listed /\ Sessions \ listed \subseteq round.unlisted

(* While the poll ranges over the slice.                                   *)
Collected ==
    stage = "range" =>
        /\ \A i \in 1..Len(view) : view[i] \in round.asked \/ "off" \in round.modes
        /\ \A s \in cands : s \in round.asked \/ "off" \in round.modes
        /\ ~ (round.torn \/ round.mixed) =>
             /\ Sessions \ round.unasked \subseteq Range(view)
             /\ \A i \in 1..at : view[i] \in listed => view[i] \in cands

Candidates ==
    stage \in {"count", "used", "cut"} =>
        /\ \A s \in cands : Called(s)
        /\ \A s \in Sessions \ cands : Excused(s)

Crowded ==
    stage \in {"used", "cut"} => \E c \in round.caps : c < Cardinality(cands)

(* What was decided is sound until the round is over.                      *)
Fits ==
    /\ IsFiniteSet(DOMAIN want)
    /\ \E c \in round.caps : Cardinality(DOMAIN want \ {WorkspacePeer}) <= c
    /\ round.modes = {"off"} => DOMAIN want = {}
OnlyCalled ==
    \A n \in DOMAIN want :
        \/ n = WorkspacePeer
        \/ \E s \in Sessions : n = NameOf[s] /\ Called(s)
        \/ n = Blank /\ Cardinality(round.caps) > 1
NobodyMissed ==
    \A s \in Sessions : NameOf[s] \in DOMAIN want \/ Excused(s) \/ Outranked(s)
Decided ==
    stage \in {"start", "release"} => Fits /\ OnlyCalled /\ NobodyMissed

Decision ==
    /\ Shaped /\ Observed
    /\ Started /\ Reading /\ Collected /\ Candidates /\ Crowded /\ Decided

(* What holds of a round still holds of it when it has seen more.          *)
LEMMA OutrankedGrows ==
    ASSUME Shaped, Shaped', Grows(round, round'), used' = used,
           NEW s \in Sessions, Outranked(s)
    PROVE  Outranked(s)'
<1> DEFINE T == {t \in (round.listed \cap round.asked) \ {s} : ~ After(used, s, t)}
           U == {t \in (round'.listed \cap round'.asked) \ {s} : ~ After(used', s, t)}
<1>1. PICK c \in round.caps : Cardinality(T) >= c
  BY DEF Outranked
<1>2. T \subseteq U /\ U \subseteq Sessions /\ c \in round'.caps /\ c \in Nat
  BY DEF Grows, Shaped, Rounds, After
<1>3. IsFiniteSet(U) /\ Cardinality(U) \in Nat /\ Cardinality(T) \in Nat
  BY <1>2, FS_Subset, FS_CardinalityType, PromotionAssumption
<1>4. Cardinality(T) <= Cardinality(U)
  BY <1>2, <1>3, FS_Subset
<1>5. Cardinality(U) >= c
  BY <1>1, <1>2, <1>3, <1>4
<1> QED
  BY <1>2, <1>5 DEF Outranked

LEMMA DecidedGrows ==
    ASSUME Shaped, Shaped', Observed, Grows(round, round'), UNCHANGED <<want, used>>,
           stage # "idle", Fits, OnlyCalled, NobodyMissed
    PROVE  Fits' /\ OnlyCalled' /\ NobodyMissed'
<1>1. Fits'
  <2>1. round.modes \subseteq round'.modes /\ policy.mode \in round.modes /\ round.caps \subseteq round'.caps
    BY DEF Grows, Observed, Sees
  <2>2. round'.modes = {"off"} => round.modes = {"off"}
    BY <2>1
  <2> QED
    BY <2>1, <2>2 DEF Fits
<1>2. OnlyCalled'
  <2>1. \A s \in Sessions : Called(s) => Called(s)'
    BY DEF Called, Grows
  <2>2. Cardinality(round.caps) > 1 => Cardinality(round'.caps) > 1
    <3>1. IsFiniteSet(round'.caps) /\ round.caps \subseteq round'.caps /\ IsFiniteSet(round.caps)
      BY DEF Shaped, Grows
    <3> QED
      BY <3>1, FS_Subset, FS_CardinalityType
  <2> QED
    BY <2>1, <2>2 DEF OnlyCalled
<1>3. NobodyMissed'
  <2>1. \A s \in Sessions : Excused(s) => Excused(s)'
    BY DEF Excused, Grows
  <2>2. \A s \in Sessions : Outranked(s) => Outranked(s)'
    BY OutrankedGrows
  <2> QED
    BY <2>1, <2>2 DEF NobodyMissed
<1> QED
  BY <1>1, <1>2, <1>3


LEMMA WorldKeepsDecision ==
    ASSUME Decision, World
    PROVE  Decision'
<1>1. /\ Shaped' /\ Observed'
      /\ stage # "idle" => Grows(round, round')
      /\ (ever => ever') /\ Len(view') = Len(view)
      /\ stage # "idle" /\ ~ round'.torn => view' = view
      /\ stage # "idle" /\ ever =>
           \A i \in 1..Len(view) : view'[i] = view[i] \/ view'[i] \in round'.asked \/ "off" \in round'.modes
      /\ UNCHANGED <<stage, listed, at, cands, used, want, running, peers, frame>>
  BY WorldMoves DEF Decision
<1>2. Started'
  BY <1>1 DEF Decision, Started, Deciding, Grows
<1>3. Reading'
  BY <1>1 DEF Decision, Reading, Deciding, Grows
<1>4. Collected'
  <2> SUFFICES ASSUME stage = "range"
               PROVE  Collected'
    BY <1>1 DEF Collected
  <2>1. Grows(round, round') /\ ever /\ Collected
    BY <1>1 DEF Decision, Started, Deciding
  <2>2. ASSUME NEW i \in 1..Len(view')
        PROVE  view'[i] \in round'.asked \/ "off" \in round'.modes
    BY <1>1, <2>1, <2>2 DEF Collected, Grows
  <2>3. \A s \in cands' : s \in round'.asked \/ "off" \in round'.modes
    BY <1>1, <2>1 DEF Collected, Grows
  <2>4. ASSUME ~ (round'.torn \/ round'.mixed)
        PROVE  /\ Sessions \ round'.unasked \subseteq Range(view')
               /\ \A i \in 1..at' : view'[i] \in listed' => view'[i] \in cands'
    <3>1. view' = view /\ ~ (round.torn \/ round.mixed)
      BY <1>1, <2>1, <2>4 DEF Grows
    <3> QED
      BY <1>1, <2>1, <3>1 DEF Collected, Grows
  <2> QED
    BY <2>2, <2>3, <2>4 DEF Collected
<1>5. Candidates'
  <2> SUFFICES ASSUME stage \in {"count", "used", "cut"}
               PROVE  Candidates'
    BY <1>1 DEF Candidates
  <2>1. Grows(round, round') /\ Candidates
    BY <1>1 DEF Decision
  <2> QED
    BY <1>1, <2>1 DEF Candidates, Called, Excused, Grows
<1>6. Crowded'
  BY <1>1 DEF Decision, Crowded, Grows
<1>7. Decided'
  <2> SUFFICES ASSUME stage \in {"start", "release"}
               PROVE  Decided'
    BY <1>1 DEF Decided
  <2>1. Fits /\ OnlyCalled /\ NobodyMissed
    BY DEF Decision, Decided
  <2>2. Fits' /\ OnlyCalled' /\ NobodyMissed'
    BY <1>1, <2>1, DecidedGrows DEF Decision
  <2> QED
    BY <2>2 DEF Decided
<1> QED
  BY <1>1, <1>2, <1>3, <1>4, <1>5, <1>6, <1>7 DEF Decision

-----------------------------------------------------------------------------
(* The steps of the poll.                                                  *)

deciding == <<policy, writing, roster, ever, stage, listed, view, shared, at, cands, used,
              want, round>>

LEMMA SameDecision ==
    ASSUME Decision, UNCHANGED deciding
    PROVE  Decision'
<1> USE DEF deciding
<1>1. Shaped' /\ Observed'
  BY DEF Decision, Shaped, Observed
<1>2. Started' /\ Reading' /\ Collected' /\ Candidates' /\ Crowded'
  BY DEF Decision, Started, Reading, Collected, Candidates, Called, Excused, Crowded
<1>3. Decided'
  BY DEF Decision, Decided, Fits, OnlyCalled, Called, NobodyMissed, Excused, Outranked, After
<1> QED
  BY <1>1, <1>2, <1>3 DEF Decision

(* What a first look at a transport never accepted, or at promotion that   *)
(* is off, decides is that there is nobody.                                *)
LEMMA LookDecides ==
    ASSUME Decision, Look
    PROVE  Decision'
<1> DEFINE g == Noted(NoRound, roster, ever, policy)
<1> USE PromotionAssumption
<1>1. /\ policy \in Policy /\ roster \in SUBSET Sessions /\ ever \in BOOLEAN
      /\ stage = "idle" /\ want = NoPeers /\ cands = {} /\ at = 0
      /\ policy.cap \in Nat
  BY DEF Decision, Shaped, Started, Look, Policy
<1>2. /\ UNCHANGED <<policy, writing, roster, ever, listed, view, shared, at, cands, used, want>>
      /\ stage' = (IF ever /\ policy.mode # "off" THEN "roster" ELSE "start")
      /\ round' = g
  BY DEF Look, settings, remote, local
<1>3. NoRound \in Rounds /\ IsFiniteSet(NoRound.caps) /\ "off" \notin NoRound.modes
  BY FS_EmptySet DEF NoRound, Rounds
<1>4. /\ g \in Rounds /\ IsFiniteSet(g.caps) /\ Sees(g, roster, ever, policy)
      /\ "off" \in g.modes => Sessions \subseteq g.unasked
  BY <1>1, <1>3, NotedSees
<1>5. g.modes = {policy.mode}
  BY DEF NoRound, Noted
<1> HIDE DEF g
<1>6. Shaped' /\ Observed'
  <2>1. Shaped'
    BY <1>1, <1>2, <1>4 DEF Decision, Shaped, Stages
  <2>2. Observed'
    BY <1>2, <1>4 DEF Decision, Observed
  <2> QED
    BY <2>1, <2>2
<1>7. CASE ever /\ policy.mode # "off"
  <2>1. stage' = "roster"
    BY <1>2, <1>7
  <2>2. Started' /\ Reading' /\ Collected' /\ Candidates' /\ Crowded' /\ Decided'
    BY <1>1, <1>2, <1>5, <1>7, <2>1
       DEF Started, Deciding, Reading, Collected, Candidates, Crowded, Decided
  <2> QED
    BY <1>6, <2>2 DEF Decision
<1>8. CASE ~ (ever /\ policy.mode # "off")
  <2>1. stage' = "start" /\ want' = NoPeers
    BY <1>1, <1>2, <1>8
  <2>2. Started' /\ Reading' /\ Collected' /\ Candidates' /\ Crowded'
    BY <2>1 DEF Started, Deciding, Reading, Collected, Candidates, Crowded
  <2>3. DOMAIN want' = {}
    BY <2>1 DEF NoPeers
  <2>4. Fits'
    <3>1. IsFiniteSet(DOMAIN want') /\ Cardinality(DOMAIN want' \ {WorkspacePeer}) = 0
      BY <2>3, FS_EmptySet
    <3>2. policy.cap \in round'.caps /\ 0 <= policy.cap
      BY <1>1, <1>2, <1>4 DEF Sees
    <3> QED
      BY <2>3, <3>1, <3>2 DEF Fits
  <2>5. OnlyCalled'
    BY <2>3 DEF OnlyCalled
  <2>6. Sessions \subseteq round'.unasked
    BY <1>1, <1>2, <1>4, <1>5, <1>8 DEF Sees
  <2>7. NobodyMissed'
    BY <2>6 DEF NobodyMissed, Excused
  <2> QED
    BY <1>6, <2>1, <2>2, <2>4, <2>5, <2>7 DEF Decision, Decided
<1> QED
  BY <1>7, <1>8


LEMMA ReadRosterDecides ==
    ASSUME Decision, ReadRoster
    PROVE  Decision'
<1>1. /\ UNCHANGED <<policy, writing, roster, ever, view, shared, at, cands, used, want, round>>
      /\ stage = "roster" /\ stage' = "mode" /\ listed' = roster
  BY DEF ReadRoster, GoTo, settings, remote
<1>2. /\ cands = {} /\ at = 0 /\ ever /\ (\E m \in round.modes : m # "off")
      /\ roster \subseteq round.listed /\ Sessions \ roster \subseteq round.unlisted
  BY <1>1 DEF Decision, Started, Deciding, Shaped, Observed, Sees
<1>3. Shaped' /\ Observed'
  BY <1>1, <1>2 DEF Decision, Shaped, Observed, Stages
<1>4. Started' /\ Reading' /\ Collected' /\ Candidates' /\ Crowded' /\ Decided'
  BY <1>1, <1>2 DEF Started, Reading, Collected, Candidates, Crowded, Decided, Deciding
<1> QED
  BY <1>3, <1>4 DEF Decision

LEMMA ReadModeDecides ==
    ASSUME Decision, ReadMode
    PROVE  Decision'
<1> USE PromotionAssumption
<1>1. /\ UNCHANGED <<policy, writing, roster, ever, listed, view, shared, at, used, want, round>>
      /\ stage = "mode"
      /\ IF policy.mode = "manual"
           THEN stage' = "slice" /\ cands' = cands
           ELSE stage' = "count" /\ cands' = listed
  BY DEF ReadMode, settings, remote
<1>2. /\ cands = {} /\ at = 0 /\ ever /\ (\E m \in round.modes : m # "off")
      /\ listed \subseteq round.listed /\ Sessions \ listed \subseteq round.unlisted
      /\ listed \subseteq Sessions /\ policy \in Policy
  BY <1>1 DEF Decision, Started, Deciding, Shaped, Reading
<1>3. /\ Asked(policy) \subseteq round.asked /\ Sessions \ Asked(policy) \subseteq round.unasked
      /\ policy.mode \in round.modes
  BY <1>1, <1>2 DEF Decision, Observed, Sees
<1>4. Shaped' /\ Observed'
  BY <1>1, <1>2 DEF Decision, Shaped, Observed, Stages
<1>5. Started' /\ Reading' /\ Collected' /\ Crowded' /\ Decided'
  BY <1>1, <1>2 DEF Started, Reading, Collected, Crowded, Decided, Deciding
<1>6. CASE policy.mode = "manual"
  <2>1. Candidates'
    BY <1>1, <1>6 DEF Candidates
  <2> QED
    BY <1>4, <1>5, <2>1 DEF Decision
<1>7. CASE policy.mode # "manual"
  <2>1. policy.mode = "off" \/ Asked(policy) = Sessions
    BY <1>2, <1>7 DEF Asked, Policy, Modes
  <2>2. Candidates'
    BY <1>1, <1>2, <1>3, <1>7, <2>1 DEF Candidates, Called, Excused
  <2> QED
    BY <1>4, <1>5, <2>2 DEF Decision
<1> QED
  BY <1>6, <1>7

(* The list that is read belongs to the mode, or the round is mixed.       *)
LEMMA ReadSliceDecides ==
    ASSUME Decision, ReadSlice
    PROVE  Decision'
<1> USE PromotionAssumption
<1>1. /\ UNCHANGED <<policy, writing, roster, ever, listed, at, cands, used, want>>
      /\ stage = "slice" /\ stage' = "range"
      /\ view' = policy.subscribed /\ shared' = TRUE
      /\ round' = [round EXCEPT !.mixed = policy.mode # "manual"]
  BY DEF ReadSlice, GoTo, settings, remote
<1>2. /\ cands = {} /\ at = 0 /\ ever /\ (\E m \in round.modes : m # "off")
      /\ listed \subseteq round.listed /\ Sessions \ listed \subseteq round.unlisted
      /\ listed \subseteq Sessions /\ round \in Rounds
      /\ policy \in Policy /\ policy.subscribed \in Seq(Sessions) /\ policy.mode \in Modes
  BY <1>1 DEF Decision, Started, Deciding, Shaped, Reading, Policy
<1>3. /\ Asked(policy) \subseteq round.asked /\ Sessions \ Asked(policy) \subseteq round.unasked
      /\ policy.mode \in round.modes
  BY <1>1, <1>2 DEF Decision, Observed, Sees
<1>4. /\ round' \in Rounds /\ round'.mixed = (policy.mode # "manual")
      /\ round'.listed = round.listed /\ round'.unlisted = round.unlisted
      /\ round'.asked = round.asked /\ round'.unasked = round.unasked
      /\ round'.caps = round.caps /\ round'.modes = round.modes /\ round'.torn = round.torn
  BY <1>1, <1>2 DEF Rounds
<1>5. Shaped'
  <2>1. 0 \in 0..Len(policy.subscribed) /\ "range" \in Stages /\ TRUE \in BOOLEAN
    BY <1>2 DEF Stages
  <2>2. view' \in Seq(Sessions) /\ at' \in 0..Len(view') /\ shared' \in BOOLEAN
        /\ at' = 0 /\ stage' \in Stages /\ cands' \subseteq listed'
    BY <1>1, <1>2, <2>1
  <2> QED
    BY <1>1, <1>4, <2>2 DEF Decision, Shaped
<1>6. Observed'
  BY <1>1, <1>4 DEF Decision, Observed, Sees
<1>7. Started' /\ Reading' /\ Candidates' /\ Crowded' /\ Decided'
  BY <1>1, <1>2, <1>4 DEF Started, Reading, Candidates, Crowded, Decided, Deciding
<1>8. Collected'
  <2>1. \A i \in 1..Len(policy.subscribed) :
           policy.subscribed[i] \in Range(policy.subscribed) /\ policy.subscribed[i] \in Sessions
    BY <1>2 DEF Range
  <2>2. \/ policy.mode = "manual" /\ Asked(policy) = Range(policy.subscribed)
        \/ policy.mode = "auto" /\ Asked(policy) = Sessions
        \/ policy.mode = "off"
    BY <1>2 DEF Asked, Modes
  <2>3. \A i \in 1..Len(view') : view'[i] \in round'.asked \/ "off" \in round'.modes
    <3> SUFFICES ASSUME NEW i \in 1..Len(policy.subscribed)
                 PROVE  policy.subscribed[i] \in round.asked \/ "off" \in round.modes
      BY <1>1, <1>4
    <3> QED
      BY <1>3, <2>1, <2>2
  <2>4. ~ round'.mixed => Sessions \ round'.unasked \subseteq Range(view')
    <3>1. Sessions \ round.unasked \subseteq Asked(policy)
      BY <1>3
    <3>2. policy.mode = "manual" => Asked(policy) = Range(policy.subscribed)
      BY <2>2
    <3> QED
      BY <1>1, <1>4, <3>1, <3>2
  <2>5. cands' = {} /\ \A i \in 1..at' : FALSE
    BY <1>1, <1>2
  <2> QED
    BY <2>3, <2>4, <2>5 DEF Collected
<1> QED
  BY <1>5, <1>6, <1>7, <1>8 DEF Decision

LEMMA RangeOverDecides ==
    ASSUME Decision, RangeOver
    PROVE  Decision'
<1>1. /\ UNCHANGED <<policy, writing, roster, ever, stage, listed, view, shared, used, want, round>>
      /\ stage = "range" /\ at < Len(view) /\ at' = at + 1
      /\ cands' = cands \cup ({view[at + 1]} \cap listed)
  BY DEF RangeOver, settings, remote
<1>2. /\ view \in Seq(Sessions) /\ at \in 0..Len(view) /\ at + 1 \in 1..Len(view)
      /\ cands \subseteq listed /\ Collected
  BY <1>1 DEF Decision, Shaped
<1>3. Shaped'
  BY <1>1, <1>2 DEF Decision, Shaped
<1>4. Observed'
  BY <1>1 DEF Decision, Observed
<1>5. Started' /\ Reading' /\ Candidates' /\ Crowded' /\ Decided'
  BY <1>1 DEF Decision, Started, Reading, Candidates, Crowded, Decided, Deciding
<1>6. Collected'
  <2>1. \A s \in cands' : s \in round'.asked \/ "off" \in round'.modes
    BY <1>1, <1>2 DEF Collected
  <2>2. \A i \in 1..at' : i \in 1..at \/ i = at + 1
    BY <1>1, <1>2
  <2>3. ~ (round.torn \/ round.mixed) => \A i \in 1..at' : view[i] \in listed => view[i] \in cands'
    BY <1>1, <1>2, <2>2 DEF Collected
  <2> QED
    BY <1>1, <1>2, <2>1, <2>3 DEF Collected
<1> QED
  BY <1>3, <1>4, <1>5, <1>6 DEF Decision

LEMMA RangeEndsDecides ==
    ASSUME Decision, RangeEnds
    PROVE  Decision'
<1>1. /\ UNCHANGED <<policy, writing, roster, ever, listed, cands, used, want, round>>
      /\ stage = "range" /\ stage' = "count" /\ at = Len(view)
      /\ view' = <<>> /\ shared' = FALSE /\ at' = 0
  BY DEF RangeEnds, GoTo, settings, remote
<1>2. /\ view \in Seq(Sessions) /\ cands \subseteq listed /\ listed \subseteq Sessions
      /\ listed \subseteq round.listed /\ Sessions \ listed \subseteq round.unlisted /\ Collected
  BY <1>1 DEF Decision, Shaped, Reading, Deciding
<1>3. Shaped'
  <2>1. <<>> \in Seq(Sessions) /\ 0 \in 0..Len(<<>>)
    OBVIOUS
  <2> QED
    BY <1>1, <2>1 DEF Decision, Shaped, Stages
<1>4. Observed'
  BY <1>1 DEF Decision, Observed
<1>5. Started' /\ Reading' /\ Collected' /\ Crowded' /\ Decided'
  BY <1>1 DEF Decision, Started, Reading, Collected, Crowded, Decided, Deciding
<1>6. Candidates'
  <2>1. \A s \in cands : Called(s)
    BY <1>1, <1>2 DEF Collected, Called
  <2>2. ASSUME NEW s \in Sessions \ cands
        PROVE  Excused(s)
    <3> SUFFICES ASSUME ~ (round.torn \/ round.mixed), s \notin round.unasked, s \in listed
                 PROVE  FALSE
      BY <1>2 DEF Excused
    <3>1. PICK i \in DOMAIN view : view[i] = s
      BY <1>1, <1>2 DEF Collected, Range
    <3>2. i \in 1..at
      BY <1>1, <1>2
    <3> QED
      BY <1>1, <1>2, <2>2, <3>1, <3>2 DEF Collected
  <2> QED
    BY <1>1, <2>1, <2>2 DEF Candidates, Called, Excused
<1> QED
  BY <1>3, <1>4, <1>5, <1>6 DEF Decision


(* The peers for a set of sessions: one each and the one for everybody.    *)
LEMMA PeersForSessions ==
    ASSUME NEW K \in SUBSET Sessions
    PROVE  /\ DOMAIN PeersFor(K) = {WorkspacePeer} \cup {NameOf[s] : s \in K}
           /\ \A n \in DOMAIN PeersFor(K) :
                /\ n \in Names /\ PeersFor(K)[n] \in K \cup {Everybody}
                /\ PeersFor(K)[n] # Everybody => n = NameOf[PeersFor(K)[n]]
           /\ IsFiniteSet(K) /\ Cardinality(K) \in Nat
           /\ IsFiniteSet({NameOf[s] : s \in K})
           /\ Cardinality({NameOf[s] : s \in K}) <= Cardinality(K)
           /\ Cardinality({NameOf[s] : s \in K}) \in Nat
<1> USE PromotionAssumption
<1> DEFINE N == {NameOf[s] : s \in K}
           f == [s \in K |-> NameOf[s]]
<1>1. IsFiniteSet(K) /\ Cardinality(K) \in Nat
  BY FS_Subset, FS_CardinalityType
<1>2. f \in Surjection(K, N)
  BY DEF Surjection
<1>3. IsFiniteSet(N) /\ Cardinality(N) <= Cardinality(K)
  <2> HIDE DEF f, N
  <2> QED
    BY <1>1, <1>2, FS_Surjection
<1>4. Cardinality(N) \in Nat
  BY <1>3, FS_CardinalityType
<1>5. DOMAIN PeersFor(K) = {WorkspacePeer} \cup N
  BY DEF PeersFor
<1>6. ASSUME NEW n \in DOMAIN PeersFor(K)
      PROVE  /\ n \in Names /\ PeersFor(K)[n] \in K \cup {Everybody}
             /\ PeersFor(K)[n] # Everybody => n = NameOf[PeersFor(K)[n]]
  <2>1. CASE n = WorkspacePeer
    BY <2>1 DEF PeersFor, Names
  <2>2. CASE n # WorkspacePeer
    <3>1. n \in N
      BY <1>5, <2>2
    <3>2. \E s \in K : NameOf[s] = n
      BY <3>1
    <3>3. (CHOOSE s \in K : NameOf[s] = n) \in K /\ NameOf[CHOOSE s \in K : NameOf[s] = n] = n
      BY <3>2
    <3>4. PeersFor(K)[n] = CHOOSE s \in K : NameOf[s] = n
      BY <1>5, <1>6, <2>2 DEF PeersFor
    <3> QED
      BY <3>2, <3>3, <3>4 DEF Names
  <2> QED
    BY <2>1, <2>2
<1> QED
  BY <1>1, <1>3, <1>4, <1>5, <1>6

(* Whoever is chosen among the candidates, no more than a cap allows.      *)
Untouched ==
    UNCHANGED <<policy, writing, roster, ever, listed, view, shared, at, cands, used, round>>

LEMMA ChosenFits ==
    ASSUME Decision, NEW K \in SUBSET cands, want' = PeersFor(K), Untouched,
           stage \in {"count", "used", "cut"}, NEW c \in round.caps, Cardinality(K) <= c
    PROVE  Fits' /\ OnlyCalled'
<1> USE PromotionAssumption
<1> DEFINE N == {NameOf[s] : s \in K}
<1>1. /\ cands \subseteq Sessions /\ round' = round /\ round.caps \subseteq Nat
      /\ Candidates /\ \E m \in round.modes : m # "off"
  BY DEF Decision, Shaped, Started, Deciding, Untouched, Rounds
<1>2. /\ DOMAIN want' = {WorkspacePeer} \cup N /\ IsFiniteSet(N) /\ Cardinality(K) \in Nat
      /\ Cardinality(N) <= Cardinality(K) /\ Cardinality(N) \in Nat
  BY <1>1, PeersForSessions
<1>3. Fits'
  <2>1. IsFiniteSet(DOMAIN want')
    BY <1>2, FS_AddElement
  <2>2. DOMAIN want' \ {WorkspacePeer} \subseteq N
    BY <1>2
  <2>3. /\ Cardinality(DOMAIN want' \ {WorkspacePeer}) <= Cardinality(N)
        /\ Cardinality(DOMAIN want' \ {WorkspacePeer}) \in Nat
    BY <1>2, <2>2, FS_Subset, FS_CardinalityType
  <2>4. c \in round'.caps /\ c \in Nat
    BY <1>1
  <2>5. Cardinality(DOMAIN want' \ {WorkspacePeer}) <= c
    BY <1>2, <2>3, <2>4
  <2>6. round'.modes # {"off"}
    BY <1>1
  <2> QED
    BY <2>1, <2>4, <2>5, <2>6 DEF Fits
<1>4. OnlyCalled'
  BY <1>1, <1>2 DEF OnlyCalled, Candidates, Called
<1> QED
  BY <1>3, <1>4

LEMMA AllFitDecides ==
    ASSUME Decision, AllFit
    PROVE  Decision'
<1>1. /\ Untouched /\ stage = "count" /\ stage' = "start"
      /\ Cardinality(cands) <= policy.cap /\ want' = PeersFor(cands)
  BY DEF AllFit, GoTo, settings, remote, Untouched
<1>2. policy.cap \in round.caps /\ cands \subseteq Sessions
  BY <1>1 DEF Decision, Shaped, Observed, Sees
<1>3. Shaped' /\ Observed'
  BY <1>1 DEF Decision, Shaped, Observed, Untouched, Stages
<1>4. Started' /\ Reading' /\ Collected' /\ Candidates' /\ Crowded'
  BY <1>1 DEF Started, Reading, Collected, Candidates, Crowded, Deciding
<1>5. Fits' /\ OnlyCalled'
  BY <1>1, <1>2, ChosenFits
<1>6. NobodyMissed'
  <2>1. DOMAIN want' = {WorkspacePeer} \cup {NameOf[s] : s \in cands}
    BY <1>1, <1>2, PeersForSessions
  <2>2. round' = round /\ Candidates
    BY <1>1 DEF Decision, Untouched
  <2> QED
    BY <1>1, <2>1, <2>2 DEF NobodyMissed, Candidates, Excused
<1> QED
  BY <1>3, <1>4, <1>5, <1>6 DEF Decision, Decided

LEMMA CountedDecides ==
    ASSUME Decision, TooMany \/ CopyUsed \/ CutPanics
    PROVE  Decision'
<1>1. /\ UNCHANGED <<policy, writing, roster, ever, listed, view, shared, at, cands, want, round>>
      /\ \/ stage = "count" /\ stage' = "used" /\ Cardinality(cands) > policy.cap
         \/ stage = "used" /\ stage' = "cut"
         \/ stage = "cut" /\ stage' = "dead"
  BY DEF TooMany, CopyUsed, CutPanics, GoTo, settings, remote, local
<1>2. policy.cap \in round.caps
  BY <1>1 DEF Decision, Observed, Sees
<1>3. Shaped' /\ Observed'
  BY <1>1 DEF Decision, Shaped, Observed, Stages
<1>4. Started' /\ Reading' /\ Collected' /\ Decided'
  BY <1>1 DEF Decision, Started, Reading, Collected, Decided, Deciding
<1>5. Candidates'
  BY <1>1 DEF Decision, Candidates, Called, Excused
<1>6. Crowded'
  <2>1. CASE stage = "count"
    <3>1. cands \subseteq Sessions /\ policy.cap \in Nat
      BY DEF Decision, Shaped, Policy
    <3>2. Cardinality(cands) \in Nat
      BY <3>1, PeersForSessions
    <3>3. policy.cap < Cardinality(cands)
      BY <1>1, <2>1, <3>1, <3>2
    <3> QED
      BY <1>1, <1>2, <3>3 DEF Crowded
  <2>2. CASE stage # "count"
    BY <1>1, <2>2 DEF Decision, Crowded
  <2> QED
    BY <2>1, <2>2
<1> QED
  BY <1>3, <1>4, <1>5, <1>6 DEF Decision

LEMMA CutDecides ==
    ASSUME Decision, Cut
    PROVE  Decision'
<1>1. /\ Untouched /\ stage = "cut" /\ stage' = "start"
      /\ policy.cap <= Cardinality(cands)
      /\ \E K \in Kept(cands, policy.cap, used) : want' = PeersFor(K)
  BY DEF Cut, GoTo, settings, remote, Untouched
<1>2. PICK K \in Kept(cands, policy.cap, used) : want' = PeersFor(K)
  BY <1>1
<1>3. /\ K \subseteq cands /\ Cardinality(K) = policy.cap
      /\ \A t \in K, s \in cands \ K : ~ After(used, s, t)
  BY DEF Kept
<1>4. /\ policy.cap \in round.caps /\ policy.cap \in Nat /\ cands \subseteq Sessions
      /\ round \in Rounds
      /\ "off" \in round.modes => Sessions \subseteq round.unasked
  BY <1>1 DEF Decision, Shaped, Observed, Sees, Policy
<1>5. Shaped' /\ Observed'
  BY <1>1 DEF Decision, Shaped, Observed, Untouched, Stages
<1>6. Started' /\ Reading' /\ Collected' /\ Candidates' /\ Crowded'
  BY <1>1 DEF Started, Reading, Collected, Candidates, Crowded, Deciding
<1>7. Fits' /\ OnlyCalled'
  BY <1>1, <1>2, <1>3, <1>4, ChosenFits
<1>8. NobodyMissed'
  <2> SUFFICES ASSUME NEW s \in Sessions
               PROVE  NameOf[s] \in DOMAIN want' \/ Excused(s)' \/ Outranked(s)'
    BY DEF NobodyMissed
  <2>1. UNCHANGED <<round, used>> /\ Candidates
    BY <1>1 DEF Decision, Untouched
  <2>2. CASE s \in K
    <3>1. K \in SUBSET Sessions
      BY <1>3, <1>4
    <3>2. DOMAIN PeersFor(K) = {WorkspacePeer} \cup {NameOf[t] : t \in K}
      BY <3>1, PeersForSessions
    <3> QED
      BY <1>2, <2>2, <3>2
  <2>3. CASE s \notin cands
    BY <1>1, <2>1, <2>3 DEF Candidates, Excused
  <2>4. CASE s \in cands \ K /\ "off" \in round.modes
    BY <1>4, <2>1, <2>4 DEF Excused
  <2>5. CASE s \in cands \ K /\ "off" \notin round.modes
    <3> DEFINE T == {t \in (round.listed \cap round.asked) \ {s} : ~ After(used, s, t)}
    <3>1. \A t \in cands : t \in round.listed \cap round.asked
      BY <1>1, <2>1, <2>5 DEF Candidates, Called
    <3>2. K \subseteq T /\ T \subseteq Sessions
      BY <1>3, <1>4, <2>5, <3>1 DEF Rounds
    <3>3. IsFiniteSet(T) /\ Cardinality(T) \in Nat
      BY <3>2, PeersForSessions
    <3>4. Cardinality(T) >= policy.cap
      BY <1>3, <1>4, <3>2, <3>3, FS_Subset
    <3> QED
      BY <1>4, <2>1, <3>4 DEF Outranked, After
  <2> QED
    BY <2>2, <2>3, <2>4, <2>5
<1> QED
  BY <1>1, <1>5, <1>6, <1>7, <1>8 DEF Decision, Decided


LEMMA TwoOfThem ==
    ASSUME NEW C, IsFiniteSet(C), NEW a \in C, NEW b \in C, a # b
    PROVE  Cardinality(C) > 1
<1>1. IsFiniteSet({a}) /\ Cardinality({a}) = 1
  BY FS_Singleton
<1>2. Cardinality({a} \cup {b}) = 2
  BY <1>1, FS_AddElement
<1>3. /\ {a} \cup {b} \subseteq C /\ Cardinality(C) \in Nat
      /\ Cardinality({a} \cup {b}) <= Cardinality(C)
  BY FS_Subset, FS_CardinalityType
<1> QED
  BY <1>2, <1>3

(* A cap that grew while it was read again.                                *)
LEMMA CutBlankDecides ==
    ASSUME Decision, CutBlank
    PROVE  Decision'
<1> USE PromotionAssumption
<1> DEFINE N == {NameOf[s] : s \in cands}
<1>1. /\ Untouched /\ stage = "cut" /\ stage' = "start"
      /\ policy.cap > Cardinality(cands)
      /\ want' = [n \in {Blank} \cup DOMAIN PeersFor(cands) |->
                    IF n = Blank THEN Everybody ELSE PeersFor(cands)[n]]
  BY DEF CutBlank, GoTo, settings, remote, Untouched
<1>2. /\ policy.cap \in round.caps /\ cands \subseteq Sessions /\ round' = round
      /\ policy.cap \in Nat /\ IsFiniteSet(round.caps) /\ round.caps \subseteq Nat
      /\ \E m \in round.modes : m # "off"
      /\ Candidates /\ Crowded
  BY <1>1 DEF Decision, Shaped, Observed, Sees, Started, Deciding, Untouched, Rounds, Policy
<1>3. /\ DOMAIN PeersFor(cands) = {WorkspacePeer} \cup N
      /\ IsFiniteSet(N) /\ Cardinality(N) <= Cardinality(cands)
      /\ Cardinality(N) \in Nat /\ Cardinality(cands) \in Nat
  BY <1>2, PeersForSessions
<1>4. DOMAIN want' = {Blank} \cup ({WorkspacePeer} \cup N)
  BY <1>1, <1>3
<1> HIDE DEF N
<1>5. Shaped' /\ Observed'
  BY <1>1 DEF Decision, Shaped, Observed, Untouched, Stages
<1>6. Started' /\ Reading' /\ Collected' /\ Candidates' /\ Crowded'
  BY <1>1 DEF Started, Reading, Collected, Candidates, Crowded, Deciding
<1>7. Fits'
  <2>1. IsFiniteSet(DOMAIN want')
    <3>1. IsFiniteSet(N \cup {Blank})
      BY <1>3, FS_AddElement
    <3>2. IsFiniteSet((N \cup {Blank}) \cup {WorkspacePeer})
      BY <3>1, FS_AddElement
    <3>3. DOMAIN want' = (N \cup {Blank}) \cup {WorkspacePeer}
      BY <1>4
    <3> QED
      BY <3>2, <3>3
  <2>2. IsFiniteSet(N \cup {Blank}) /\ Cardinality(N \cup {Blank}) <= Cardinality(N) + 1
    <3>1. IsFiniteSet(N \cup {Blank})
          /\ Cardinality(N \cup {Blank}) =
               IF Blank \in N THEN Cardinality(N) ELSE Cardinality(N) + 1
      BY <1>3, FS_AddElement
    <3> QED
      BY <1>3, <3>1
  <2>3. DOMAIN want' \ {WorkspacePeer} \subseteq N \cup {Blank}
    BY <1>4
  <2>4. /\ Cardinality(DOMAIN want' \ {WorkspacePeer}) <= Cardinality(N \cup {Blank})
        /\ Cardinality(DOMAIN want' \ {WorkspacePeer}) \in Nat
        /\ Cardinality(N \cup {Blank}) \in Nat
    BY <2>2, <2>3, FS_Subset, FS_CardinalityType
  <2>5. Cardinality(DOMAIN want' \ {WorkspacePeer}) <= policy.cap
    BY <1>1, <1>2, <1>3, <2>2, <2>4
  <2>6. round'.modes # {"off"}
    BY <1>2
  <2> QED
    BY <1>2, <2>1, <2>5, <2>6 DEF Fits
<1>8. OnlyCalled'
  <2>1. PICK c \in round.caps : c < Cardinality(cands)
    BY <1>1, <1>2 DEF Crowded
  <2>2. c # policy.cap /\ c \in Nat
    BY <1>1, <1>2, <1>3, <2>1
  <2>4. Cardinality(round.caps) > 1
    BY <1>2, <2>1, <2>2, TwoOfThem
  <2>5. \A n \in N : \E s \in Sessions : n = NameOf[s] /\ Called(s)
    BY <1>1, <1>2 DEF N, Candidates
  <2> QED
    BY <1>2, <1>4, <2>4, <2>5 DEF OnlyCalled, Called
<1>9. NobodyMissed'
  <2>1. \A s \in cands : NameOf[s] \in DOMAIN want'
    BY <1>4 DEF N
  <2> QED
    BY <1>1, <1>2, <2>1 DEF NobodyMissed, Candidates, Excused
<1> QED
  BY <1>1, <1>5, <1>6, <1>7, <1>8, <1>9 DEF Decision, Decided

LEMMA ReconcileDecides ==
    ASSUME Decision, Ensure \/ (\E n \in Names : Release(n)) \/ Publish
    PROVE  Decision'
<1>1. CASE Ensure
  <2>1. /\ UNCHANGED <<policy, writing, roster, ever, listed, view, shared, at, cands, used,
                       want, round>>
        /\ stage = "start" /\ stage' = "release"
    BY <1>1 DEF Ensure, GoTo, settings, remote, local
  <2>2. Shaped' /\ Observed'
    BY <2>1 DEF Decision, Shaped, Observed, Stages
  <2>3. Started' /\ Reading' /\ Collected' /\ Candidates' /\ Crowded'
    BY <2>1 DEF Started, Reading, Collected, Candidates, Crowded, Deciding
  <2>4. Decided'
    BY <2>1 DEF Decision, Decided, Fits, OnlyCalled, Called, NobodyMissed, Excused, Outranked, After
  <2> QED
    BY <2>2, <2>3, <2>4 DEF Decision
<1>2. CASE \E n \in Names : Release(n)
  <2>1. UNCHANGED deciding
    BY <1>2 DEF Release, deciding, settings, remote, local
  <2> QED
    BY <2>1, SameDecision
<1>3. CASE Publish
  <2>1. /\ UNCHANGED <<policy, writing, roster, ever, view, shared, at>>
        /\ stage = "release" /\ stage' = "idle"
        /\ listed' = {} /\ cands' = {} /\ want' = NoPeers /\ round' = NoRound
    BY <1>3 DEF Publish, GoTo, settings, remote
  <2>2. NoRound \in Rounds /\ IsFiniteSet(NoRound.caps)
    BY FS_EmptySet DEF NoRound, Rounds
  <2>3. Shaped' /\ Observed'
    BY <2>1, <2>2 DEF Decision, Shaped, Observed, Stages
  <2>4. Started' /\ Reading' /\ Collected' /\ Candidates' /\ Crowded' /\ Decided'
    BY <2>1 DEF Started, Reading, Collected, Candidates, Crowded, Decided, Deciding
  <2> QED
    BY <2>3, <2>4 DEF Decision
<1> QED
  BY <1>1, <1>2, <1>3

LEMMA DecisionStarts == Init => Decision
<1> SUFFICES ASSUME Init
             PROVE  Decision
  OBVIOUS
<1> USE PromotionAssumption
<1>1. /\ policy \in Policy /\ writing = Nobody /\ roster = {} /\ ever = FALSE /\ stage = "idle"
      /\ listed = {} /\ view = <<>> /\ shared = FALSE /\ at = 0 /\ cands = {} /\ want = NoPeers
      /\ round = NoRound
  BY DEF Init
<1>2. NoRound \in Rounds /\ IsFiniteSet(NoRound.caps)
  BY FS_EmptySet DEF NoRound, Rounds
<1>3. Shaped /\ Observed
  <2>1. <<>> \in Seq(Sessions) /\ 0 \in 0..Len(<<>>) /\ FALSE \in BOOLEAN
    OBVIOUS
  <2>2. view \in Seq(Sessions) /\ at \in 0..Len(view) /\ shared \in BOOLEAN /\ ever \in BOOLEAN
    BY <1>1, <2>1
  <2>3. round \in Rounds /\ IsFiniteSet(round.caps) /\ stage \in Stages
    BY <1>1, <1>2 DEF Stages
  <2> QED
    BY <1>1, <2>2, <2>3 DEF Shaped, Observed
<1>4. Started /\ Reading /\ Collected /\ Candidates /\ Crowded /\ Decided
  BY <1>1 DEF Started, Reading, Collected, Candidates, Crowded, Decided, Deciding
<1> QED
  BY <1>3, <1>4 DEF Decision

LEMMA SubscribeDecides ==
    ASSUME Decision, NEW s \in Sessions, NEW wish \in BOOLEAN, Subscribe(s, wish)
    PROVE  Decision'
<1>1. /\ UNCHANGED <<policy, roster, ever, stage, listed, view, shared, at, cands, used, want, round>>
      /\ writing' = [session |-> s, want |-> wish, read |-> 0, kept |-> 0]
  BY DEF Subscribe, remote, local
<1>2. /\ writing' \in Writings /\ writing'.kept = 0 /\ writing'.read = 0
      /\ Len(policy.subscribed) \in Nat
  BY <1>1 DEF Decision, Shaped, Policy, Writings
<1>3. Shaped'
  BY <1>1, <1>2 DEF Decision, Shaped
<1>4. Observed'
  BY <1>1 DEF Decision, Observed
<1>5. Started' /\ Reading' /\ Collected' /\ Candidates' /\ Crowded'
  BY <1>1 DEF Decision, Started, Reading, Collected, Candidates, Called, Excused, Crowded
<1>6. Decided'
  BY <1>1 DEF Decision, Decided, Fits, OnlyCalled, Called, NobodyMissed, Excused, Outranked, After
<1> QED
  BY <1>3, <1>4, <1>5, <1>6 DEF Decision

LEMMA DecisionHolds == Decision /\ [Next]_vars => Decision'
<1> SUFFICES ASSUME Decision, [Next]_vars
             PROVE  Decision'
  OBVIOUS
<1>1. CASE Poll
  BY <1>1, LookDecides, ReadRosterDecides, ReadModeDecides, ReadSliceDecides,
     RangeOverDecides, RangeEndsDecides,
     AllFitDecides, CountedDecides, CutDecides, CutBlankDecides, ReconcileDecides DEF Poll
<1>2. CASE World
  BY <1>2, WorldKeepsDecision
<1>3. CASE Router
  <2>1. UNCHANGED deciding
    BY <1>3 DEF Router, RoutePeer, RouteMention, Hand, deciding, settings, remote, local
  <2> QED
    BY <2>1, SameDecision
<1>4. ASSUME NEW s \in Sessions, NEW wish \in BOOLEAN, Subscribe(s, wish)
      PROVE  Decision'
  BY <1>4, SubscribeDecides
<1>5. ASSUME NEW s \in Sessions, Used(s) \/ RememberSender(s)
      PROVE  Decision'
  <2>1. UNCHANGED deciding
    BY <1>5 DEF Used, RememberSender, deciding, settings, remote, local
  <2> QED
    BY <2>1, SameDecision
<1>6. ASSUME NEW n \in Names, NEW m \in Sessions \cup {Nobody}, Write(n, m)
      PROVE  Decision'
  <2>1. UNCHANGED deciding
    BY <1>6 DEF Write, deciding, settings, remote, local
  <2> QED
    BY <2>1, SameDecision
<1>7. CASE UNCHANGED vars
  <2>1. UNCHANGED deciding
    BY <1>7 DEF vars, deciding
  <2> QED
    BY <2>1, SameDecision
<1> QED
  BY <1>1, <1>2, <1>3, <1>4, <1>5, <1>6, <1>7 DEF Next, Subscriber, World


-----------------------------------------------------------------------------
(* Frames.                                                                 *)

Framed == [peer : Names, mention : Sessions \cup {Nobody},
           step : {"peer", "mention", "note"},
           target : Sessions \cup {Someone, Nobody}, meant : Sessions \cup {Everybody}]

(* The frame of the router still stands for what its peer stands for.      *)
Values(f) ==
    \A n \in DOMAIN f : /\ n \in Names /\ f[n] \in Sessions \cup {Everybody}
                        /\ f[n] # Everybody => n = NameOf[f[n]]
Routing ==
    /\ Values(want) /\ Values(peers)
    /\ frame # Nobody =>
         /\ frame \in Framed
         /\ frame.step = "peer" /\ frame.meant # Everybody =>
              frame.peer \in DOMAIN peers /\ peers[frame.peer] = frame.meant

LEMMA NoPeersValues == Values(NoPeers)
<1> QED
  BY DEF Values, NoPeers

LEMMA WantValues ==
    ASSUME Decision, AllFit \/ Cut \/ CutBlank
    PROVE  Values(want')
<1>1. cands \subseteq Sessions
  BY DEF Decision, Shaped
<1>2. ASSUME NEW K \in SUBSET cands
      PROVE  Values(PeersFor(K))
  <2>1. K \in SUBSET Sessions
    BY <1>1
  <2> QED
    BY <2>1, PeersForSessions DEF Values
<1>3. CASE AllFit
  BY <1>2, <1>3 DEF AllFit
<1>4. CASE Cut
  BY <1>2, <1>4 DEF Cut, Kept
<1>5. CASE CutBlank
  <2>1. want' = [n \in {Blank} \cup DOMAIN PeersFor(cands) |->
                   IF n = Blank THEN Everybody ELSE PeersFor(cands)[n]]
    BY <1>5 DEF CutBlank
  <2>2. Values(PeersFor(cands))
    BY <1>2
  <2> QED
    BY <2>1, <2>2 DEF Values, Names
<1> QED
  BY <1>3, <1>4, <1>5

LEMMA RoutingHolds == Decision /\ Routing /\ [Next]_vars => Routing'
<1> SUFFICES ASSUME Decision, Routing, [Next]_vars
             PROVE  Routing'
  OBVIOUS
<1> USE PromotionAssumption
<1>1. CASE AllFit \/ Cut \/ CutBlank
  <2>1. UNCHANGED <<peers, frame>> /\ Values(want')
    BY <1>1, WantValues DEF AllFit, Cut, CutBlank, table, routing
  <2> QED
    BY <2>1 DEF Routing
<1>2. CASE Publish
  <2> DEFINE lost == ~ (frame.peer \in DOMAIN want /\ want[frame.peer] = frame.meant)
  <2>1. /\ peers' = want /\ want' = NoPeers
        /\ frame' = IF frame # Nobody /\ lost THEN [frame EXCEPT !.meant = Everybody] ELSE frame
    BY <1>2 DEF Publish
  <2>2. Values(peers') /\ Values(want')
    BY <2>1, NoPeersValues DEF Routing
  <2>3. CASE frame # Nobody /\ lost
    <3>1. frame' \in Framed /\ frame'.meant = Everybody
      BY <2>1, <2>3 DEF Routing, Framed
    <3> QED
      BY <2>2, <3>1 DEF Routing
  <2>4. CASE ~ (frame # Nobody /\ lost)
    BY <2>1, <2>2, <2>4 DEF Routing
  <2> QED
    BY <2>3, <2>4
<1>3. CASE RoutePeer
  <2>1. /\ UNCHANGED <<want, peers>> /\ frame \in Framed /\ frame # Nobody
        /\ frame' = IF frame.peer \in DOMAIN peers /\ peers[frame.peer] # Everybody
                      THEN Routed(peers[frame.peer])
                      ELSE [frame EXCEPT !.step = "mention"]
    BY <1>3 DEF RoutePeer, local, table, Routing
  <2>2. frame' \in Framed /\ frame'.step # "peer"
    BY <2>1 DEF Routing, Values, Framed, Routed
  <2> QED
    BY <2>1, <2>2 DEF Routing
<1>4. CASE RouteMention
  <2>1. /\ UNCHANGED <<want, peers>> /\ frame \in Framed /\ roster \subseteq Sessions
        /\ \/ frame.mention \in roster /\ frame' = Routed(frame.mention)
           \/ frame' = Routed(Someone)
           \/ frame' = Nobody
    BY <1>4 DEF RouteMention, local, table, Routing, Decision, Shaped
  <2>2. frame' = Nobody \/ (frame' \in Framed /\ frame'.step # "peer")
    BY <2>1 DEF Framed, Routed
  <2> QED
    BY <2>1, <2>2 DEF Routing
<1>5. CASE Hand
  <2>1. UNCHANGED <<want, peers>> /\ frame' = Nobody
    BY <1>5 DEF Hand, local, table
  <2> QED
    BY <2>1 DEF Routing
<1>6. ASSUME NEW n \in Names, NEW m \in Sessions \cup {Nobody}, Write(n, m)
      PROVE  Routing'
  <2>1. /\ UNCHANGED <<want, peers>>
        /\ frame' = [peer |-> n, mention |-> m, step |-> "peer", target |-> Nobody,
                     meant |-> IF n \in DOMAIN peers THEN peers[n] ELSE Everybody]
    BY <1>6 DEF Write, local, table
  <2>2. (IF n \in DOMAIN peers THEN peers[n] ELSE Everybody) \in Sessions \cup {Everybody}
    BY DEF Routing, Values
  <2>3. frame' \in Framed
    BY <2>1, <2>2 DEF Framed
  <2> QED
    BY <2>1, <2>3 DEF Routing
<1>7. CASE World
  <2>1. UNCHANGED <<want, peers, frame>>
    BY <1>7, WorldMoves DEF Decision
  <2> QED
    BY <2>1 DEF Routing
<1>8. CASE UNCHANGED <<want, peers, frame>>
  BY <1>8 DEF Routing
<1>9. ASSUME Look \/ ReadRoster \/ ReadMode \/ ReadSlice \/ RangeOver \/ RangeEnds \/ TooMany \/ CopyUsed
             \/ CutPanics \/ Ensure \/ (\E n \in Names : Release(n))
      PROVE  UNCHANGED <<want, peers, frame>>
  BY <1>9 DEF Look, ReadRoster, ReadMode, ReadSlice, RangeOver, RangeEnds, TooMany, CopyUsed, CutPanics,
              Ensure, Release, local, table, routing
<1>10. ASSUME NEW s \in Sessions, Used(s) \/ RememberSender(s) \/ \E wish \in BOOLEAN : Subscribe(s, wish)
       PROVE  UNCHANGED <<want, peers, frame>>
  BY <1>10 DEF Used, RememberSender, Subscribe, local, table, routing
<1>11. CASE UNCHANGED vars
  BY <1>8, <1>11 DEF vars
<1> QED
  BY <1>1, <1>2, <1>3, <1>4, <1>5, <1>6, <1>7, <1>8, <1>9, <1>10, <1>11
     DEF Next, Poll, Router, Subscriber, World

-----------------------------------------------------------------------------
(* The last uses.                                                          *)

(* The elements of two lists put together.                                 *)
LEMMA Together ==
    ASSUME NEW S, NEW a \in Seq(S), NEW b \in Seq(S)
    PROVE  /\ a \o b \in Seq(S) /\ Len(a \o b) = Len(a) + Len(b)
           /\ \A j \in 1..Len(a) + Len(b) :
                 (a \o b)[j] = IF j <= Len(a) THEN a[j] ELSE b[j - Len(a)]
  OBVIOUS

(* What is left of a list without repetitions when an element is taken out *)
(* of it.                                                                  *)
LEMMA RemoveAtLeaves ==
    ASSUME NEW S, NEW r \in Seq(S), IsInjective(r), NEW i \in DOMAIN r
    PROVE  /\ RemoveAt(r, i) \in Seq(S) /\ IsInjective(RemoveAt(r, i))
           /\ Range(RemoveAt(r, i)) = Range(r) \ {r[i]}
<1> DEFINE q == RemoveAt(r, i)
           n == Len(r)
           front == SubSeq(r, 1, i - 1)
           back == SubSeq(r, i + 1, n)
           From(j) == IF j < i THEN j ELSE j + 1
<1>1. i \in 1..n /\ n \in Nat /\ DOMAIN r = 1..n
  OBVIOUS
<1>2. /\ front \in Seq(S) /\ Len(front) = i - 1 /\ \A j \in 1..i - 1 : front[j] = r[j]
      /\ back \in Seq(S) /\ Len(back) = n - i /\ \A j \in 1..n - i : back[j] = r[j + i]
  BY <1>1
<1>3. q = front \o back
  BY DEF RemoveAt
<1> HIDE DEF front, back, q
<1>4. /\ q \in Seq(S) /\ Len(q) = n - 1 /\ DOMAIN q = 1..n - 1
      /\ \A j \in 1..n - 1 : q[j] = IF j < i THEN front[j] ELSE back[j - (i - 1)]
  <2>1. q \in Seq(S) /\ Len(q) = Len(front) + Len(back)
    BY <1>2, <1>3, Together
  <2>2. Len(q) = n - 1
    BY <2>1, <1>1, <1>2
  <2>3. DOMAIN q = 1..n - 1
    BY <2>1, <2>2
  <2>4. \A j \in 1..Len(front) + Len(back) :
           q[j] = IF j <= Len(front) THEN front[j] ELSE back[j - Len(front)]
    BY <1>2, <1>3, Together
  <2>5. Len(front) + Len(back) = n - 1
    BY <1>1, <1>2
  <2>6. ASSUME NEW j \in 1..n - 1 PROVE (j <= i - 1) = (j < i)
    BY <1>1
  <2> QED
    BY <2>1, <2>2, <2>3, <2>4, <2>5, <2>6, <1>2
<1>5. ASSUME NEW j \in 1..n - 1
      PROVE  From(j) \in 1..n /\ From(j) # i /\ q[j] = r[From(j)]
  <2>1. CASE j < i
    BY <2>1, <1>1, <1>2, <1>4
  <2>2. CASE ~ (j < i)
    <3>1. j - (i - 1) \in 1..n - i /\ (j - (i - 1)) + i = j + 1
      BY <2>2, <1>1
    <3>2. q[j] = back[j - (i - 1)]
      BY <2>2, <1>4
    <3>3. back[j - (i - 1)] = r[j + 1]
      BY <3>1, <1>2
    <3>4. From(j) = j + 1 /\ j + 1 \in 1..n /\ j + 1 # i
      BY <2>2, <1>1
    <3> QED
      BY <3>2, <3>3, <3>4
  <2> QED
    BY <2>1, <2>2
<1>6. \A j, k \in 1..n - 1 : From(j) = From(k) => j = k
  BY <1>1
<1>7. IsInjective(q)
  <2>1. \A a, b \in 1..n : r[a] = r[b] => a = b
    BY <1>1 DEF IsInjective
  <2> HIDE DEF From
  <2>2. \A j, k \in 1..n - 1 : q[j] = q[k] => From(j) = From(k)
    BY <1>5, <2>1
  <2> QED
    BY <1>4, <1>6, <2>2 DEF IsInjective
<1>8. ASSUME NEW x \in Range(q) PROVE x \in Range(r) \ {r[i]}
  <2>1. PICK j \in 1..n - 1 : x = q[j]
    BY <1>4 DEF Range
  <2>2. From(j) \in 1..n /\ From(j) # i /\ x = r[From(j)]
    BY <2>1, <1>5
  <2> HIDE DEF From
  <2> QED
    BY <2>2, <1>1 DEF Range, IsInjective
<1>9. ASSUME NEW x \in Range(r) \ {r[i]} PROVE x \in Range(q)
  <2>1. PICK k \in 1..n : x = r[k] /\ k # i
    BY <1>1 DEF Range
  <2>2. PICK j \in 1..n - 1 : From(j) = k
    <3>1. CASE k < i
      BY <3>1, <2>1, <1>1
    <3>2. CASE ~ (k < i)
      <4>1. k - 1 \in 1..n - 1 /\ From(k - 1) = k
        BY <3>2, <2>1, <1>1
      <4> QED
        BY <4>1
    <3> QED
      BY <3>1, <3>2
  <2> HIDE DEF From
  <2>3. q[j] = x
    BY <2>1, <2>2, <1>5
  <2> QED
    BY <2>3, <1>4 DEF Range
<1> QED
  BY <1>4, <1>7, <1>8, <1>9 DEF q

(* A session that is used comes first, and is there once.                  *)
LEMMA TouchPutsFirst ==
    ASSUME NEW r \in Seq(Sessions), IsInjective(r), NEW s \in Sessions
    PROVE  /\ Touch(r, s) \in Seq(Sessions) /\ IsInjective(Touch(r, s))
           /\ Touch(r, s)[1] = s
           /\ Range(Touch(r, s)) = Range(r) \cup {s}
<1> DEFINE rest == IF s \in Range(r) THEN RemoveAt(r, CHOOSE i \in DOMAIN r : r[i] = s) ELSE r
<1>1. rest \in Seq(Sessions) /\ IsInjective(rest) /\ Range(rest) = Range(r) \ {s}
  <2>1. CASE s \in Range(r)
    <3> DEFINE i == CHOOSE j \in DOMAIN r : r[j] = s
    <3>1. i \in DOMAIN r /\ r[i] = s
      BY <2>1 DEF Range
    <3>2. rest = RemoveAt(r, i)
      BY <2>1
    <3> HIDE DEF i, rest
    <3> QED
      BY <3>1, <3>2, RemoveAtLeaves
  <2>2. CASE s \notin Range(r)
    BY <2>2
  <2> QED
    BY <2>1, <2>2
<1> DEFINE q == Touch(r, s)
<1>2. q = <<s>> \o rest
  BY DEF Touch
<1> HIDE DEF rest, q
<1>3. /\ q \in Seq(Sessions) /\ Len(q) = 1 + Len(rest) /\ q[1] = s
      /\ \A j \in 2..1 + Len(rest) : q[j] = rest[j - 1]
      /\ DOMAIN q = 1..1 + Len(rest) /\ DOMAIN rest = 1..Len(rest) /\ Len(rest) \in Nat
  BY <1>1, <1>2
<1>4. \A j \in DOMAIN rest : q[j + 1] = rest[j] /\ j + 1 \in DOMAIN q
  BY <1>3
<1>5. \A j \in DOMAIN q : j = 1 \/ (j - 1 \in DOMAIN rest /\ q[j] = rest[j - 1] /\ j \in Nat)
  BY <1>3
<1>6. s \notin Range(rest)
  BY <1>1
<1>7. IsInjective(q)
  <2>1. ASSUME NEW a \in DOMAIN q, NEW b \in DOMAIN q, q[a] = q[b] PROVE a = b
    <3>1. CASE a = 1 \/ b = 1
      BY <3>1, <2>1, <1>3, <1>5, <1>6 DEF Range
    <3>2. CASE a # 1 /\ b # 1
      <4>1. a - 1 = b - 1
        BY <3>2, <2>1, <1>1, <1>5 DEF IsInjective
      <4> QED
        BY <4>1, <1>3
    <3> QED
      BY <3>1, <3>2
  <2> QED
    BY <2>1 DEF IsInjective
<1>8. Range(q) = Range(r) \cup {s}
  <2>1. ASSUME NEW x \in Range(q) PROVE x = s \/ x \in Range(rest)
    BY <1>3, <1>5 DEF Range
  <2>2. s \in Range(q) /\ Range(rest) \subseteq Range(q)
    <3>1. 1 \in DOMAIN q
      BY <1>3
    <3> QED
      BY <3>1, <1>3, <1>4 DEF Range
  <2> QED
    BY <1>1, <2>1, <2>2
<1> QED
  BY <1>3, <1>7, <1>8 DEF q

(* What the poll and the router share beside the policy, and the bounds.   *)
Noting ==
    /\ recent \in Seq(Sessions) /\ IsInjective(recent)
    /\ used \in Seq(Sessions) /\ IsInjective(used)
    /\ replyTo \subseteq Sessions
    /\ changes \in 0..Changes /\ frames \in 0..Frames
noting == <<recent, used, replyTo, changes, frames>>

LEMMA NothingNoted == <<>> \in Seq(Sessions) /\ IsInjective(<<>>)
<1> QED
  BY DEF IsInjective

LEMMA NotingHolds == Shaped /\ Routing /\ Noting /\ [Next]_vars => Noting'
<1> SUFFICES ASSUME Shaped, Routing, Noting, [Next]_vars
             PROVE  Noting'
  OBVIOUS
<1> USE PromotionAssumption
<1>1. CASE UNCHANGED noting
  BY <1>1 DEF Noting, noting
<1>2. ASSUME changes' = changes + 1, changes < Changes, UNCHANGED <<recent, used, replyTo, frames>>
      PROVE  Noting'
  BY <1>2 DEF Noting
<1>3. CASE CopyUsed
  BY <1>3 DEF CopyUsed, Noting, routing
<1>4. CASE Publish
  <2>1. used' = <<>> /\ UNCHANGED <<recent, replyTo, changes, frames>>
    BY <1>4 DEF Publish
  <2> QED
    BY <2>1, NothingNoted DEF Noting
<1>5. ASSUME NEW s \in Sessions, Used(s)
      PROVE  Noting'
  <2>1. /\ recent' = Touch(recent, s) /\ UNCHANGED <<used, replyTo, frames>>
        /\ changes' = changes + 1 /\ changes < Changes
    BY <1>5 DEF Used, Change, local
  <2>2. recent' \in Seq(Sessions) /\ IsInjective(recent')
    BY <2>1, TouchPutsFirst DEF Noting
  <2>3. changes' \in 0..Changes
    BY <2>1 DEF Noting
  <2> QED
    BY <2>1, <2>2, <2>3 DEF Noting
<1>6. ASSUME NEW s \in Sessions, RememberSender(s)
      PROVE  Noting'
  BY <1>6 DEF RememberSender, Change, Noting, local
<1>7. CASE Hand
  <2>1. /\ recent' = IF frame.target \in Sessions THEN Touch(recent, frame.target) ELSE recent
        /\ UNCHANGED <<used, replyTo, frames, changes>>
    BY <1>7 DEF Hand, local
  <2>2. recent' \in Seq(Sessions) /\ IsInjective(recent')
    BY <2>1, TouchPutsFirst DEF Noting
  <2> QED
    BY <2>1, <2>2 DEF Noting
<1>8. ASSUME NEW n \in Names, NEW m \in Sessions \cup {Nobody}, Write(n, m)
      PROVE  Noting'
  BY <1>8 DEF Write, Noting, local
<1>9. ASSUME NEW p \in Policies, Reload(p)
      PROVE  Noting'
  BY <1>2, <1>9 DEF Reload, Change, routing
<1>10. ASSUME NEW s \in Sessions, NEW wish \in BOOLEAN, Subscribe(s, wish)
       PROVE  Noting'
  BY <1>2, <1>10 DEF Subscribe, Change, local, routing
<1>11. ASSUME NEW r \in SUBSET Sessions, RosterChanges(r)
       PROVE  Noting'
  BY <1>2, <1>11 DEF RosterChanges, Change, local, routing
<1>12. ASSUME Look \/ ReadRoster \/ ReadMode \/ ReadSlice \/ RangeOver \/ RangeEnds \/ AllFit \/ TooMany
              \/ Cut \/ CutBlank \/ CutPanics \/ Ensure \/ (\E n \in Names : Release(n))
       PROVE  UNCHANGED noting
  BY <1>12 DEF Look, ReadRoster, ReadMode, ReadSlice, RangeOver, RangeEnds, AllFit, TooMany, Cut, CutBlank,
               CutPanics, Ensure, Release, local, routing, noting
<1>13. ASSUME Compact \/ (\E grown \in BOOLEAN : Store(grown)) \/ RoutePeer \/ RouteMention
              \/ UNCHANGED vars
       PROVE  UNCHANGED noting
  BY <1>13 DEF Compact, Store, RoutePeer, RouteMention, vars, local, routing, noting
<1> QED
  BY <1>1, <1>3, <1>4, <1>5, <1>6, <1>7, <1>8, <1>9, <1>10, <1>11, <1>12, <1>13
     DEF Next, Poll, Subscriber, Router

-----------------------------------------------------------------------------
(* The table of the router and the processes.                              *)

(* While reconcile is at it, what it wants runs already.                   *)
Tabled ==
    /\ running \subseteq Names
    /\ TableAgrees
    /\ stage = "release" => DOMAIN want \subseteq running
    /\ PanicNeedsGrowth

LEMMA TabledHolds == Decision /\ Routing /\ Tabled /\ [Next]_vars => Tabled'
<1> SUFFICES ASSUME Decision, Routing, Tabled, [Next]_vars
             PROVE  Tabled'
  OBVIOUS
<1>1. CASE Ensure
  <2>1. /\ stage = "start" /\ stage' = "release" /\ running' = running \cup DOMAIN want
        /\ UNCHANGED <<want, peers>>
    BY <1>1 DEF Ensure, GoTo, local
  <2>2. DOMAIN want \subseteq Names
    BY DEF Routing, Values
  <2> QED
    BY <2>1, <2>2 DEF Tabled, TableAgrees, PanicNeedsGrowth
<1>2. ASSUME NEW n \in Names, Release(n)
      PROVE  Tabled'
  BY <1>2 DEF Release, local, Tabled, TableAgrees, PanicNeedsGrowth
<1>3. CASE Publish
  BY <1>3 DEF Publish, GoTo, Tabled, TableAgrees, PanicNeedsGrowth
<1>4. CASE CutPanics
  <2>1. /\ stage = "cut" /\ stage' = "dead" /\ policy.cap > Cardinality(listed)
        /\ UNCHANGED <<running, peers, want, round>>
    BY <1>4 DEF CutPanics, GoTo, local, table
  <2>2. /\ policy.cap \in round.caps /\ round.caps \subseteq Nat /\ IsFiniteSet(round.caps)
        /\ cands \in SUBSET listed /\ listed \in SUBSET Sessions
    BY <2>1 DEF Decision, Shaped, Observed, Sees, Rounds
  <2>3. PICK c \in round.caps : c < Cardinality(cands)
    BY <2>1 DEF Decision, Crowded
  <2>4. IsFiniteSet(listed) /\ Cardinality(listed) \in Nat /\ Cardinality(cands) \in Nat
        /\ Cardinality(cands) <= Cardinality(listed)
    BY <2>2, PromotionAssumption, FS_Subset, FS_CardinalityType
  <2>5. c # policy.cap
    BY <2>1, <2>2, <2>3, <2>4
  <2>6. Cardinality(round.caps) > 1
    BY <2>2, <2>3, <2>5, TwoOfThem
  <2> QED
    BY <2>1, <2>6 DEF Tabled, TableAgrees, PanicNeedsGrowth
<1>5. ASSUME Look \/ ReadRoster \/ ReadMode \/ ReadSlice \/ RangeOver \/ RangeEnds \/ AllFit \/ TooMany
             \/ CopyUsed \/ Cut \/ CutBlank
      PROVE  /\ stage # "release" /\ stage' \notin {"release", "dead"}
             /\ UNCHANGED <<running, peers>>
  BY <1>5 DEF Look, ReadRoster, ReadMode, ReadSlice, RangeOver, RangeEnds, AllFit, TooMany, CopyUsed, Cut,
              CutBlank, GoTo, table
<1>6. ASSUME \/ Subscriber \/ Router \/ (\E p \in Policies : Reload(p))
             \/ (\E s \in Sessions :
                   \/ \E wish \in BOOLEAN : Subscribe(s, wish)
                   \/ Used(s) \/ RememberSender(s))
             \/ (\E r \in SUBSET Sessions : RosterChanges(r))
             \/ (\E n \in Names, m \in Sessions \cup {Nobody} : Write(n, m))
             \/ UNCHANGED vars
      PROVE  /\ UNCHANGED <<stage, running, peers, want>>
             /\ stage = "dead" => UNCHANGED round
  BY <1>6 DEF Subscriber, Compact, Store, Router, RoutePeer, RouteMention, Hand, Reload, Subscribe,
              Used, RememberSender, RosterChanges, Write, Change, local, table, vars
<1> QED
  BY <1>1, <1>2, <1>3, <1>4, <1>5, <1>6
     DEF Next, Poll, Tabled, TableAgrees, PanicNeedsGrowth

-----------------------------------------------------------------------------
(* The theorems.                                                           *)

LEMMA SpecDecision == Spec => [](Decision /\ Routing)
<1>1. Init => Decision /\ Routing
  BY DecisionStarts, NoPeersValues DEF Init, Routing
<1>2. Decision /\ Routing /\ [Next]_vars => (Decision /\ Routing)'
  BY DecisionHolds, RoutingHolds
<1> QED
  BY <1>1, <1>2, PTL DEF Spec

LEMMA SpecTables == Spec => [](Noting /\ Tabled)
<1>1. Init => Noting /\ Tabled
  BY NothingNoted, PromotionAssumption
     DEF Init, Noting, Tabled, TableAgrees, PanicNeedsGrowth, NoPeers
<1>2. Decision => Shaped
  BY DEF Decision
<1>3. Decision /\ Routing /\ Noting /\ Tabled /\ [Next]_vars => (Noting /\ Tabled)'
  BY <1>2, NotingHolds, TabledHolds
<1> QED
  BY <1>1, <1>3, SpecDecision, PTL DEF Spec

(* daemon.go:602: however the settings change while a round reads them     *)
(* again and again, it leaves no more peers of sessions than some cap it   *)
(* could have read, and none if promotion was off throughout.              *)
THEOREM PromotionCapKept == Spec => []CapKept
<1>1. Decision => CapKept
  <2> SUFFICES ASSUME Decision, stage = "release", running \subseteq DOMAIN want
               PROVE  /\ \E c \in round.caps : Cardinality(running \ {WorkspacePeer}) <= c
                      /\ round.modes = {"off"} => running = {}
    BY DEF CapKept
  <2>1. Fits /\ round.caps \subseteq Nat
    BY DEF Decision, Decided, Shaped, Rounds
  <2>2. PICK c \in round.caps : Cardinality(DOMAIN want \ {WorkspacePeer}) <= c
    BY <2>1 DEF Fits
  <2> DEFINE W == DOMAIN want \ {WorkspacePeer}
             R == running \ {WorkspacePeer}
  <2>3. IsFiniteSet(W) /\ R \subseteq W
    BY <2>1, FS_Subset DEF Fits
  <2>4. Cardinality(R) <= Cardinality(W) /\ Cardinality(R) \in Nat /\ Cardinality(W) \in Nat
    BY <2>3, FS_Subset, FS_CardinalityType
  <2>5. Cardinality(R) <= c
    BY <2>1, <2>2, <2>4
  <2> QED
    BY <2>1, <2>5 DEF Fits
<1> QED
  BY <1>1, SpecDecision, PTL

(* control.go:295, daemon.go:576: a peer is started only for somebody the  *)
(* round saw on the roster and who was asked for, whatever subscribe does  *)
(* to the slice the poll ranges over.                                      *)
THEOREM PromotionOnlyAsked == Spec => OnlyAsked
<1> DEFINE Step ==
      \A n \in running' \ running :
          \/ n = WorkspacePeer
          \/ \E s \in round.listed : /\ n = NameOf[s]
                                     /\ s \in round.asked \/ "off" \in round.modes
          \/ n = Blank /\ Cardinality(round.caps) > 1
<1>1. Decision /\ [Next]_vars => [Step]_vars
  <2> SUFFICES ASSUME Decision, [Next]_vars, NEW n \in running' \ running
               PROVE  Step
    OBVIOUS
  <2>1. CASE Ensure
    <3>1. running' = running \cup DOMAIN want /\ OnlyCalled
      BY <2>1 DEF Ensure, GoTo, Decision, Decided
    <3> QED
      BY <3>1 DEF OnlyCalled, Called
  <2>2. CASE ~ Ensure
    <3>1. running' \subseteq running
      BY <2>2 DEF Next, vars, Poll, Subscriber, Router, Look, ReadRoster, ReadMode, ReadSlice, RangeOver,
         RangeEnds, AllFit, TooMany, CopyUsed, Cut, CutBlank, CutPanics, Release, Publish,
         Reload, Subscribe, Compact, Store, RosterChanges, Used, RememberSender, Write,
         RoutePeer, RouteMention, Hand, table
    <3> QED
      BY <3>1
  <2> QED
    BY <2>1, <2>2
<1> QED
  BY <1>1, SpecDecision, PTL DEF Spec, OnlyAsked

(* daemon.go:589: a peer is taken away only from somebody the round saw    *)
(* off the roster or not asked for, from somebody others left no room for, *)
(* when subscribe moved what the poll was reading, or when the list the    *)
(* poll read was that of another policy than the mode.                     *)
THEOREM PromotionWantedStays == Spec => WantedStays
<1> DEFINE Step ==
      \A s \in Sessions :
          NameOf[s] \in running \ running' =>
             \/ s \in round.unlisted \cup round.unasked
             \/ Outranked(s)
             \/ round.torn \/ round.mixed
<1>1. Decision /\ [Next]_vars => [Step]_vars
  <2> SUFFICES ASSUME Decision, [Next]_vars
               PROVE  Step
    OBVIOUS
  <2>1. CASE \E n \in Names : Release(n)
    <3>1. PICK n \in Names : Release(n)
      BY <2>1
    <3>2. running' = running \ {n} /\ n \notin DOMAIN want /\ NobodyMissed
      BY <3>1 DEF Release, Decision, Decided
    <3> QED
      BY <3>2 DEF NobodyMissed, Excused
  <2>2. CASE ~ \E n \in Names : Release(n)
    <3>1. running \subseteq running'
      BY <2>2 DEF Next, vars, Poll, Subscriber, Router, Look, ReadRoster, ReadMode, ReadSlice, RangeOver,
         RangeEnds, AllFit, TooMany, CopyUsed, Cut, CutBlank, CutPanics, Ensure, Publish,
         Reload, Subscribe, Compact, Store, RosterChanges, Used, RememberSender, Write,
         RoutePeer, RouteMention, Hand, table
    <3> QED
      BY <3>1
  <2> QED
    BY <2>1, <2>2
<1> QED
  BY <1>1, SpecDecision, PTL DEF Spec, WantedStays

(* daemon.go:653: a frame for the peer of a session goes to that session,  *)
(* whatever it mentions, unless the peer left the table on the way.        *)
THEOREM PromotionFramesReach == Spec => FramesReach
<1> DEFINE Step ==
      frame # Nobody /\ frame.meant # Everybody /\ frame.step = "peer" /\ frame' # frame
         => frame'.meant = Everybody \/ frame'.target = frame.meant
<1>1. Routing /\ [Next]_vars => [Step]_vars
  <2> SUFFICES ASSUME Routing, [Next]_vars, frame # Nobody, frame.meant # Everybody,
                      frame.step = "peer", frame' # frame
               PROVE  frame'.meant = Everybody \/ frame'.target = frame.meant
    OBVIOUS
  <2>1. frame \in Framed /\ frame.peer \in DOMAIN peers /\ peers[frame.peer] = frame.meant
    BY DEF Routing
  <2>2. CASE RoutePeer
    <3>1. frame' = Routed(frame.meant)
      BY <2>1, <2>2 DEF RoutePeer
    <3> QED
      BY <2>1, <3>1 DEF Routed, Framed
  <2>3. CASE Publish
    <3>1. frame' = [frame EXCEPT !.meant = Everybody]
      BY <2>3 DEF Publish
    <3> QED
      BY <2>1, <3>1 DEF Framed
  <2>4. CASE ~ (RoutePeer \/ Publish)
    BY <2>4 DEF Next, vars, Poll, Subscriber, Router, Look, ReadRoster, ReadMode, ReadSlice, RangeOver,
       RangeEnds, AllFit, TooMany, CopyUsed, Cut, CutBlank, CutPanics, Ensure, Release,
       Reload, Subscribe, Compact, Store, RosterChanges, Used, RememberSender, Write,
       RouteMention, Hand, routing
  <2> QED
    BY <2>2, <2>3, <2>4
<1> QED
  BY <1>1, SpecDecision, PTL DEF Spec, FramesReach

(* The fields of the daemon and the locals of the poll and the router keep *)
(* the shapes the code gives them.                                         *)
THEOREM PromotionTyped == Spec => []TypeOK
<1>1. Decision /\ Routing /\ Noting /\ Tabled => TypeOK
  <2> SUFFICES ASSUME Decision, Routing, Noting, Tabled
               PROVE  TypeOK
    OBVIOUS
  <2>1. \A f \in {want, peers} : /\ DOMAIN f \subseteq Names
                                 /\ Range(f) \subseteq Sessions \cup {Everybody}
    BY DEF Routing, Values, Range
  <2>2. frame \in {Nobody} \cup Framed
    BY DEF Routing
  <2> QED
    BY <2>1, <2>2 DEF TypeOK, Decision, Shaped, Writings, Noting, Tabled, Framed
<1> QED
  BY <1>1, SpecDecision, SpecTables, PTL

(* daemon.go:659: a frame that is routed by its peer goes to the session   *)
(* the peer is named after, however the table changed in between.          *)
THEOREM PromotionRoutedByName == Spec => RoutedByName
<1> DEFINE Step ==
      frame # Nobody /\ frame.step = "peer" /\ frame' # frame /\ frame'.step = "note"
         => frame'.target \in Sessions /\ frame.peer = NameOf[frame'.target]
<1>1. Routing /\ [Next]_vars => [Step]_vars
  <2> SUFFICES ASSUME Routing, [Next]_vars, frame # Nobody, frame.step = "peer",
                      frame' # frame, frame'.step = "note"
               PROVE  frame'.target \in Sessions /\ frame.peer = NameOf[frame'.target]
    OBVIOUS
  <2>1. frame \in Framed
    BY DEF Routing
  <2>2. CASE RoutePeer
    <3>1. CASE frame.peer \in DOMAIN peers /\ peers[frame.peer] # Everybody
      <4>1. frame'.target = peers[frame.peer]
        BY <2>1, <2>2, <3>1 DEF RoutePeer, Routed, Framed
      <4> QED
        BY <3>1, <4>1 DEF Routing, Values
    <3>2. CASE ~ (frame.peer \in DOMAIN peers /\ peers[frame.peer] # Everybody)
      BY <2>1, <2>2, <3>2 DEF RoutePeer, Framed
    <3> QED
      BY <3>1, <3>2
  <2>3. CASE Publish
    <3>1. frame' = [frame EXCEPT !.meant = Everybody]
      BY <2>3 DEF Publish
    <3> QED
      BY <2>1, <3>1 DEF Framed
  <2>4. CASE ~ (RoutePeer \/ Publish)
    BY <2>4 DEF Next, vars, Poll, Subscriber, Router, Look, ReadRoster, ReadMode, ReadSlice, RangeOver,
       RangeEnds, AllFit, TooMany, CopyUsed, Cut, CutBlank, CutPanics, Ensure, Release,
       Reload, Subscribe, Compact, Store, RosterChanges, Used, RememberSender, Write,
       RouteMention, Hand, routing
  <2> QED
    BY <2>2, <2>3, <2>4
<1> QED
  BY <1>1, SpecDecision, PTL DEF Spec, RoutedByName

(* daemon.go:541: the table of the router names the peers that run, except *)
(* while reconcile starts and stops some.                                  *)
THEOREM PromotionTableAgrees == Spec => []TableAgrees
<1> QED
  BY SpecTables, PTL DEF Tabled

(* daemon.go:602: the poll panics only in a round in which the cap grew.   *)
THEOREM PromotionPanicNeedsGrowth == Spec => []PanicNeedsGrowth
<1> QED
  BY SpecTables, PTL DEF Tabled
=============================================================================
