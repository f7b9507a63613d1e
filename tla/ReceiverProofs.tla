--------------------------- MODULE ReceiverProofs ---------------------------
(***************************************************************************)
(* Theorems about Receiver: its types, that a message is decided on once   *)
(* and for all, that one reported as held is kept, and that nobody raises  *)
(* the level of a message alone; for any messages, proposals and settings, *)
(* any number of control connections, edits, restarts and faults.          *)
(***************************************************************************)
EXTENDS Receiver, TLAPS

(* trust.go:64: a set of opinions resolves to one of the levels given, or  *)
(* to the default if none is; it is as restrictive as each of them, and a  *)
(* word that is no level makes it "source", whatever else was said.        *)
THEOREM TrustMostRestrictive ==
    ASSUME NEW O \in SUBSET Opinions
    PROVE  /\ Resolve(O) \in Levels
           /\ "unknown" \in O => Resolve(O) = "source"
           /\ "unknown" \notin O /\ O \cap Levels = {} => Resolve(O) = Default
           /\ "unknown" \notin O /\ O \cap Levels # {} =>
                 Resolve(O) \in O /\ \A k \in O \cap Levels : Rank[Resolve(O)] <= Rank[k]
<1> DEFINE given == O \ {""}
           Least(l) == l \in given /\ \A k \in given : Rank[l] <= Rank[k]
<1>1. CASE "unknown" \in O
  <2>1. "unknown" \in O \ {""} /\ "unknown" \notin Levels
    BY <1>1 DEF Levels
  <2>2. Resolve(O) = "source"
    BY <2>1 DEF Resolve
  <2> QED
    BY <1>1, <2>2 DEF Levels
<1>2. CASE "unknown" \notin O /\ O \cap Levels = {}
  <2>1. given = {}
    BY <1>2 DEF Opinions
  <2> QED
    BY <1>2, <2>1 DEF Resolve, Levels, Default
<1>3. CASE "unknown" \notin O /\ O \cap Levels # {}
  <2>1. given = O \cap Levels
    BY <1>3 DEF Opinions, Levels
  <2>2. \E l \in given : Least(l)
    <3> HIDE DEF given
    <3>1. \A k \in given : k \in {"hold", "source", "collaborator", "peer"}
      BY <2>1 DEF Levels
    <3>2. \E k \in given : TRUE
      BY <1>3, <2>1
    <3>3. CASE "hold" \in given
      BY <3>1, <3>3 DEF Rank
    <3>4. CASE "hold" \notin given /\ "source" \in given
      BY <3>1, <3>4 DEF Rank
    <3>5. CASE "hold" \notin given /\ "source" \notin given /\ "collaborator" \in given
      BY <3>1, <3>5 DEF Rank
    <3>6. CASE given = {"peer"}
      BY <3>6 DEF Rank
    <3> QED
      BY <3>1, <3>2, <3>3, <3>4, <3>5, <3>6
  <2>3. Resolve(O) = CHOOSE l \in given : \A k \in given : Rank[l] <= Rank[k]
    BY <1>3, <2>1 DEF Resolve
  <2>4. Least(CHOOSE l \in given : \A k \in given : Rank[l] <= Rank[k])
    BY Zenon, <2>2
  <2>5. Least(Resolve(O))
    BY <2>3, <2>4
  <2> QED
    BY <1>3, <2>1, <2>5
<1> QED
  BY <1>1, <1>2, <1>3

(* trust.go:66: once somebody has an opinion, another one can only lower   *)
(* the level: raising it takes everybody, and lowering it anybody.  (A     *)
(* word that is no level is the exception: it raises "hold" to "source".)  *)
THEOREM TrustOnlyLowered ==
    ASSUME NEW P \in SUBSET Opinions, NEW O \in SUBSET P, O \cap Levels # {},
           "unknown" \notin P
    PROVE  Rank[Resolve(P)] <= Rank[Resolve(O)]
<1>1. O \in SUBSET Opinions /\ P \cap Levels # {} /\ "unknown" \notin O
  OBVIOUS
<1>2. Resolve(O) \in P \cap Levels
  BY <1>1, TrustMostRestrictive
<1> QED
  BY <1>1, <1>2, TrustMostRestrictive

(* trust.go:85: a word that is no level is never read as more than source, *)
(* and a message is withheld exactly if somebody holds it and every word   *)
(* is a level.                                                             *)
THEOREM TrustHolds ==
    ASSUME NEW O \in SUBSET Opinions
    PROVE  Resolve(O) = "hold" <=> "hold" \in O /\ "unknown" \notin O
<1>1. CASE "unknown" \in O
  BY <1>1, TrustMostRestrictive
<1>2. CASE "unknown" \notin O /\ O \cap Levels = {}
  BY <1>2, TrustMostRestrictive DEF Levels, Default
<1>3. CASE "unknown" \notin O /\ O \cap Levels # {}
  <2>1. /\ Resolve(O) \in O /\ Resolve(O) \in Levels
        /\ \A k \in O \cap Levels : Rank[Resolve(O)] <= Rank[k]
    BY <1>3, TrustMostRestrictive
  <2>2. \A l \in Levels : Rank[l] <= Rank["hold"] => l = "hold"
    BY DEF Levels, Rank
  <2> QED
    BY <1>3, <2>1, <2>2 DEF Levels
<1> QED
  BY <1>1, <1>2, <1>3

-----------------------------------------------------------------------------
(* The sequences of held messages.                                         *)

Unique(s) == \A i, j \in DOMAIN s : s[i] = s[j] => i = j

(* held.go:90: one message goes, and all others stay.                      *)
LEMMA RemoveAtElements ==
    ASSUME NEW S, NEW s \in Seq(S), Unique(s), NEW i \in DOMAIN s
    PROVE  /\ RemoveAt(s, i) \in Seq(S) /\ Len(RemoveAt(s, i)) <= Len(s)
           /\ Range(RemoveAt(s, i)) = Range(s) \ {s[i]}
           /\ Unique(RemoveAt(s, i))
<1> DEFINE r == RemoveAt(s, i)
           n == Len(s)
<1>1. i \in 1..n /\ n \in Nat
  OBVIOUS
<1>2. /\ r \in Seq(S) /\ Len(r) = n - 1
      /\ \A j \in 1..n - 1 : r[j] = IF j < i THEN s[j] ELSE s[j + 1]
  <2> DEFINE front == SubSeq(s, 1, i - 1)
             back == SubSeq(s, i + 1, n)
  <2>1. /\ front \in Seq(S) /\ Len(front) = i - 1
        /\ \A j \in 1..i - 1 : front[j] = s[j]
    BY <1>1
  <2>2. /\ back \in Seq(S) /\ Len(back) = n - i
        /\ \A j \in 1..n - i : back[j] = s[j + i]
    BY <1>1
  <2>3. r = front \o back
    BY DEF RemoveAt
  <2> HIDE DEF front, back, r
  <2>4. /\ r \in Seq(S) /\ Len(r) = n - 1
        /\ \A j \in 1..n - 1 : r[j] = IF j < i THEN front[j] ELSE back[j - (i - 1)]
    BY <1>1, <2>1, <2>2, <2>3
  <2>5. ASSUME NEW j \in 1..n - 1 PROVE r[j] = IF j < i THEN s[j] ELSE s[j + 1]
    <3>1. CASE j < i
      BY <3>1, <1>1, <2>1, <2>4
    <3>2. CASE ~ (j < i)
      <4>1. j - (i - 1) \in 1..n - i /\ (j - (i - 1)) + i = j + 1
        BY <3>2, <1>1
      <4> QED
        BY <3>2, <4>1, <2>2, <2>4
    <3> QED
      BY <3>1, <3>2
  <2> QED
    BY <2>4, <2>5
<1> HIDE DEF r
<1>3. DOMAIN r = 1..n - 1 /\ DOMAIN s = 1..n
  BY <1>1, <1>2
<1>4. Unique(r)
  <2> DEFINE at(j) == IF j < i THEN j ELSE j + 1
  <2>1. ASSUME NEW j \in 1..n - 1 PROVE at(j) \in 1..n /\ r[j] = s[at(j)]
    BY <1>1, <1>2
  <2>2. ASSUME NEW j \in 1..n - 1, NEW k \in 1..n - 1, at(j) = at(k) PROVE j = k
    BY <1>1, <2>2
  <2> HIDE DEF at
  <2>3. ASSUME NEW j \in 1..n - 1, NEW k \in 1..n - 1, r[j] = r[k] PROVE at(j) = at(k)
    BY <1>3, <2>1, <2>3 DEF Unique
  <2> QED
    BY <1>3, <2>2, <2>3 DEF Unique
<1>5. ASSUME NEW x \in Range(r) PROVE x \in Range(s) /\ x # s[i]
  <2>1. PICK j \in 1..n - 1 : x = r[j]
    BY <1>5, <1>3 DEF Range
  <2>2. CASE j < i
    BY <2>1, <2>2, <1>1, <1>2, <1>3 DEF Unique, Range
  <2>3. CASE ~ (j < i)
    <3>1. j + 1 \in 1..n /\ x = s[j + 1] /\ j + 1 # i
      BY <2>1, <2>3, <1>1, <1>2
    <3> QED
      BY <3>1, <1>1, <1>3 DEF Unique, Range
  <2> QED
    BY <2>2, <2>3
<1>6. ASSUME NEW x \in Range(s), x # s[i] PROVE x \in Range(r)
  <2>1. PICK j \in 1..n : x = s[j]
    BY <1>6, <1>3 DEF Range
  <2>2. j # i
    BY <2>1, <1>6
  <2>3. CASE j < i
    <3>1. j \in 1..n - 1 /\ r[j] = x
      BY <2>1, <2>3, <1>1, <1>2
    <3> QED
      BY <3>1, <1>3 DEF Range
  <2>4. CASE j > i
    <3>1. j - 1 \in 1..n - 1 /\ r[j - 1] = x
      BY <2>1, <2>4, <1>1, <1>2
    <3> QED
      BY <3>1, <1>3 DEF Range
  <2> QED
    BY <2>1, <2>2, <2>3, <2>4, <1>1
<1> QED
  BY <1>1, <1>2, <1>4, <1>5, <1>6 DEF r

(* held.go:72: the new message is there, and only the oldest may go.       *)
LEMMA AddedElements ==
    ASSUME held \in Seq(Messages), Len(held) <= HeldLimit, Unique(held),
           NEW m \in Messages, m \notin Range(held)
    PROVE  /\ Added(m) \in Seq(Messages) /\ Len(Added(m)) <= HeldLimit
           /\ m \in Range(Added(m)) /\ Range(Added(m)) \subseteq Range(held) \cup {m}
           /\ Unique(Added(m))
<1> DEFINE n == Len(held)
           all == Append(held, m)
<1>1. n \in Nat /\ DOMAIN held = 1..n /\ HeldLimit \in Nat \ {0}
  BY ReceiverAssumption
<1>2. /\ all \in Seq(Messages) /\ Len(all) = n + 1 /\ DOMAIN all = 1..n + 1
      /\ \A j \in 1..n : all[j] = held[j]
      /\ all[n + 1] = m
  BY <1>1
<1> HIDE DEF all
<1>3. \A j \in 1..n : held[j] # m
  BY <1>1 DEF Range
<1>4. Unique(all)
  BY <1>1, <1>2, <1>3 DEF Unique
<1>5. Range(all) = Range(held) \cup {m}
  <2>1. ASSUME NEW x \in Range(all) PROVE x \in Range(held) \cup {m}
    BY <2>1, <1>1, <1>2 DEF Range
  <2>2. ASSUME NEW x \in Range(held) \cup {m} PROVE x \in Range(all)
    <3>1. CASE x = m
      BY <3>1, <1>1, <1>2 DEF Range
    <3>2. CASE x \in Range(held)
      BY <3>2, <1>1, <1>2 DEF Range
    <3> QED
      BY <2>2, <3>1, <3>2
  <2> QED
    BY <2>1, <2>2
<1>6. CASE Len(all) > HeldLimit
  <2> DEFINE r == Tail(all)
  <2>1. Added(m) = r
    BY <1>6 DEF Added, all
  <2>2. n >= 1
    BY <1>1, <1>2, <1>6
  <2>3. /\ r \in Seq(Messages) /\ Len(r) = n /\ DOMAIN r = 1..n
        /\ \A j \in 1..n : r[j] = all[j + 1]
    BY <1>1, <1>2
  <2> HIDE DEF r
  <2>4. Unique(r)
    BY <1>1, <1>2, <1>4, <2>3 DEF Unique
  <2>5. m \in Range(r)
    BY <1>1, <1>2, <2>2, <2>3 DEF Range
  <2>6. Range(r) \subseteq Range(all)
    BY <1>1, <1>2, <2>3 DEF Range
  <2> QED
    BY <1>1, <1>5, <2>1, <2>3, <2>4, <2>5, <2>6
<1>7. CASE ~ (Len(all) > HeldLimit)
  <2>1. Added(m) = all
    BY <1>7 DEF Added, all
  <2> QED
    BY <1>1, <1>2, <1>4, <1>5, <1>7, <2>1
<1> QED
  BY <1>6, <1>7

-----------------------------------------------------------------------------
(* The invariant.                                                          *)

(* The poll only rereads the settings, and a goroutine that applies them   *)
(* has read them.                                                          *)
Places ==
    /\ stage["poll"] \in {"idle", "stat", "claim", "load", "apply"}
    /\ \A t \in Threads : stage[t] = "apply" => read[t] # Nothing
    /\ \A t \in Approvers : stage[t] # "hold"
    /\ stage["router"] # "putBack"
    /\ level["router"] # Nothing => stage["router"] = "hand"

(* One goroutine has a message in hand, and nobody else knows it.          *)
Handled ==
    /\ \A t, u \in Threads : msg[t] # Nothing /\ msg[t] = msg[u] => t = u
    /\ \A t \in Threads : msg[t] # Nothing => fate[msg[t]] \in {"arrived", "approving"}
    /\ msg["poll"] = Nothing

(* A message that is not waiting for a decision is in neither list of held *)
(* messages: one that was taken out leaves the file before it is delivered. *)
Gone == {"new", "arrived", "approving", "handed", "refused", "discarded", "lost"}

Away ==
    /\ Unique(held) /\ Unique(disk)
    /\ \A m \in Messages : fate[m] \in Gone => m \notin Range(held) \cup Range(disk)

Counted ==
    \A m \in Messages : decided[m] = IF fate[m] \in {"handed", "discarded"} THEN 1 ELSE 0

(* What the daemon goes by is something the owner has written, ...         *)
Taken == {WithDefault(s) : s \in Machine}

Owned ==
    /\ had \subseteq Taken
    /\ WithDefault(config.trust) \in had /\ settings \in had
    /\ \A t \in Threads : read[t] # Nothing => WithDefault(read[t]) \in had

(* ... and a level nobody approved is what its opinions resolve to.        *)
Granted(m, l) == \E s \in had : l = Resolve(Said(m, s))

Below ==
    /\ level["router"] # Nothing => Granted(msg["router"], level["router"])
    /\ \A m \in Messages : shown[m] # Nothing => Granted(m, shown[m])

IInv == TypeOK /\ Places /\ Handled /\ Away /\ Counted /\ Owned /\ Below /\ KeptSurvives

LEMMA ThreadNames ==
    /\ "poll" \in Threads /\ "router" \in Threads /\ "poll" # "router"
    /\ \A t \in Approvers : t \in Threads /\ t # "poll" /\ t # "router"
    /\ \A t \in Threads : t = "poll" \/ t = "router" \/ t \in Approvers
BY ReceiverAssumption DEF Threads

(* Init establishes the invariant: daemon.go:224 begins with the settings  *)
(* it was given and nothing held.                                          *)
LEMMA InitInvariant == Init => IInv
<1> SUFFICES ASSUME Init PROVE IInv
  OBVIOUS
<1> USE ReceiverAssumption, ThreadNames DEF Init
<1>1. TypeOK
  <2>1. /\ config \in [trust : Machine, at : 1..Edits]
        /\ settings \in Taken /\ settingsAt \in 0..Edits
    BY DEF Taken
  <2>2. /\ stage \in [Threads -> Stages]
        /\ saw \in [Threads -> 0..Edits]
        /\ read \in [Threads -> Machine \cup {Nothing}]
        /\ msg \in [Threads -> Messages \cup {Nothing}]
        /\ level \in [Threads -> (Levels \ {"hold"}) \cup {Nothing}]
    BY DEF Stages
  <2>3. /\ held \in Seq(Messages) /\ Len(held) <= HeldLimit
        /\ disk \in Seq(Messages) /\ Len(disk) <= HeldLimit
    OBVIOUS
  <2>4. up \in BOOLEAN
    BY Zenon
  <2>5. starts \in 1..Starts /\ faults \in 0..Faults
    OBVIOUS
  <2>6. /\ fate \in [Messages -> Fates] /\ decided \in [Messages -> Nat]
        /\ shown \in [Messages -> Levels \cup {Nothing}]
    BY DEF Fates
  <2>7. \A t \in Threads \ {"poll"} : msg[t] = Nothing <=> stage[t] = "idle"
    OBVIOUS
  <2> QED
    BY <2>1, <2>2, <2>3, <2>4, <2>5, <2>6, <2>7 DEF TypeOK, Taken
<1>2. Places /\ Handled
  BY DEF Places, Handled
<1>3. Away /\ KeptSurvives
  BY DEF Away, KeptSurvives, Unique, Range
<1>4. Counted
  BY DEF Counted
<1>5. Owned
  BY DEF Owned, Taken
<1>6. Below
  BY DEF Below
<1> QED
  BY <1>1, <1>2, <1>3, <1>4, <1>5, <1>6 DEF IInv

(* The daemon runs or it does not.                                         *)
LEMMA NextUp == ASSUME up \in BOOLEAN, [Next]_vars PROVE up' \in BOOLEAN
<1> USE DEF life, store
<1>1. ASSUME NEW t \in Threads, Step(t) PROVE up' \in BOOLEAN
  BY Zenon, <1>1 DEF Step, Stat, StatFails, Unchanged, Claim, Load, LoadFails, Apply, Lookup,
                     Fails, Frame, Hand
<1>2. CASE Tick \/ Withhold \/ Hold \/ Dies \/ Start
  BY Zenon, <1>2 DEF Tick, Withhold, Hold, Add, Dies, Start
<1>3. ASSUME NEW m \in Messages, Arrive(m) PROVE up' \in BOOLEAN
  BY Zenon, <1>3 DEF Arrive
<1>4. ASSUME NEW t \in Approvers, PutBack(t) PROVE up' \in BOOLEAN
  BY Zenon, <1>4 DEF PutBack, Add
<1>5. ASSUME NEW t \in Approvers, NEW m \in Messages, Approve(t, m) \/ Discard(t, m)
      PROVE  up' \in BOOLEAN
  BY Zenon, <1>5 DEF Approve, Discard
<1>6. ASSUME NEW s \in Machine, Edit(s) PROVE up' \in BOOLEAN
  BY Zenon, <1>6 DEF Edit
<1>7. CASE UNCHANGED vars
  BY Zenon, <1>7 DEF vars
<1> QED
  BY <1>1, <1>2, <1>3, <1>4, <1>5, <1>6, <1>7 DEF Next

(* What is said of a message is a set of opinions, the workspace's and     *)
(* those of this machine.                                                  *)
LEMMA SaidOpinions ==
    ASSUME NEW m \in Messages, NEW s \in Taken
    PROVE  Said(m, s) \in SUBSET Opinions
<1>1. PICK r \in Machine : s = WithDefault(r)
  BY DEF Taken
<1>2. /\ r \in [workspace : Opinions, others : [Messages -> SUBSET Opinions]]
      /\ Proposed[m] \in Opinions
  BY ReceiverAssumption
<1>3. s \in [workspace : Opinions, others : [Messages -> SUBSET Opinions]]
  BY <1>1, <1>2 DEF WithDefault, Default, Opinions, Levels
<1> QED
  BY <1>2, <1>3 DEF Said

(* The level a message is resolved to is one.                              *)
LEMMA LevelGiven ==
    ASSUME IInv, NEW t \in Threads, msg[t] \in Messages
    PROVE  /\ Level(t) \in Levels
           /\ Granted(msg[t], Level(t))
<1>1. settings \in had /\ settings \in Taken
  BY DEF IInv, Owned
<1>2. Resolve(Said(msg[t], settings)) \in Levels
  BY <1>1, SaidOpinions, TrustMostRestrictive
<1> QED
  BY <1>1, <1>2 DEF Level, Granted

-----------------------------------------------------------------------------
(* The steps.                                                              *)

(* As long as no message moves, nothing becomes of one.                    *)
LEMMA QuietKeeps ==
    ASSUME IInv, UNCHANGED <<msg, store, up, fate, decided>>
    PROVE  Handled' /\ Away' /\ Counted' /\ KeptSurvives'
BY DEF IInv, Handled, Away, Counted, KeptSurvives, store, Unique

(* Reading the settings again moves no message and raises no level.        *)
LEMMA RereadKeeps ==
    ASSUME IInv, up' \in BOOLEAN, NEW t \in Threads,
           \/ t = "poll" /\ Tick
           \/ Stat(t) \/ StatFails(t) \/ Unchanged(t) \/ Claim(t)
           \/ Load(t) \/ LoadFails(t) \/ Apply(t) \/ Lookup(t)
    PROVE  IInv'
<1> USE ThreadNames, ReceiverAssumption DEF GoTo, owner, reloading, store, life, past, Fault
<1>1. UNCHANGED <<config, had, msg, level, held, disk, up, fate, decided, shown, starts>>
  BY DEF Tick, Stat, StatFails, Unchanged, Claim, Load, LoadFails, Apply, Lookup
<1>2. faults' \in 0..Faults
  BY DEF IInv, TypeOK, Tick, Stat, StatFails, Unchanged, Claim, Load, LoadFails, Apply, Lookup
<1>3. PICK s \in Stages \ {"hold", "putBack"} : stage' = [stage EXCEPT ![t] = s]
  BY DEF Tick, Stat, StatFails, Unchanged, Claim, Load, LoadFails, Apply, Lookup,
         Reloaded, Stages
<1>4. /\ stage[t] = "idle" => t = "poll"
      /\ s = "idle" => t = "poll"
      /\ t = "poll" => s \in {"idle", "stat", "claim", "load", "apply"}
      /\ t = "router" => level["router"] = Nothing
  <2>1. stage'[t] = s
    BY <1>3 DEF IInv, TypeOK
  <2>2. CASE t = "poll" /\ Tick
    BY <2>1, <2>2 DEF IInv, Places, TypeOK, Tick
  <2>3. CASE Stat(t) \/ StatFails(t) \/ Claim(t) \/ Load(t) \/ Lookup(t)
    BY <2>1, <2>3 DEF IInv, Places, TypeOK, Stat, StatFails, Claim, Load, Lookup
  <2>4. CASE Unchanged(t) \/ LoadFails(t) \/ Apply(t)
    BY <2>1, <2>4 DEF IInv, Places, TypeOK, Unchanged, LoadFails, Apply, Reloaded
  <2> QED
    BY <2>2, <2>3, <2>4
<1>5. /\ settings' \in had /\ settingsAt' \in 0..Edits
      /\ saw' \in [Threads -> 0..Edits]
  <2>1. saw' \in [Threads -> 0..Edits] /\ settingsAt' \in 0..Edits
    <3>1. CASE Stat(t)
      <4>1. config.at \in 0..Edits
        BY DEF IInv, TypeOK
      <4>2. saw' = [saw EXCEPT ![t] = config.at] /\ settingsAt' = settingsAt
        BY <3>1 DEF Stat
      <4> QED
        BY <4>1, <4>2 DEF IInv, TypeOK
    <3>2. CASE Unchanged(t) \/ Claim(t)
      <4>1. /\ saw' = [saw EXCEPT ![t] = 0] /\ settingsAt' \in {settingsAt, saw[t]}
            /\ saw[t] \in 0..Edits
        BY <3>2 DEF Unchanged, Claim, IInv, TypeOK
      <4> QED
        BY <4>1 DEF IInv, TypeOK
    <3>3. CASE Tick \/ StatFails(t) \/ Load(t) \/ LoadFails(t) \/ Apply(t) \/ Lookup(t)
      BY <3>3 DEF Tick, StatFails, Load, LoadFails, Apply, Lookup, IInv, TypeOK
    <3> QED
      BY <3>1, <3>2, <3>3
  <2>2. settings' \in had
    <3>1. CASE Apply(t)
      BY <3>1 DEF Apply, IInv, Places, Owned
    <3>2. CASE ~ Apply(t)
      BY <3>2 DEF Tick, Stat, StatFails, Unchanged, Claim, Load, LoadFails, Lookup, IInv, Owned
    <3> QED
      BY <3>1, <3>2
  <2> QED
    BY <2>1, <2>2
<1>6. /\ read' \in [Threads -> Machine \cup {Nothing}]
      /\ \A u \in Threads : read'[u] # Nothing => WithDefault(read'[u]) \in had
      /\ \A u \in Threads : stage'[u] = "apply" => read'[u] # Nothing
  <2>0. /\ read \in [Threads -> Machine \cup {Nothing}]
        /\ \A u \in Threads : read[u] # Nothing => WithDefault(read[u]) \in had
    BY DEF IInv, TypeOK, Owned
  <2>1. CASE Load(t)
    <3>1. read' = [read EXCEPT ![t] = config.trust] /\ WithDefault(config.trust) \in had
      BY <2>1 DEF Load, IInv, Owned
    <3>2. config.trust # Nothing /\ config.trust \in Machine
      BY DEF IInv, TypeOK
    <3> QED
      BY <1>3, <2>0, <3>1, <3>2 DEF IInv, TypeOK, Places
  <2>2. CASE Apply(t)
    <3>1. read' = [read EXCEPT ![t] = Nothing] /\ stage'[t] # "apply"
      BY <2>2 DEF Apply, Reloaded, IInv, TypeOK
    <3> QED
      BY <1>3, <2>0, <3>1 DEF IInv, TypeOK, Places
  <2>3. CASE ~ Load(t) /\ ~ Apply(t)
    <3>1. read' = read /\ stage'[t] # "apply"
      BY <2>3 DEF Tick, Stat, StatFails, Unchanged, Claim, LoadFails, Lookup, Reloaded, IInv, TypeOK
    <3> QED
      BY <1>3, <2>0, <3>1 DEF IInv, TypeOK, Places
  <2> QED
    BY <2>1, <2>2, <2>3
<1>7. TypeOK'
  <2>1. settings' \in Taken /\ read' \in [Threads -> Machine \cup {Nothing}]
    BY <1>5, <1>6 DEF IInv, Owned
  <2>2. stage' \in [Threads -> Stages]
    BY <1>3 DEF IInv, TypeOK
  <2>3. \A u \in Threads \ {"poll"} : msg'[u] = Nothing <=> stage'[u] = "idle"
    BY <1>1, <1>3, <1>4 DEF IInv, TypeOK
  <2> QED
    BY <1>1, <1>2, <1>5, <2>1, <2>2, <2>3 DEF IInv, TypeOK, Taken
<1>8. Places'
  BY <1>1, <1>3, <1>4, <1>6 DEF IInv, TypeOK, Places
<1>9. Owned' /\ Below'
  BY <1>1, <1>5, <1>6 DEF IInv, Owned, Below, Granted
<1> QED
  BY <1>1, <1>7, <1>8, <1>9, QuietKeeps DEF IInv, store

(* The level is settled for the message in hand, which nobody approved if  *)
(* the router has it.                                                      *)
LEMMA ResolveKeeps ==
    ASSUME IInv, up' \in BOOLEAN, NEW t \in Threads,
           (t = "router" /\ Withhold) \/ Frame(t)
    PROVE  IInv'
<1> USE ThreadNames, ReceiverAssumption DEF GoTo, owner, reloading, store, life, past
<1>1. UNCHANGED <<config, settings, settingsAt, saw, read, had, msg, held, disk, up, fate,
                  decided, shown, starts, faults>>
  BY DEF Withhold, Frame
<1>2. t # "poll" /\ msg[t] \in Messages
  BY DEF Withhold, Frame, IInv, TypeOK, Places
<1>3. Level(t) \in Levels /\ Granted(msg[t], Level(t))
  BY <1>2, LevelGiven
<1>4. CASE Frame(t)
  <2>1. /\ stage' = [stage EXCEPT ![t] = "hand"]
        /\ level' = [level EXCEPT ![t] = level'[t]]
        /\ level'[t] \in Levels \ {"hold"}
        /\ t = "router" => level'[t] = Level(t)
    BY <1>3, <1>4 DEF Frame, IInv, TypeOK, Levels, Default
  <2>2. TypeOK'
    <3>1. /\ level' \in [Threads -> (Levels \ {"hold"}) \cup {Nothing}]
          /\ stage' \in [Threads -> Stages]
      BY <2>1 DEF IInv, TypeOK, Stages
    <3>2. \A u \in Threads \ {"poll"} : msg[u] = Nothing <=> stage'[u] = "idle"
      BY <1>2, <2>1 DEF IInv, TypeOK
    <3> QED
      BY <1>1, <3>1, <3>2 DEF IInv, TypeOK
  <2>3. Places'
    BY <1>1, <1>2, <2>1 DEF IInv, TypeOK, Places
  <2>4. level'["router"] # Nothing => Granted(msg["router"], level'["router"])
    BY <1>3, <2>1 DEF IInv, TypeOK, Below
  <2>5. Owned' /\ Below'
    BY <1>1, <2>4 DEF IInv, Owned, Below, Granted
  <2> QED
    BY <1>1, <2>2, <2>3, <2>5, QuietKeeps DEF IInv
<1>5. CASE t = "router" /\ Withhold
  <2>1. stage' = [stage EXCEPT !["router"] = "hold"] /\ level' = level
        /\ level["router"] = Nothing
    BY <1>5 DEF Withhold, IInv, Places
  <2>2. TypeOK'
    BY <1>1, <1>2, <1>5, <2>1 DEF IInv, TypeOK, Stages
  <2>3. Places'
    BY <1>1, <2>1 DEF IInv, TypeOK, Places
  <2>4. Owned' /\ Below'
    BY <1>1, <2>1 DEF IInv, Owned, Below, Granted
  <2> QED
    BY <1>1, <2>2, <2>3, <2>4, QuietKeeps DEF IInv
<1> QED
  BY <1>4, <1>5

LEMMA EditKeeps == ASSUME IInv, up' \in BOOLEAN, NEW s \in Machine, Edit(s) PROVE IInv'
<1> USE ReceiverAssumption DEF owner, reloading, store, life, past
<1>1. /\ UNCHANGED <<settings, settingsAt, saw, read, stage, level, msg, held, disk, up, fate,
                     decided, shown, starts, faults>>
      /\ config' = [trust |-> s, at |-> config.at + 1] /\ config.at < Edits
      /\ had' = had \cup {WithDefault(s)}
  BY DEF Edit
<1>2. TypeOK'
  BY <1>1 DEF IInv, TypeOK
<1>3. Places'
  BY <1>1 DEF IInv, Places
<1>4. Owned'
  BY <1>1 DEF IInv, Owned, Taken
<1>5. Below'
  BY <1>1 DEF IInv, Below, Granted
<1> QED
  BY <1>1, <1>2, <1>3, <1>4, <1>5, QuietKeeps DEF IInv

(* A message comes into the router's hands for the first time.             *)
LEMMA ArriveKeeps == ASSUME IInv, up' \in BOOLEAN, NEW m \in Messages, Arrive(m) PROVE IInv'
<1> USE ThreadNames, ReceiverAssumption DEF GoTo, owner, reloading, store, life
<1>1. /\ UNCHANGED <<config, settings, settingsAt, saw, read, level, had, held, disk, up,
                     decided, shown, starts, faults>>
      /\ stage["router"] = "idle" /\ stage' = [stage EXCEPT !["router"] = "lookup"]
      /\ fate[m] = "new" /\ fate' = [fate EXCEPT ![m] = "arrived"]
      /\ msg' = [msg EXCEPT !["router"] = m]
  BY DEF Arrive
<1>2. \A t \in Threads : msg[t] # m
  <2>1. m # Nothing /\ Handled
    BY DEF IInv
  <2> QED
    BY <1>1, <2>1 DEF Handled
<1>3. TypeOK'
  <2>1. TypeOK
    BY DEF IInv
  <2>2. stage' \in [Threads -> Stages] /\ fate' \in [Messages -> Fates]
    BY <1>1, <2>1 DEF TypeOK, Stages, Fates
  <2>3. msg' \in [Threads -> Messages \cup {Nothing}]
    BY <1>1, <2>1 DEF TypeOK
  <2>4. \A t \in Threads \ {"poll"} : msg'[t] = Nothing <=> stage'[t] = "idle"
    BY <1>1, <2>1 DEF TypeOK
  <2> QED
    BY <1>1, <2>1, <2>2, <2>3, <2>4 DEF TypeOK
<1>4. Places'
  BY <1>1 DEF IInv, TypeOK, Places
<1>5. Handled'
  BY <1>1, <1>2 DEF IInv, TypeOK, Handled
<1>6. Away' /\ Counted' /\ KeptSurvives'
  <2>1. \A x \in Messages : fate'[x] = IF x = m THEN "arrived" ELSE fate[x]
    BY <1>1 DEF IInv, TypeOK
  <2>2. Away'
    BY <1>1, <2>1 DEF IInv, Away, Gone, Unique
  <2>3. Counted' /\ KeptSurvives'
    BY <1>1, <2>1 DEF IInv, Counted, KeptSurvives
  <2> QED
    BY <2>2, <2>3
<1>7. Owned'
  BY <1>1 DEF IInv, Owned
<1>8. Below'
  BY <1>1 DEF IInv, Places, Below, Granted
<1> QED
  BY <1>3, <1>4, <1>5, <1>6, <1>7, <1>8 DEF IInv

(* A message leaves the hands of a goroutine without coming into a list.   *)
LEMMA FailsKeeps == ASSUME IInv, up' \in BOOLEAN, NEW t \in Threads, Fails(t) PROVE IInv'
<1> USE ThreadNames, ReceiverAssumption DEF GoTo, owner, reloading, store, life
<1>1. /\ UNCHANGED <<config, settings, settingsAt, saw, read, had, held, disk, up,
                     decided, shown, starts, faults>>
      /\ stage[t] \in {"lookup", "hand"}
      /\ level' = [level EXCEPT ![t] = Nothing]
  BY DEF Fails
<1>2. t # "poll" /\ msg[t] \in Messages
  BY <1>1 DEF IInv, TypeOK, Places
<1>3. CASE t = "router"
  <2>1. /\ stage' = [stage EXCEPT ![t] = "idle"] /\ msg' = [msg EXCEPT ![t] = Nothing]
        /\ fate' = [fate EXCEPT ![msg[t]] = "refused"]
    BY <1>3 DEF Fails
  <2>2. TypeOK'
    BY <1>1, <1>2, <2>1 DEF IInv, TypeOK, Stages, Fates
  <2>3. Places'
    BY <1>1, <1>3, <2>1 DEF IInv, TypeOK, Places
  <2>4. Handled'
    BY <1>1, <1>2, <2>1 DEF IInv, TypeOK, Handled
  <2>5. Away' /\ Counted' /\ KeptSurvives'
    <3>1. \A x \in Messages : fate'[x] = IF x = msg[t] THEN "refused" ELSE fate[x]
      BY <1>2, <2>1 DEF IInv, TypeOK
    <3>2. fate[msg[t]] \in {"arrived", "approving"}
      BY <1>2 DEF IInv, TypeOK, Handled
    <3>3. Away'
      BY <1>1, <1>2, <3>1, <3>2 DEF IInv, Away, Gone, Unique
    <3>4. Counted' /\ KeptSurvives'
      BY <1>1, <1>2, <3>1, <3>2 DEF IInv, Counted, KeptSurvives
    <3> QED
      BY <3>3, <3>4
  <2>6. Owned' /\ Below'
    BY <1>1, <1>3 DEF IInv, TypeOK, Owned, Below, Granted
  <2> QED
    BY <2>2, <2>3, <2>4, <2>5, <2>6 DEF IInv
<1>4. CASE t # "router"
  <2>1. stage' = [stage EXCEPT ![t] = "putBack"] /\ UNCHANGED <<msg, fate>>
    BY <1>4 DEF Fails
  <2>2. TypeOK'
    BY <1>1, <1>2, <2>1 DEF IInv, TypeOK, Stages
  <2>3. Places'
    BY <1>1, <1>2, <1>4, <2>1 DEF IInv, TypeOK, Places
  <2>4. Owned' /\ Below'
    BY <1>1, <1>4, <2>1 DEF IInv, TypeOK, Owned, Below, Granted
  <2> QED
    BY <1>1, <2>1, <2>2, <2>3, <2>4, QuietKeeps DEF IInv
<1> QED
  BY <1>3, <1>4

LEMMA HandKeeps == ASSUME IInv, up' \in BOOLEAN, NEW t \in Threads, Hand(t) PROVE IInv'
<1> USE ThreadNames, ReceiverAssumption DEF GoTo, owner, reloading, store, life
<1>1. /\ UNCHANGED <<config, settings, settingsAt, saw, read, had, held, disk, up, starts, faults>>
      /\ stage[t] = "hand" /\ stage' = [stage EXCEPT ![t] = "idle"]
      /\ fate' = [fate EXCEPT ![msg[t]] = "handed"]
      /\ decided' = [decided EXCEPT ![msg[t]] = @ + 1]
      /\ shown' = [shown EXCEPT ![msg[t]] = IF t = "router" THEN level[t] ELSE @]
      /\ msg' = [msg EXCEPT ![t] = Nothing] /\ level' = [level EXCEPT ![t] = Nothing]
  BY DEF Hand
<1>2. t # "poll" /\ msg[t] \in Messages
  BY <1>1 DEF IInv, TypeOK, Places
<1>3. TypeOK'
  BY <1>1, <1>2 DEF IInv, TypeOK, Stages, Fates
<1>4. Places'
  BY <1>1, <1>2 DEF IInv, TypeOK, Places
<1>5. Handled'
  BY <1>1, <1>2 DEF IInv, TypeOK, Handled
<1>6. /\ \A x \in Messages : fate'[x] = IF x = msg[t] THEN "handed" ELSE fate[x]
      /\ fate[msg[t]] \in {"arrived", "approving"}
  BY <1>1, <1>2 DEF IInv, TypeOK, Handled
<1>7. Away' /\ KeptSurvives' /\ Counted'
  <2>1. Away'
    BY <1>1, <1>2, <1>6 DEF IInv, Away, Gone, Unique
  <2>2. KeptSurvives'
    BY <1>1, <1>6 DEF IInv, KeptSurvives
  <2>3. Counted'
    BY <1>1, <1>2, <1>6 DEF IInv, TypeOK, Counted
  <2> QED
    BY <2>1, <2>2, <2>3
<1>8. Owned'
  BY <1>1 DEF IInv, Owned
<1>9. Below'
  BY <1>1, <1>2 DEF IInv, TypeOK, Below, Granted
<1> QED
  BY <1>3, <1>4, <1>5, <1>7, <1>8, <1>9 DEF IInv

(* A message goes from a goroutine's hands into the list, and what it      *)
(* pushes out is no longer promised.                                       *)
LEMMA AddKeeps ==
    ASSUME IInv, up' \in BOOLEAN, NEW t \in Threads, NEW from \in {"hold", "putBack"},
           Add(t, msg[t], from)
    PROVE  IInv'
<1> USE ThreadNames, ReceiverAssumption DEF GoTo, owner, reloading, life, Write, Fault
<1> DEFINE m == msg[t]
           kept == Added(m)
<1>1. /\ UNCHANGED <<config, settings, settingsAt, saw, read, had, level, up, starts,
                     decided, shown>>
      /\ stage[t] = from /\ stage' = [stage EXCEPT ![t] = "idle"]
      /\ held' = kept
      /\ \/ disk' = kept /\ faults' = faults
         \/ faults < Faults /\ faults' = faults + 1 /\ disk' = disk
      /\ fate' = [x \in Messages |->
                    IF x = m THEN IF faults' = faults THEN "kept" ELSE "mislaid"
                    ELSE IF x \in Range(held) \ Range(kept) THEN "pushedOut"
                    ELSE fate[x]]
      /\ msg' = [msg EXCEPT ![t] = Nothing]
  BY DEF Add
<1>2. t # "poll" /\ m \in Messages /\ up
  BY <1>1 DEF IInv, TypeOK, Places, Add
<1>3. m \notin Range(held) \cup Range(disk) /\ fate[m] \in {"arrived", "approving"}
  BY <1>2 DEF IInv, TypeOK, Handled, Away, Gone
<1>4. /\ kept \in Seq(Messages) /\ Len(kept) <= HeldLimit
      /\ m \in Range(kept) /\ Range(kept) \subseteq Range(held) \cup {m}
      /\ Unique(kept)
  BY <1>2, <1>3, AddedElements DEF IInv, TypeOK, Away
<1> HIDE DEF kept, m
<1>5. TypeOK'
  <2>1. fate' \in [Messages -> Fates]
    <3>1. \A x \in Messages : fate[x] \in Fates
      BY DEF IInv, TypeOK
    <3> QED
      BY <1>1, <3>1 DEF Fates
  <2>2. faults' \in 0..Faults
    BY <1>1 DEF IInv, TypeOK
  <2>3. stage' \in [Threads -> Stages] /\ msg' \in [Threads -> Messages \cup {Nothing}]
    BY <1>1 DEF IInv, TypeOK, Stages
  <2>4. \A u \in Threads \ {"poll"} : msg'[u] = Nothing <=> stage'[u] = "idle"
    BY <1>1, <1>2 DEF IInv, TypeOK
  <2> QED
    BY <1>1, <1>4, <2>1, <2>2, <2>3, <2>4 DEF IInv, TypeOK
<1>6. Places'
  BY <1>1, <1>2 DEF IInv, TypeOK, Places
<1>7. Handled'
  <2>1. \A u \in Threads : msg'[u] = IF u = t THEN Nothing ELSE msg[u]
    BY <1>1 DEF IInv, TypeOK
  <2>2. \A u \in Threads : u # t /\ msg[u] # Nothing =>
           msg[u] \in Messages /\ msg[u] # m /\ fate[msg[u]] \in {"arrived", "approving"}
    BY <1>2 DEF IInv, TypeOK, Handled, m
  <2>3. \A u \in Threads : u # t /\ msg[u] # Nothing => msg[u] \notin Range(held)
    BY <2>2 DEF IInv, Away, Gone
  <2>4. \A u \in Threads : u # t /\ msg[u] # Nothing => fate'[msg[u]] = fate[msg[u]]
    BY <1>1, <2>2, <2>3
  <2> QED
    BY <1>2, <2>1, <2>2, <2>4 DEF IInv, Handled
<1>8. Away'
  <2>1. Unique(held') /\ Unique(disk')
    BY <1>1, <1>4 DEF IInv, Away
  <2>2. ASSUME NEW x \in Messages, fate'[x] \in Gone
        PROVE  x \notin Range(held') \cup Range(disk')
    <3>1. x # m /\ fate[x] \in Gone
      BY <1>1, <2>2 DEF Gone
    <3>2. x \notin Range(held) \cup Range(disk)
      BY <3>1 DEF IInv, Away
    <3> QED
      BY <1>1, <1>4, <3>1, <3>2
  <2> QED
    BY <2>1, <2>2 DEF Away, Unique
<1>9. Counted'
  <2>1. ASSUME NEW x \in Messages
        PROVE  decided'[x] = IF fate'[x] \in {"handed", "discarded"} THEN 1 ELSE 0
    <3>1. decided[x] = IF fate[x] \in {"handed", "discarded"} THEN 1 ELSE 0
      BY DEF IInv, Counted
    <3>2. x \in Range(held) => fate[x] \notin {"handed", "discarded"}
      BY DEF IInv, Away, Gone
    <3> QED
      BY <1>1, <1>3, <3>1, <3>2 DEF m
  <2> QED
    BY <2>1 DEF Counted
<1>10. KeptSurvives'
  <2>1. ASSUME NEW x \in Messages, fate'[x] = "kept"
        PROVE  x \in Range(disk') /\ x \in Range(held')
    <3>1. CASE x = m
      BY <1>1, <1>4, <2>1, <3>1 DEF IInv, TypeOK
    <3>2. CASE x # m
      <4>1. fate[x] = "kept" /\ ~ (x \in Range(held) \ Range(kept))
        BY <1>1, <2>1, <3>2
      <4>2. x \in Range(disk) /\ x \in Range(held)
        BY <1>2, <4>1 DEF IInv, KeptSurvives
      <4> QED
        BY <1>1, <4>1, <4>2
    <3> QED
      BY <3>1, <3>2
  <2> QED
    BY <2>1 DEF KeptSurvives
<1>11. Owned'
  BY <1>1 DEF IInv, Owned
<1>12. Below'
  <2>1. level["router"] # Nothing => t # "router"
    BY <1>1 DEF IInv, Places
  <2> QED
    BY <1>1, <2>1 DEF IInv, TypeOK, Below, Granted
<1> QED
  BY <1>5, <1>6, <1>7, <1>8, <1>9, <1>10, <1>11, <1>12 DEF IInv

(* A message goes from the list into the hands of a connection, or is      *)
(* discarded; if the file could not be written, it is neither, and what    *)
(* becomes of it is not promised.                                          *)
LEMMA TakeKeeps ==
    ASSUME IInv, up' \in BOOLEAN, NEW t \in Approvers, NEW m \in Messages,
           Approve(t, m) \/ Discard(t, m)
    PROVE  IInv'
<1> USE ThreadNames, ReceiverAssumption DEF GoTo, owner, reloading, life, Fault
<1>1. PICK i \in DOMAIN held :
        /\ held[i] = m /\ held' = RemoveAt(held, i)
        /\ \/ disk' = RemoveAt(held, i) /\ faults' = faults
           \/ faults < Faults /\ faults' = faults + 1 /\ disk' = disk
  BY DEF Approve, Discard, Take, Write
<1> DEFINE kept == RemoveAt(held, i)
<1>2. /\ UNCHANGED <<config, settings, settingsAt, saw, read, had, level, up, starts, shown>>
      /\ up /\ stage[t] = "idle"
      /\ \/ /\ Approve(t, m) /\ faults' = faults /\ decided' = decided
            /\ stage' = [stage EXCEPT ![t] = "lookup"]
            /\ msg' = [msg EXCEPT ![t] = m]
            /\ fate' = [fate EXCEPT ![m] = "approving"]
         \/ /\ Discard(t, m) /\ faults' = faults
            /\ stage' = [stage EXCEPT ![t] = "idle"] /\ msg' = msg
            /\ fate' = [fate EXCEPT ![m] = "discarded"]
            /\ decided' = [decided EXCEPT ![m] = @ + 1]
         \/ /\ faults' # faults /\ decided' = decided
            /\ stage' = [stage EXCEPT ![t] = "idle"] /\ msg' = msg
            /\ fate' = [fate EXCEPT ![m] = "mislaid"]
  BY DEF Approve, Discard
<1>3. /\ kept \in Seq(Messages) /\ Len(kept) <= HeldLimit
      /\ Range(kept) = Range(held) \ {m} /\ Unique(kept)
  BY <1>1, RemoveAtElements DEF IInv, TypeOK, Away
<1>4. m \in Range(held) /\ fate[m] \notin Gone
  BY <1>1 DEF IInv, Away, Range
<1>5. msg[t] = Nothing /\ \A u \in Threads : msg[u] # m
  <2>1. m # Nothing /\ msg[t] = Nothing
    BY <1>2 DEF IInv, TypeOK
  <2> QED
    BY <1>4, <2>1 DEF IInv, Handled, Gone
<1> HIDE DEF kept
<1>6. \A x \in Messages : fate'[x] = IF x = m THEN fate'[m] ELSE fate[x]
  BY <1>2 DEF IInv, TypeOK
<1>7. fate'[m] \in {"approving", "discarded", "mislaid"}
  BY <1>2 DEF IInv, TypeOK
<1>8. TypeOK'
  <2>1. fate' \in [Messages -> Fates] /\ decided' \in [Messages -> Nat]
    <3>1. PICK f \in Fates : fate' = [fate EXCEPT ![m] = f]
      BY <1>2 DEF Fates
    <3>2. decided' = decided \/ decided' = [decided EXCEPT ![m] = @ + 1]
      BY <1>2
    <3>3. fate \in [Messages -> Fates] /\ decided \in [Messages -> Nat]
      BY DEF IInv, TypeOK
    <3> QED
      BY <3>1, <3>2, <3>3
  <2>2. faults' \in 0..Faults
    <3>1. faults \in 0..Faults /\ Faults \in Nat
      BY DEF IInv, TypeOK
    <3> QED
      BY <1>1, <3>1
  <2>3. stage' \in [Threads -> Stages] /\ msg' \in [Threads -> Messages \cup {Nothing}]
    <3>1. PICK z \in Stages : stage' = [stage EXCEPT ![t] = z]
      BY <1>2 DEF Stages
    <3>2. msg' = msg \/ msg' = [msg EXCEPT ![t] = m]
      BY <1>2
    <3>3. stage' \in [Threads -> Stages]
      BY <3>1 DEF IInv, TypeOK
    <3>4. msg' \in [Threads -> Messages \cup {Nothing}]
      BY <3>2 DEF IInv, TypeOK
    <3> QED
      BY <3>3, <3>4
  <2>4. \A u \in Threads \ {"poll"} : msg'[u] = Nothing <=> stage'[u] = "idle"
    <3>1. /\ \A u \in Threads \ {"poll"} : msg[u] = Nothing <=> stage[u] = "idle"
          /\ DOMAIN stage = Threads /\ DOMAIN msg = Threads /\ m # Nothing
      BY DEF IInv, TypeOK
    <3>2. CASE msg' = msg /\ stage' = [stage EXCEPT ![t] = "idle"]
      BY <1>2, <3>1, <3>2
    <3>3. CASE msg' = [msg EXCEPT ![t] = m] /\ stage' = [stage EXCEPT ![t] = "lookup"]
      BY <3>1, <3>3
    <3> QED
      BY <1>2, <3>2, <3>3
  <2>5. /\ held' \in Seq(Messages) /\ Len(held') <= HeldLimit
        /\ disk' \in Seq(Messages) /\ Len(disk') <= HeldLimit
    BY <1>1, <1>3 DEF IInv, TypeOK, kept
  <2>6. TypeOK
    BY DEF IInv
  <2> QED
    BY <1>2, <2>1, <2>2, <2>3, <2>4, <2>5, <2>6 DEF TypeOK
<1>9. Places'
  BY <1>2 DEF IInv, TypeOK, Places
<1>10. Handled'
  <2>1. CASE msg' = msg
    <3>1. Handled /\ \A u \in Threads : msg[u] \in Messages \cup {Nothing}
      BY DEF IInv, TypeOK
    <3>2. \A u \in Threads : msg[u] # Nothing => fate'[msg[u]] = fate[msg[u]]
      BY <1>5, <1>6, <3>1
    <3> QED
      BY <2>1, <3>1, <3>2 DEF Handled
  <2>2. CASE msg' # msg
    <3>1. /\ \A u \in Threads : msg'[u] = IF u = t THEN m ELSE msg[u]
          /\ fate'[m] = "approving"
      BY <1>2, <2>2 DEF IInv, TypeOK
    <3>2. \A u \in Threads \ {t} : msg[u] # Nothing => fate'[msg[u]] = fate[msg[u]]
      BY <1>5, <1>6 DEF IInv, TypeOK
    <3> QED
      BY <1>5, <3>1, <3>2 DEF IInv, Handled
  <2> QED
    BY <2>1, <2>2
<1>11. Away'
  <2>1. Unique(held') /\ Unique(disk')
    BY <1>1, <1>3 DEF IInv, Away, kept
  <2>2. ASSUME NEW x \in Messages, fate'[x] \in Gone
        PROVE  x \notin Range(held') \cup Range(disk')
    <3>1. CASE x = m
      <4>1. faults' = faults
        BY <1>2, <2>2, <3>1 DEF IInv, TypeOK, Gone
      <4>2. held' = kept /\ disk' = kept
        BY <1>1, <4>1 DEF IInv, TypeOK, kept
      <4> QED
        BY <1>3, <3>1, <4>2
    <3>2. CASE x # m
      <4>1. x \notin Range(held) \cup Range(disk)
        BY <1>6, <2>2, <3>2 DEF IInv, Away
      <4> QED
        BY <1>1, <1>3, <4>1 DEF kept
    <3> QED
      BY <3>1, <3>2
  <2> QED
    BY <2>1, <2>2 DEF Away, Unique
<1>12. Counted'
  <2>1. decided[m] = 0
    BY <1>4 DEF IInv, Counted, Gone
  <2>2. decided'[m] = IF fate'[m] \in {"handed", "discarded"} THEN 1 ELSE 0
    BY <1>2, <2>1 DEF IInv, TypeOK
  <2>3. \A x \in Messages : x # m => decided'[x] = decided[x]
    BY <1>2 DEF IInv, TypeOK
  <2> QED
    BY <1>6, <2>2, <2>3 DEF IInv, Counted
<1>13. KeptSurvives'
  <2>1. ASSUME NEW x \in Messages, fate'[x] = "kept"
        PROVE  x \in Range(disk') /\ x \in Range(held')
    <3>1. x # m /\ fate[x] = "kept"
      BY <1>6, <1>7, <2>1
    <3>2. x \in Range(disk) /\ x \in Range(held)
      BY <1>2, <3>1 DEF IInv, KeptSurvives
    <3> QED
      BY <1>1, <1>3, <3>1, <3>2 DEF kept
  <2> QED
    BY <2>1 DEF KeptSurvives
<1>14. Owned' /\ Below'
  <2>1. msg'["router"] = msg["router"]
    BY <1>2 DEF IInv, TypeOK
  <2> QED
    BY <1>2, <2>1 DEF IInv, Owned, Below, Granted
<1> QED
  BY <1>8, <1>9, <1>10, <1>11, <1>12, <1>13, <1>14 DEF IInv

(* The daemon dies: what its goroutines had in hand is lost, and what it   *)
(* held is in the file.                                                    *)
LEMMA DiesKeeps == ASSUME IInv, up' \in BOOLEAN, Dies PROVE IInv'
<1> USE ThreadNames, ReceiverAssumption DEF owner
<1>1. /\ UNCHANGED <<config, had, settings, settingsAt, disk, starts, faults, decided, shown>>
      /\ ~ up' /\ held' = <<>>
      /\ stage' = [t \in Threads |-> "idle"]
      /\ saw' = [t \in Threads |-> 0]
      /\ read' = [t \in Threads |-> Nothing]
      /\ msg' = [t \in Threads |-> Nothing]
      /\ level' = [t \in Threads |-> Nothing]
      /\ fate' = [m \in Messages |-> IF m \in Range(msg) THEN "lost" ELSE fate[m]]
  BY DEF Dies
<1>2. ASSUME NEW m \in Messages, m \in Range(msg)
      PROVE  fate[m] \in {"arrived", "approving"}
  BY <1>2 DEF IInv, TypeOK, Handled, Range
<1>3. TypeOK'
  <2>1. fate' \in [Messages -> Fates]
    <3>1. \A m \in Messages : fate[m] \in Fates
      BY DEF IInv, TypeOK
    <3> QED
      BY <1>1, <3>1 DEF Fates
  <2>2. /\ stage' \in [Threads -> Stages]
        /\ saw' \in [Threads -> 0..Edits]
        /\ read' \in [Threads -> Machine \cup {Nothing}]
        /\ msg' \in [Threads -> Messages \cup {Nothing}]
        /\ level' \in [Threads -> (Levels \ {"hold"}) \cup {Nothing}]
    BY <1>1 DEF Stages
  <2>3. \A t \in Threads \ {"poll"} : msg'[t] = Nothing <=> stage'[t] = "idle"
    BY <1>1
  <2>4. held' \in Seq(Messages) /\ Len(held') <= HeldLimit
    BY <1>1
  <2> QED
    BY <1>1, <2>1, <2>2, <2>3, <2>4 DEF IInv, TypeOK
<1>4. Places' /\ Handled'
  BY <1>1 DEF Places, Handled
<1>5. Away'
  <2>1. Unique(held') /\ Range(held') = {}
    BY <1>1 DEF Unique, Range
  <2>2. ASSUME NEW m \in Messages, fate'[m] \in Gone PROVE m \notin Range(disk)
    BY <1>1, <1>2, <2>2 DEF IInv, Away, Gone
  <2> QED
    BY <1>1, <2>1, <2>2 DEF IInv, Away, Unique
<1>6. Counted'
  BY <1>1, <1>2 DEF IInv, Counted
<1>7. KeptSurvives'
  BY <1>1 DEF IInv, KeptSurvives
<1>8. Owned'
  BY <1>1 DEF IInv, Owned
<1>9. Below'
  BY <1>1 DEF IInv, Below, Granted
<1> QED
  BY <1>3, <1>4, <1>5, <1>6, <1>7, <1>8, <1>9 DEF IInv

(* It is started again, and reads both files.                              *)
LEMMA StartKeeps == ASSUME IInv, up' \in BOOLEAN, Start PROVE IInv'
<1> USE ThreadNames, ReceiverAssumption DEF owner, past
<1>1. /\ UNCHANGED <<config, had, stage, saw, read, msg, level, disk, faults, fate, decided, shown>>
      /\ starts < Starts /\ starts' = starts + 1
      /\ held' = disk
      /\ settings' = WithDefault(config.trust) /\ settingsAt' = 0
  BY DEF Start
<1>2. settings' \in had
  BY <1>1 DEF IInv, Owned
<1>3. TypeOK'
  <2>1. settings' \in Taken
    BY <1>2 DEF IInv, Owned
  <2>2. starts' \in 1..Starts /\ settingsAt' \in 0..Edits
    BY <1>1 DEF IInv, TypeOK
  <2> QED
    BY <1>1, <2>1, <2>2 DEF IInv, TypeOK, Taken
<1>4. Places' /\ Handled'
  BY <1>1 DEF IInv, Places, Handled
<1>5. Away' /\ KeptSurvives' /\ Counted'
  BY <1>1 DEF IInv, Away, KeptSurvives, Counted, Unique
<1>6. Owned' /\ Below'
  BY <1>1, <1>2 DEF IInv, Owned, Below, Granted
<1> QED
  BY <1>3, <1>4, <1>5, <1>6 DEF IInv

LEMMA NextInvariant == ASSUME IInv, [Next]_vars PROVE IInv'
<1>1. up' \in BOOLEAN
  BY NextUp DEF IInv, TypeOK
<1>2. CASE Tick
  BY <1>1, <1>2, RereadKeeps, ThreadNames
<1>3. CASE Withhold
  BY <1>1, <1>3, ResolveKeeps, ThreadNames
<1>4. CASE Hold
  <2>1. Add("router", msg["router"], "hold")
    BY <1>4 DEF Hold
  <2> QED
    BY <1>1, <2>1, AddKeeps, ThreadNames
<1>5. CASE Dies \/ Start
  BY <1>1, <1>5, DiesKeeps, StartKeeps
<1>6. ASSUME NEW t \in Threads, Step(t) PROVE IInv'
  BY <1>1, <1>6, RereadKeeps, ResolveKeeps, FailsKeeps, HandKeeps DEF Step
<1>7. ASSUME NEW m \in Messages, Arrive(m) PROVE IInv'
  BY <1>1, <1>7, ArriveKeeps
<1>8. ASSUME NEW t \in Approvers, PutBack(t) PROVE IInv'
  <2>1. Add(t, msg[t], "putBack")
    BY <1>8 DEF PutBack
  <2> QED
    BY <1>1, <2>1, AddKeeps, ThreadNames
<1>9. ASSUME NEW t \in Approvers, NEW m \in Messages, Approve(t, m) \/ Discard(t, m)
      PROVE  IInv'
  BY <1>1, <1>9, TakeKeeps
<1>10. ASSUME NEW s \in Machine, Edit(s) PROVE IInv'
  BY <1>1, <1>10, EditKeeps
<1>11. CASE UNCHANGED vars
  <2>1. TypeOK' /\ Places' /\ Handled' /\ Counted'
    BY <1>11 DEF vars, IInv, TypeOK, Places, Handled, Counted
  <2>2. Away' /\ KeptSurvives'
    BY <1>11 DEF vars, IInv, Away, KeptSurvives, Unique
  <2>3. Owned' /\ Below'
    BY <1>11 DEF vars, IInv, Owned, Below, Granted
  <2> QED
    BY <2>1, <2>2, <2>3 DEF IInv
<1> QED
  BY <1>2, <1>3, <1>4, <1>5, <1>6, <1>7, <1>8, <1>9, <1>10, <1>11 DEF Next

LEMMA ReceiverInvariant == Spec => []IInv
<1>1. IInv /\ [Next]_vars => IInv'
  BY NextInvariant
<1> QED
  BY InitInvariant, <1>1, PTL DEF Spec

(* The fields and files of the daemon and what its goroutines have in hand *)
(* keep their shapes; no more than heldLimit messages are held.            *)
THEOREM ReceiverTyped == Spec => []TypeOK
BY ReceiverInvariant, PTL DEF IInv

(* held.go:82: whoever approves and drops, and whatever fails or dies, a   *)
(* message is handed over or discarded once at most.                       *)
THEOREM ReceiverDecidedOnce == Spec => []DecidedOnce
<1>1. IInv => DecidedOnce
  BY DEF IInv, Counted, DecidedOnce
<1> QED
  BY <1>1, ReceiverInvariant, PTL

(* held.go:34: a message that was reported as held is in the file, and in  *)
(* memory, until somebody decides on it or newer ones push it out.         *)
THEOREM ReceiverKeptSurvives == Spec => []KeptSurvives
BY ReceiverInvariant, PTL DEF IInv

(* held.go:82: a message that was handed over, discarded, refused or lost  *)
(* with the daemon stays so: it is in no list of held messages, and in     *)
(* nobody's hand.                                                          *)
THEOREM ReceiverDecisionsStand == Spec => DecisionsStand
<1> DEFINE Settled == {"handed", "discarded", "refused", "lost"}
           Stand == \A m \in Messages : fate[m] \in Settled => fate'[m] = fate[m]
<1>1. ASSUME IInv, [Next]_vars PROVE Stand
  <2> USE ThreadNames
  <2>1. /\ fate \in [Messages -> Fates]
        /\ msg \in [Threads -> Messages \cup {Nothing}]
        /\ \A t \in Threads \ {"poll"} : msg[t] = Nothing <=> stage[t] = "idle"
        /\ stage["poll"] \in {"idle", "stat", "claim", "load", "apply"}
        /\ Nothing \notin Messages
    BY <1>1, ReceiverAssumption DEF IInv, TypeOK, Places
  <2>2. \A t \in Threads : msg[t] # Nothing => fate[msg[t]] \notin Settled
    BY <1>1 DEF IInv, Handled
  <2>3. \A m \in Messages : fate[m] \in Settled => m \notin Range(held)
    BY <1>1 DEF IInv, Away, Gone
  <2>4. ASSUME NEW t \in Threads, Fails(t) \/ Hand(t) PROVE Stand
    <3>1. t # "poll" /\ stage[t] # "idle"
      BY <2>1, <2>4 DEF Fails, Hand, GoTo
    <3>2. msg[t] \in Messages /\ fate[msg[t]] \notin Settled
      BY <2>1, <2>2, <3>1
    <3>3. fate' = fate \/ \E f \in Fates : fate' = [fate EXCEPT ![msg[t]] = f]
      BY <2>4 DEF Fails, Hand, Fates
    <3> QED
      BY <2>1, <3>2, <3>3
  <2>5. ASSUME NEW m \in Messages, Arrive(m) PROVE Stand
    BY <2>1, <2>5 DEF Arrive
  <2>6. ASSUME NEW t \in Threads, NEW m, NEW from, t # "poll", m = msg[t],
               from # "idle", Add(t, m, from)
        PROVE  Stand
    <3>1. m \in Messages /\ fate[m] \notin Settled
      BY <2>1, <2>2, <2>6 DEF Add, GoTo
    <3>2. \A x \in Messages : fate'[x] = fate[x] \/ x = m \/ x \in Range(held)
      BY <2>6 DEF Add
    <3> QED
      BY <2>3, <3>1, <3>2
  <2>7. ASSUME NEW t \in Approvers, NEW m \in Messages, Approve(t, m) \/ Discard(t, m)
        PROVE  Stand
    <3>1. m \in Range(held)
      BY <2>7 DEF Approve, Discard, Take, Range
    <3>2. \E f \in Fates : fate' = [fate EXCEPT ![m] = f]
      BY <2>7 DEF Approve, Discard, Fates
    <3> QED
      BY <2>1, <2>3, <3>1, <3>2
  <2>8. CASE Dies
    BY <2>1, <2>2, <2>8 DEF Dies, Range
  <2>9. CASE Tick \/ Withhold \/ Start
    BY <2>9 DEF Tick, Withhold, Start, past
  <2>10. ASSUME NEW t \in Threads,
                Stat(t) \/ StatFails(t) \/ Unchanged(t) \/ Claim(t) \/ Load(t) \/ LoadFails(t)
                  \/ Apply(t) \/ Lookup(t) \/ Frame(t)
         PROVE  Stand
    BY <2>10 DEF Stat, StatFails, Unchanged, Claim, Load, LoadFails, Apply, Lookup, Frame, past
  <2>11. ASSUME NEW s \in Machine, Edit(s) PROVE Stand
    BY <2>11 DEF Edit, past
  <2>12. CASE UNCHANGED vars
    BY <2>12 DEF vars
  <2> QED
    BY <1>1, <2>4, <2>5, <2>6, <2>7, <2>8, <2>9, <2>10, <2>11, <2>12
       DEF Next, Step, Hold, PutBack
<1> QED
  BY <1>1, ReceiverInvariant, PTL DEF Spec, DecisionsStand

(* ADR-0006: a level nobody approved is one that neither side put lower,   *)
(* whatever is edited and reread while the message is delivered, and       *)
(* whatever words the settings hold.                                       *)
THEOREM ReceiverLevelGranted == Spec => []LevelGranted
<1>1. ASSUME IInv PROVE LevelGranted
  <2> SUFFICES ASSUME NEW m \in Messages, shown[m] # Nothing
               PROVE  \E s \in had :
                        IF "unknown" \in Said(m, s)
                          THEN shown[m] = "source"
                          ELSE /\ "hold" \notin Said(m, s)
                               /\ \A l \in Said(m, s) \cap Levels :
                                     Rank[shown[m]] <= Rank[l]
    BY DEF LevelGranted
  <2>1. PICK s \in had : shown[m] = Resolve(Said(m, s))
    BY <1>1 DEF IInv, Below, Granted
  <2>2. Said(m, s) \in SUBSET Opinions
    BY <1>1, SaidOpinions DEF IInv, Owned
  <2>3. shown[m] # "hold"
    BY <1>1, ReceiverAssumption DEF IInv, TypeOK
  <2>4. CASE "unknown" \in Said(m, s)
    BY <2>1, <2>2, <2>4, TrustMostRestrictive
  <2>5. CASE "unknown" \notin Said(m, s)
    <3>1. "hold" \notin Said(m, s)
      BY <2>1, <2>2, <2>3, <2>5, TrustHolds
    <3>2. \A l \in Said(m, s) \cap Levels : Rank[shown[m]] <= Rank[l]
      BY <2>1, <2>2, <2>5, TrustMostRestrictive
    <3> QED
      BY <2>5, <3>1, <3>2
  <2> QED
    BY <2>4, <2>5
<1> QED
  BY <1>1, ReceiverInvariant, PTL

-----------------------------------------------------------------------------
(* The settings, when reads of the configuration do not overlap.           *)

Reading(t) == stage[t] \in {"load", "apply"}
OneReads == \A t, u \in Threads : Reading(t) /\ Reading(u) => t = u
NoReadFails == \A t \in Threads : ~ LoadFails(t)

(* A stamp that is the file's says which settings are in force, unless     *)
(* they are just being read.                                               *)
SettingsTell ==
    up /\ settingsAt = config.at /\ (\A t \in Threads : ~ Reading(t))
        => settings = WithDefault(config.trust)

(* What has been read and what was seen is not newer than the file, and a  *)
(* read under the file's own stamp was a read of the file.                 *)
Follows ==
    /\ SettingsTell
    /\ up /\ settingsAt = config.at =>
          \A t \in Threads : stage[t] = "apply" => read[t] = config.trust
    /\ settingsAt <= config.at /\ \A t \in Threads : saw[t] <= config.at

LEMMA NextFollows ==
    ASSUME IInv, Follows, NoReadFails, OneReads', [Next]_vars
    PROVE  Follows'
<1> USE ThreadNames DEF Follows, SettingsTell, Reading, OneReads, GoTo, owner, reloading
<1>1. /\ config.at \in Nat \ {0} /\ settingsAt \in Nat
      /\ stage \in [Threads -> Stages] /\ saw \in [Threads -> 0..Edits]
      /\ read \in [Threads -> Machine \cup {Nothing}]
  BY ReceiverAssumption DEF IInv, TypeOK
<1>2. ASSUME UNCHANGED <<config, settings, settingsAt, saw, read, up>>,
             \A t \in Threads : stage'[t] \in {"load", "apply"} \/ Reading(t) => stage'[t] = stage[t]
      PROVE  Follows'
  BY <1>2
<1>3. ASSUME NEW t \in Threads, Stat(t) PROVE Follows'
  BY <1>1, <1>3 DEF Stat
<1>4. ASSUME NEW t \in Threads, StatFails(t) PROVE Follows'
  BY <1>1, <1>4 DEF StatFails
<1>5. ASSUME NEW t \in Threads, Unchanged(t) PROVE Follows'
  BY <1>1, <1>5 DEF Unchanged, Reloaded
<1>6. ASSUME NEW t \in Threads, Claim(t) PROVE Follows'
  <2>1. /\ stage' = [stage EXCEPT ![t] = "load"] /\ saw' = [saw EXCEPT ![t] = 0]
        /\ settingsAt' = saw[t] /\ UNCHANGED <<config, settings, read, up>>
    BY <1>6 DEF Claim, life
  <2>2. stage'[t] = "load" /\ \A u \in Threads : u # t => stage'[u] \notin {"load", "apply"}
    BY <1>1, <2>1
  <2> QED
    BY <1>1, <2>1, <2>2
<1>7. ASSUME NEW t \in Threads, Load(t) PROVE Follows'
  BY <1>1, <1>7 DEF Load, life
<1>8. ASSUME NEW t \in Threads, Apply(t) PROVE Follows'
  BY <1>1, <1>8 DEF Apply, Reloaded, life
<1>9. ASSUME NEW s \in Machine, Edit(s) PROVE Follows'
  <2>1. config'.at = config.at + 1 /\ UNCHANGED <<settingsAt, saw>>
    BY <1>9 DEF Edit
  <2>2. settingsAt' # config'.at
    BY <1>1, <2>1
  <2> QED
    BY <1>1, <2>1, <2>2
<1>10. CASE Dies
  BY <1>1, <1>10 DEF Dies
<1>11. CASE Start
  BY <1>1, <1>11 DEF Start
<1>12. ASSUME NEW t \in Threads, Lookup(t) \/ Fails(t) \/ Frame(t) \/ Hand(t) PROVE Follows'
  BY <1>1, <1>2, <1>12 DEF Lookup, Fails, Frame, Hand, life
<1>13. CASE Tick \/ Withhold
  BY <1>1, <1>2, <1>13 DEF Tick, Withhold, life
<1>14. ASSUME NEW t \in Threads, NEW m, NEW from \in {"hold", "putBack"}, Add(t, m, from)
       PROVE  Follows'
  BY <1>1, <1>2, <1>14 DEF Add, life
<1>15. ASSUME NEW m \in Messages, Arrive(m) PROVE Follows'
  BY <1>1, <1>2, <1>15 DEF Arrive, life
<1>16. ASSUME NEW t \in Approvers, NEW m \in Messages, Approve(t, m) \/ Discard(t, m)
       PROVE  Follows'
  BY <1>1, <1>2, <1>16 DEF Approve, Discard, life
<1>17. CASE UNCHANGED vars
  BY <1>17 DEF vars
<1> HIDE DEF Follows
<1> QED
  BY <1>3, <1>4, <1>5, <1>6, <1>7, <1>8, <1>9, <1>10, <1>11, <1>12, <1>13, <1>14, <1>15,
     <1>16, <1>17 DEF Next, Step, Hold, PutBack, NoReadFails

(* daemon.go:392: as long as no two goroutines read the configuration at   *)
(* once, and no read fails after its stamp was stored, a stamp that is the *)
(* file's tells that the file's settings are in force.  These two are all  *)
(* that can leave older ones behind: a lock held through reloadSettings,   *)
(* and a stamp taken back when a read fails, would be enough.              *)
THEOREM ReceiverSettingsTell == Spec /\ []OneReads /\ [][NoReadFails]_vars => []SettingsTell
<1>1. Init => Follows
  BY ReceiverAssumption DEF Init, Follows, SettingsTell
<1>2. IInv /\ Follows /\ OneReads' /\ [NoReadFails]_vars /\ [Next]_vars => Follows'
  <2>1. CASE UNCHANGED vars
    BY <2>1 DEF vars, Follows, SettingsTell, Reading
  <2>2. CASE NoReadFails
    BY <2>2, NextFollows
  <2> QED
    BY <2>1, <2>2
<1>3. Follows => SettingsTell
  BY DEF Follows
<1> QED
  BY <1>1, <1>2, <1>3, ReceiverInvariant, PTL DEF Spec
=============================================================================
