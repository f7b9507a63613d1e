----------------------------- MODULE Promotion -----------------------------
(***************************************************************************)
(* Which remote sessions get a native peer of their own, and what becomes  *)
(* of a frame written to one (daemon/daemon.go: wanted, reconcile,         *)
(* routeOutbound, resolveTarget; daemon/control.go: subscribe).            *)
(*                                                                         *)
(* The poll computes the peers it wants and makes the supervisor's agree;  *)
(* stage is where it is, between two reads of state that others write.     *)
(* wanted reads the policy without Daemon.mu, under which other goroutines *)
(* reread the settings (Reload) and subscribe or unsubscribe a session,    *)
(* the latter within the array the poll may be ranging over.  The router   *)
(* takes one frame at a time.                                              *)
(*                                                                         *)
(* The supervisor is reduced to what reconcile knows of it: Ensure returns *)
(* at once, Release when the process is gone.  How the settings are reread *)
(* is Receiver's.  A read of a string or slice header while it is written  *)
(* is taken to give the old or the new value.                              *)
(***************************************************************************)
EXTENDS Integers, FiniteSets, Sequences, SequencesExt, Functions

CONSTANTS
    Sessions,      \* remote sessions
    NameOf,        \* PeerName of each
    WorkspacePeer, \* the name of the peer that stands for all of them
    Blank,         \* PeerName of a session that is none
    Everybody,     \* the empty identifier, for which those two stand
    Someone,       \* a member who can be answered and exposes no session
    Policies,      \* what the settings may say
    Changes,       \* bound: what changes around the poll and the router
    Frames,        \* bound: frames that are written
    Nobody         \* no session, or no frame

Modes == {"auto", "manual", "off"}
Names == {NameOf[s] : s \in Sessions} \cup {WorkspacePeer, Blank}
Policy == [mode : Modes, cap : Nat, subscribed : Seq(Sessions)]

ASSUME PromotionAssumption ==
    /\ IsFiniteSet(Sessions)
    /\ IsInjective(NameOf) /\ DOMAIN NameOf = Sessions
    /\ WorkspacePeer # Blank /\ {WorkspacePeer, Blank} \cap Range(NameOf) = {}
    /\ {Everybody, Someone, Nobody} \cap Sessions = {}
    /\ Cardinality({Everybody, Someone, Nobody}) = 3
    /\ Policies \subseteq Policy
    /\ {Changes, Frames} \subseteq Nat

VARIABLES
    policy,  \* d.opts.Policy, with its cap resolved
    writing, \* the call of subscribe that holds Daemon.mu, or Nobody
    roster,  \* what the transport would answer
    ever,    \* its EverConnected
    recent,  \* d.lastUsed: the sessions in it, the latest first
    replyTo, \* d.replyTo: the sessions and people whose names it knows
    stage,   \* where the poll is
    listed,  \* the roster it has read
    view,    \* the slice it ranges over: what its elements are now ...
    shared,  \* ... and whether they are still those of the policy
    at,      \* how many of them it has read
    cands,   \* the candidates
    used,    \* its copy of lastUsed
    want,    \* the peers it wants, and the session each stands for
    running, \* the peers the supervisor runs
    peers,   \* d.peers
    frame,   \* the frame the router has, or Nobody
    changes, \* how much has changed
    frames,  \* how many frames were written
    round    \* history: what has been so at some time in this round

vars == <<policy, writing, roster, ever, recent, replyTo, stage, listed, view,
          shared, at, cands, used, want, running, peers, frame, changes, frames, round>>

settings == <<policy, writing>>
remote == <<roster, ever>>
local == <<listed, view, shared, at, cands, used, want>>
table == <<running, peers>>
routing == <<recent, replyTo, frame, frames>>

NoPeers == [n \in {} |-> Everybody]

(* Whom the policy, as it is in memory, would promote if it could be       *)
(* reached.                                                                *)
Asked(p) ==
    CASE p.mode = "auto"   -> Sessions
      [] p.mode = "manual" -> Range(p.subscribed)
      [] p.mode = "off"    -> {}

(* One session was used after another; those never used tie.               *)
After(r, s, t) ==
    \E i \in DOMAIN r : r[i] = s /\ t \notin Range(SubSeq(r, 1, i))

(* As Kept, with the sort the other way round.                             *)
KeptOldest(C, n, r) ==
    {K \in SUBSET C : /\ Cardinality(K) = n
                      /\ \A s \in K, t \in C \ K : ~ After(r, s, t)}

(* What a stable sort by last use leaves of candidates that come in any    *)
(* order, once cut to n.                                                   *)
Kept(C, n, r) ==
    {K \in SUBSET C : /\ Cardinality(K) = n
                      /\ \A s \in K, t \in C \ K : ~ After(r, t, s)}

(* Used now: the latest, and no longer where it was.                       *)
Touch(r, s) ==
    <<s>> \o (IF s \in Range(r) THEN RemoveAt(r, CHOOSE i \in DOMAIN r : r[i] = s) ELSE r)

NoRound == [listed |-> {}, unlisted |-> {}, asked |-> {}, unasked |-> {},
            caps |-> {}, modes |-> {}, torn |-> FALSE, mixed |-> FALSE]

(* What holds now has held in this round.                                  *)
Noted(h, r, e, p) ==
    LET a == IF e THEN Asked(p) ELSE {}
    IN  [h EXCEPT !.listed = @ \cup r, !.unlisted = @ \cup (Sessions \ r),
                  !.asked = @ \cup a, !.unasked = @ \cup (Sessions \ a),
                  !.caps = @ \cup {p.cap}, !.modes = @ \cup {p.mode}]

Init ==
    /\ policy \in Policies
    /\ writing = Nobody
    /\ roster = {} /\ ever = FALSE
    /\ recent = <<>> /\ replyTo = {}
    /\ stage = "idle"
    /\ listed = {} /\ view = <<>> /\ shared = FALSE /\ at = 0
    /\ cands = {} /\ used = <<>> /\ want = NoPeers
    /\ running = {} /\ peers = NoPeers
    /\ frame = Nobody
    /\ changes = 0 /\ frames = 0
    /\ round = NoRound

GoTo(s, t) == stage = s /\ stage' = t
Unlocked == writing = Nobody

-----------------------------------------------------------------------------
(* wanted.                                                                 *)

(* As Look, with the workspace peer wanted before the mode is looked at.   *)
LookOnlyAtHealth ==
    /\ stage = "idle"
    /\ stage' = IF ever THEN "roster" ELSE "start"
    /\ round' = Noted(NoRound, roster, ever, policy)
    /\ UNCHANGED <<settings, remote, local, table, routing, changes>>

(* Before the transport was ever accepted, or with promotion off, no peer  *)
(* is wanted.                                                              *)
Look ==
    /\ stage = "idle"
    /\ stage' = IF ever /\ policy.mode # "off" THEN "roster" ELSE "start"
    /\ round' = Noted(NoRound, roster, ever, policy)
    /\ UNCHANGED <<settings, remote, local, table, routing, changes>>

ReadRoster ==
    /\ GoTo("roster", "mode")
    /\ listed' = roster
    /\ UNCHANGED <<settings, remote, view, shared, at, cands, used, want, table,
                   routing, changes, round>>

(* The mode is read again.  Anything but manual promotes everybody.        *)
ReadMode ==
    /\ stage = "mode"
    /\ IF policy.mode = "manual"
         THEN stage' = "slice" /\ UNCHANGED cands
         ELSE stage' = "count" /\ cands' = listed
    /\ UNCHANGED <<settings, remote, listed, view, shared, at, used, want, table,
                   routing, changes, round>>

(* Manual ranges over the slice as it is by now, which may be that of a    *)
(* policy of another mode.                                                 *)
ReadSlice ==
    /\ GoTo("slice", "range")
    /\ view' = policy.subscribed /\ shared' = TRUE
    /\ round' = [round EXCEPT !.mixed = policy.mode # "manual"]
    /\ UNCHANGED <<settings, remote, listed, at, cands, used, want, table, routing,
                   changes>>

(* As RangeOver, for subscribed sessions the roster does not have.         *)
RangeOverAnybody ==
    /\ stage = "range"
    /\ at < Len(view)
    /\ at' = at + 1
    /\ cands' = cands \cup {view[at + 1]}
    /\ UNCHANGED <<settings, remote, stage, listed, view, shared, used, want, table,
                   routing, changes, round>>

(* One element of it, whatever it holds by now ...                         *)
RangeOver ==
    /\ stage = "range"
    /\ at < Len(view)
    /\ at' = at + 1
    /\ cands' = cands \cup ({view[at + 1]} \cap listed)
    /\ UNCHANGED <<settings, remote, stage, listed, view, shared, used, want, table,
                   routing, changes, round>>

(* ... until there is no other.                                            *)
RangeEnds ==
    /\ GoTo("range", "count")
    /\ at = Len(view)
    /\ view' = <<>> /\ shared' = FALSE /\ at' = 0
    /\ UNCHANGED <<settings, remote, listed, cands, used, want, table, routing,
                   changes, round>>

(* As PeersFor, with every name leading to the same session.               *)
PeersForOne(K) ==
    [n \in {WorkspacePeer} \cup {NameOf[s] : s \in K} |->
        IF n = WorkspacePeer THEN Everybody ELSE CHOOSE s \in K : TRUE]

(* The peers for the chosen sessions, beside the one for everybody.        *)
PeersFor(K) ==
    [n \in {WorkspacePeer} \cup {NameOf[s] : s \in K} |->
        IF n = WorkspacePeer THEN Everybody
        ELSE CHOOSE s \in K : NameOf[s] = n]

(* As AllFit, one over the cap.                                            *)
AllFitAndOne ==
    /\ GoTo("count", "start")
    /\ Cardinality(cands) <= policy.cap + 1
    /\ want' = PeersFor(cands)
    /\ UNCHANGED <<settings, remote, listed, view, shared, at, cands, used, table,
                   routing, changes, round>>

(* Everybody fits under the cap.                                           *)
AllFit ==
    /\ GoTo("count", "start")
    /\ Cardinality(cands) <= policy.cap
    /\ want' = PeersFor(cands)
    /\ UNCHANGED <<settings, remote, listed, view, shared, at, cands, used, table,
                   routing, changes, round>>

TooMany ==
    /\ GoTo("count", "used")
    /\ Cardinality(cands) > policy.cap
    /\ UNCHANGED <<settings, remote, local, table, routing, changes, round>>

CopyUsed ==
    /\ GoTo("used", "cut")
    /\ Unlocked
    /\ used' = recent
    /\ UNCHANGED <<settings, remote, listed, view, shared, at, cands, want, table,
                   routing, changes, round>>

(* The cap is read once more for the cut.                                  *)
Cut ==
    /\ GoTo("cut", "start")
    /\ policy.cap <= Cardinality(cands)
    /\ \E K \in Kept(cands, policy.cap, used) : want' = PeersFor(K)
    /\ UNCHANGED <<settings, remote, listed, view, shared, at, cands, used, table,
                   routing, changes, round>>

(* It has grown past the candidates, and not past the array they are in,   *)
(* which has room for the roster: the slice gains sessions that are none.  *)
CutBlank ==
    /\ GoTo("cut", "start")
    /\ policy.cap > Cardinality(cands) /\ policy.cap <= Cardinality(listed)
    /\ want' = [n \in {Blank} \cup DOMAIN PeersFor(cands) |->
                  IF n = Blank THEN Everybody ELSE PeersFor(cands)[n]]
    /\ UNCHANGED <<settings, remote, listed, view, shared, at, cands, used, table,
                   routing, changes, round>>

(* It has grown past the array, and the slice expression panics.           *)
CutPanics ==
    /\ GoTo("cut", "dead")
    /\ policy.cap > Cardinality(listed)
    /\ UNCHANGED <<settings, remote, local, table, routing, changes, round>>

-----------------------------------------------------------------------------
(* reconcile.                                                              *)

(* Ensure, for every peer that is wanted and not running.                  *)
Ensure ==
    /\ GoTo("start", "release")
    /\ running' = running \cup DOMAIN want
    /\ UNCHANGED <<settings, remote, local, peers, routing, changes, round>>

(* Release returns once the process is gone.                               *)
Release(n) ==
    /\ stage = "release"
    /\ n \in running \ DOMAIN want
    /\ running' = running \ {n}
    /\ UNCHANGED <<settings, remote, stage, local, peers, routing, changes, round>>

(* The table the router uses is replaced when all this is done.            *)
Publish ==
    /\ GoTo("release", "idle")
    /\ running \subseteq DOMAIN want
    /\ Unlocked
    /\ peers' = want
    /\ frame' = IF frame # Nobody /\ ~ (/\ frame.peer \in DOMAIN want
                                        /\ want[frame.peer] = frame.meant)
                  THEN [frame EXCEPT !.meant = Everybody] ELSE frame
    /\ listed' = {} /\ cands' = {} /\ used' = <<>> /\ want' = NoPeers
    /\ round' = NoRound
    /\ UNCHANGED <<settings, remote, view, shared, at, running, recent, replyTo,
                   frames, changes>>

-----------------------------------------------------------------------------
(* What others do to the policy.                                           *)

Change ==
    /\ stage # "dead"
    /\ changes < Changes /\ changes' = changes + 1

Remember(r, e, p) ==
    round' = IF stage = "idle" THEN round ELSE Noted(round, r, e, p)

(* The end of reloadSettings, in whatever goroutine: other values in       *)
(* another array.                                                          *)
Reload(p) ==
    /\ Change
    /\ Unlocked
    /\ policy' = p
    /\ shared' = FALSE
    /\ Remember(roster, ever, p)
    /\ UNCHANGED <<writing, remote, stage, listed, view, at, cands, used, want,
                   table, routing>>

(* subscribe takes the lock ...                                            *)
Subscribe(s, wish) ==
    /\ Change
    /\ Unlocked
    /\ writing' = [session |-> s, want |-> wish, read |-> 0, kept |-> 0]
    /\ UNCHANGED <<policy, remote, stage, local, table, routing, round>>

(* A write to an element of the array, which the poll's slice may share.   *)
Put(seq, i, s) == IF i \in DOMAIN seq THEN [seq EXCEPT ![i] = s] ELSE seq

(* ... moves the elements it keeps to the front, one by one ...            *)
Compact ==
    /\ stage # "dead"
    /\ ~ Unlocked
    /\ writing.read < Len(policy.subscribed)
    /\ LET s == policy.subscribed[writing.read + 1]
           k == writing.kept + 1
       IN  IF s = writing.session
             THEN /\ writing' = [writing EXCEPT !.read = @ + 1]
                  /\ UNCHANGED <<policy, view, round>>
             ELSE /\ writing' = [writing EXCEPT !.read = @ + 1, !.kept = k]
                  /\ policy' = [policy EXCEPT !.subscribed[k] = s]
                  /\ view' = IF shared THEN Put(view, k, s) ELSE view
                  /\ round' = IF stage = "idle" THEN round
                              ELSE [Noted(round, roster, ever, policy') EXCEPT
                                      !.torn = @ \/ shared]
    /\ UNCHANGED <<remote, stage, listed, shared, at, cands, used, want, table,
                   routing, changes>>

(* ... and stores the slice, with the new session behind them: in the same *)
(* array, or in another if that one is full.  Off becomes manual.          *)
Store(grown) ==
    /\ stage # "dead"
    /\ ~ Unlocked
    /\ writing.read = Len(policy.subscribed)
    /\ LET kept == SubSeq(policy.subscribed, 1, writing.kept)
           end == writing.kept + 1
       IN  /\ grown => /\ writing.want
                       /\ end > Len(policy.subscribed)
                       /\ shared => end > Len(view)
           /\ policy' = [policy EXCEPT
                !.subscribed = IF writing.want THEN Append(kept, writing.session) ELSE kept,
                !.mode = IF writing.want /\ @ = "off" THEN "manual" ELSE @]
           /\ view' = IF writing.want /\ shared /\ ~ grown
                        THEN Put(view, end, writing.session) ELSE view
           /\ shared' = (shared /\ ~ grown)
           /\ round' = IF stage = "idle" THEN round
                       ELSE [Noted(round, roster, ever, policy') EXCEPT
                               !.torn = @ \/ shared]
    /\ writing' = Nobody
    /\ UNCHANGED <<remote, stage, listed, at, cands, used, want, table, routing, changes>>

-----------------------------------------------------------------------------
(* The transport and the sessions.                                         *)

(* Connected for the first time, a new roster, or none while the           *)
(* connection is down.                                                     *)
RosterChanges(r) ==
    /\ Change
    /\ roster' = r /\ ever' = TRUE
    /\ Remember(r, TRUE, policy)
    /\ UNCHANGED <<settings, stage, local, table, routing>>

(* A message from a session was delivered, or one was sent to it from the  *)
(* control endpoint.                                                       *)
Used(s) ==
    /\ Change
    /\ Unlocked
    /\ recent' = Touch(recent, s)
    /\ UNCHANGED <<settings, remote, stage, local, table, replyTo, frame, frames, round>>

(* rememberSender: its names lead to an address of the transport.          *)
RememberSender(s) ==
    /\ Change
    /\ Unlocked
    /\ replyTo' = replyTo \cup {s}
    /\ UNCHANGED <<settings, remote, stage, local, table, recent, frame, frames, round>>

-----------------------------------------------------------------------------
(* routeOutbound and resolveTarget.                                        *)

(* A local session writes to a peer, perhaps with a leading mention.       *)
(* meant is history: the session the peer stands for, as long as it does.  *)
Write(n, m) ==
    /\ frame = Nobody
    /\ stage # "dead"
    /\ frames < Frames /\ frames' = frames + 1
    /\ n \in running
    /\ frame' = [peer |-> n, mention |-> m, step |-> "peer", target |-> Nobody,
                 meant |-> IF n \in DOMAIN peers THEN peers[n] ELSE Everybody]
    /\ UNCHANGED <<settings, remote, stage, local, table, recent, replyTo, changes, round>>

Routed(s) == [frame EXCEPT !.step = "note", !.target = s]

(* As RoutePeer, with a mention looked at first.                           *)
RoutePeerLast ==
    /\ frame # Nobody /\ frame.step = "peer"
    /\ stage # "dead"
    /\ Unlocked
    /\ frame' = IF frame.mention = Nobody /\ frame.peer \in DOMAIN peers
                    /\ peers[frame.peer] # Everybody
                  THEN Routed(peers[frame.peer])
                  ELSE [frame EXCEPT !.step = "mention"]
    /\ UNCHANGED <<settings, remote, stage, local, table, recent, replyTo, frames,
                   changes, round>>

(* A frame for the peer of a session is for that session.                  *)
RoutePeer ==
    /\ frame # Nobody /\ frame.step = "peer"
    /\ stage # "dead"
    /\ Unlocked
    /\ frame' = IF frame.peer \in DOMAIN peers /\ peers[frame.peer] # Everybody
                  THEN Routed(peers[frame.peer])
                  ELSE [frame EXCEPT !.step = "mention"]
    /\ UNCHANGED <<settings, remote, stage, local, table, recent, replyTo, frames,
                   changes, round>>

(* Any other goes where its mention leads: to a session of the roster, to  *)
(* somebody who wrote recently, or nowhere.                                *)
RouteMention ==
    /\ frame # Nobody /\ frame.step = "mention"
    /\ stage # "dead"
    /\ Unlocked
    /\ frame' = IF frame.mention \in roster THEN Routed(frame.mention)
                ELSE IF frame.mention \in replyTo THEN Routed(Someone)
                ELSE Nobody
    /\ UNCHANGED <<settings, remote, stage, local, table, recent, replyTo, frames,
                   changes, round>>

(* It is handed to the transport, and its target was just used.            *)
Hand ==
    /\ frame # Nobody /\ frame.step = "note"
    /\ stage # "dead"
    /\ Unlocked
    /\ recent' = IF frame.target \in Sessions THEN Touch(recent, frame.target) ELSE recent
    /\ frame' = Nobody
    /\ UNCHANGED <<settings, remote, stage, local, table, replyTo, frames, changes, round>>

-----------------------------------------------------------------------------
Poll ==
    \/ Look \/ ReadRoster \/ ReadMode \/ ReadSlice \/ RangeOver \/ RangeEnds
    \/ AllFit \/ TooMany \/ CopyUsed \/ Cut \/ CutBlank \/ CutPanics
    \/ Ensure \/ Publish
    \/ \E n \in Names : Release(n)

Subscriber == Compact \/ \E grown \in BOOLEAN : Store(grown)
Router == RoutePeer \/ RouteMention \/ Hand

Next ==
    \/ Poll \/ Subscriber \/ Router
    \/ \E p \in Policies : Reload(p)
    \/ \E s \in Sessions :
          \/ \E wish \in BOOLEAN : Subscribe(s, wish)
          \/ Used(s) \/ RememberSender(s)
    \/ \E r \in SUBSET Sessions : RosterChanges(r)
    \/ \E n \in Names, m \in Sessions \cup {Nobody} : Write(n, m)

Spec == Init /\ [][Next]_vars

(* The poll comes round again, subscribe returns, and the router goes on.  *)
(* That Release returns is the supervisor's part.                          *)
FairSpec == Spec /\ WF_vars(Poll) /\ WF_vars(Subscriber) /\ WF_vars(Router)
-----------------------------------------------------------------------------
(* Properties.                                                             *)

Stages == {"idle", "roster", "mode", "slice", "range", "count", "used", "cut", "start",
           "release", "dead"}

(* The fields of the daemon and the locals of wanted and resolveTarget     *)
(* have the shapes the code gives them.                                    *)
TypeOK ==
    /\ policy \in Policy
    /\ writing \in {Nobody} \cup [session : Sessions, want : BOOLEAN, read : Nat, kept : Nat]
    /\ writing # Nobody => writing.kept <= writing.read
                           /\ writing.read <= Len(policy.subscribed)
    /\ roster \subseteq Sessions /\ ever \in BOOLEAN
    /\ recent \in Seq(Sessions) /\ IsInjective(recent)
    /\ used \in Seq(Sessions) /\ IsInjective(used)
    /\ replyTo \subseteq Sessions
    /\ stage \in Stages
    /\ listed \subseteq Sessions /\ cands \subseteq listed
    /\ view \in Seq(Sessions) /\ shared \in BOOLEAN /\ at \in 0..Len(view)
    /\ running \subseteq Names
    /\ \A f \in {want, peers} :
          /\ DOMAIN f \subseteq Names
          /\ Range(f) \subseteq Sessions \cup {Everybody}
    /\ frame \in {Nobody} \cup
          [peer : Names, mention : Sessions \cup {Nobody},
           step : {"peer", "mention", "note"},
           target : Sessions \cup {Someone, Nobody}, meant : Sessions \cup {Everybody}]
    /\ changes \in 0..Changes /\ frames \in 0..Frames

(* daemon.go:602: however the policy changes while it is read again and    *)
(* again, a round leaves no more peers of sessions running than some cap   *)
(* of that round allows, and no peer at all if they were off all along.    *)
CapKept ==
    stage = "release" /\ running \subseteq DOMAIN want =>
        /\ \E c \in round.caps : Cardinality(running \ {WorkspacePeer}) <= c
        /\ round.modes = {"off"} => running = {}

(* control.go:295, daemon.go:576: a peer is only ever started for a        *)
(* session that was on the roster and asked for at some time in the round, *)
(* whatever subscribe does to the array the poll ranges over.  Two peers   *)
(* are exceptions: one of any session on the roster if promotion went off  *)
(* after the first look (daemon.go:584), and the nameless one of a cap     *)
(* that grew in between.                                                   *)
OnlyAsked ==
    [][\A n \in running' \ running :
          \/ n = WorkspacePeer
          \/ \E s \in round.listed : /\ n = NameOf[s]
                                     /\ s \in round.asked \/ "off" \in round.modes
          \/ n = Blank /\ Cardinality(round.caps) > 1]_vars

(* The sessions that may have left no room for this one.                   *)
Outranked(s) ==
    \E c \in round.caps :
        Cardinality({t \in (round.listed \cap round.asked) \ {s} :
                       ~ After(used, s, t)}) >= c

(* daemon.go:589: a session loses its peer only if at some time in the     *)
(* round it was not on the roster or not asked for, or if enough others    *)
(* were used at least as recently.  Two reads without the lock are         *)
(* exceptions: subscribe moved the elements the poll was ranging over, or  *)
(* the policy ceased to be manual between the mode (daemon.go:574) and the *)
(* list (577), whose sessions are then not the ones that policy asks for.  *)
WantedStays ==
    [][\A s \in Sessions :
          NameOf[s] \in running \ running' =>
             \/ s \in round.unlisted \cup round.unasked
             \/ Outranked(s)
             \/ round.torn \/ round.mixed]_vars

(* daemon.go:653: a frame written to the peer of a session goes to that    *)
(* session, whatever it mentions and although the session may have left    *)
(* the roster, unless its peer left the table in between.                  *)
FramesReach ==
    [][frame # Nobody /\ frame.meant # Everybody /\ frame.step = "peer" /\ frame' # frame
         => frame'.meant = Everybody \/ frame'.target = frame.meant]_vars

(* daemon.go:659: a frame that is routed by its peer goes to the session   *)
(* the peer is named after, and to no other, however often the table was   *)
(* replaced since the frame was written.                                   *)
RoutedByName ==
    [][frame # Nobody /\ frame.step = "peer" /\ frame' # frame /\ frame'.step = "note"
         => frame'.target \in Sessions /\ frame.peer = NameOf[frame'.target]]_vars

(* daemon.go:541: the table the router uses names the peers that run, but  *)
(* while reconcile is starting and stopping some.                          *)
TableAgrees == stage # "release" => DOMAIN peers = running

(* daemon.go:602: the slice expression only fails if the cap has grown     *)
(* since the candidates were counted.                                      *)
PanicNeedsGrowth == stage = "dead" => Cardinality(round.caps) > 1

(* The peers there should be, once everything has come to rest.            *)
Due ==
    LET C == roster \cap Asked(policy)
        n == IF policy.cap < Cardinality(C) THEN policy.cap ELSE Cardinality(C)
    IN  IF ~ ever \/ policy.mode = "off" THEN {{}}
        ELSE {{WorkspacePeer} \cup {NameOf[s] : s \in K} : K \in Kept(C, n, recent)}

(* daemon.go:599: when nothing changes any more and no tie is left to      *)
(* chance, the peers become the ones the policy and the roster ask for and *)
(* stay so, whatever happened to earlier rounds.                           *)
PeersSettle ==
    <>[](stage # "dead" /\ Cardinality(Due) = 1)
        => <>[](Due = {running} /\ Due = {DOMAIN peers})

=============================================================================
