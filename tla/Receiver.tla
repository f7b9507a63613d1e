------------------------------ MODULE Receiver ------------------------------
(***************************************************************************)
(* The receiving half of the daemon (daemon/daemon.go): the settings of    *)
(* this machine and how they are read again, the level a message is shown  *)
(* at, and the messages held for approval (daemon/held.go) with what       *)
(* daemon/control.go does to them.                                         *)
(*                                                                         *)
(* Three kinds of goroutine run here, and stage is where each of them is:  *)
(* "poll" reads the settings again all the time, "router" is routeInbound, *)
(* and one goroutine per control connection approves and drops.  All three *)
(* go through reloadSettings, which takes Daemon.mu twice and holds        *)
(* nothing while it reads the file.  The process can die anywhere and be   *)
(* started again; the two files outlive it.                                *)
(***************************************************************************)
EXTENDS Trust, Sequences, SequencesExt

CONSTANTS
    Messages,   \* messages, each arriving at most once
    Proposed,   \* the level the workspace proposes for its sender
    Machine,    \* the settings the owner of this machine may write
    Approvers,  \* control connections
    HeldLimit,  \* how many messages are held
    Edits,      \* bound: how often the configuration is written
    Starts,     \* bound: how often the daemon is started
    Faults,     \* bound: reads and writes that fail
    Nothing     \* no message, or no level

ASSUME ReceiverAssumption ==
    /\ Proposed \in [Messages -> Opinions]
    /\ Machine \subseteq [workspace : Opinions, others : [Messages -> SUBSET Opinions]]
    /\ {"poll", "router"} \cap Approvers = {}
    /\ HeldLimit \in Nat \ {0}
    /\ {Edits, Starts} \subseteq Nat \ {0}
    /\ Faults \in Nat
    /\ Nothing \notin Messages \cup Levels /\ Nothing \notin Machine

Threads == {"poll", "router"} \cup Approvers

VARIABLES
    config,    \* the configuration file: its settings, and which version it is
    settings,  \* d.opts.Trust
    settingsAt,\* the version it is taken to be
    stage,     \* where each goroutine is
    saw,       \* the version it has found the file to be
    read,      \* the settings it has read there
    msg,       \* the message it delivers
    level,     \* the level it delivers it at
    held,      \* heldStore.Items, oldest first
    disk,      \* the same in its file
    up,        \* the daemon runs
    starts,    \* how often it was started
    faults,    \* how often something failed
    fate,      \* history: what became of each message, as it was reported
    decided,   \* history: how often it was handed to a session or discarded
    shown,     \* history: the level it was handed over at without approval
    had        \* history: the settings the configuration has had, with their default

vars == <<config, settings, settingsAt, stage, saw, read, msg, level, held, disk,
          up, starts, faults, fate, decided, shown, had>>

Stages == {"idle", "lookup", "stat", "claim", "load", "apply", "decide", "hold",
           "hand", "putBack"}
Fates == {"new", "arrived", "kept", "approving", "handed", "refused", "discarded",
          "pushedOut", "mislaid", "lost"}

owner == <<config, had>>
reloading == <<settings, settingsAt, saw, read>>
store == <<held, disk>>
life == <<up, starts>>
past == <<fate, decided, shown>>

(* The settings say something of everybody in the workspace, which is the  *)
(* default if the file says nothing, and, of each message, what they say   *)
(* of its sender and of the session it is for.  Nothing checks the words.  *)
WithDefault(s) == IF s.workspace = "" THEN [s EXCEPT !.workspace = Default] ELSE s

Init ==
    /\ \E s \in Machine : /\ config = [trust |-> s, at |-> 1]
                         /\ settings = WithDefault(s) /\ had = {settings}
    /\ settingsAt = 0
    /\ stage = [t \in Threads |-> "idle"]
    /\ saw = [t \in Threads |-> 0]
    /\ read = [t \in Threads |-> Nothing]
    /\ msg = [t \in Threads |-> Nothing]
    /\ level = [t \in Threads |-> Nothing]
    /\ held = <<>> /\ disk = <<>>
    /\ up = TRUE /\ starts = 1 /\ faults = 0
    /\ fate = [m \in Messages |-> "new"]
    /\ decided = [m \in Messages |-> 0]
    /\ shown = [m \in Messages |-> Nothing]

GoTo(t, s, u) == up /\ stage[t] = s /\ stage' = [stage EXCEPT ![t] = u]
Fault == faults < Faults /\ faults' = faults + 1

-----------------------------------------------------------------------------
(* reloadSettings.                                                         *)

(* The poll comes round.                                                   *)
Tick ==
    /\ GoTo("poll", "idle", "stat")
    /\ UNCHANGED <<owner, reloading, msg, level, store, life, faults, past>>

Stat(t) ==
    /\ GoTo(t, "stat", "claim")
    /\ saw' = [saw EXCEPT ![t] = config.at]
    /\ UNCHANGED <<owner, settings, settingsAt, read, msg, level, store, life, faults, past>>

(* A file that cannot be stated is reported as changed.                    *)
StatFails(t) ==
    /\ GoTo(t, "stat", "load")
    /\ Fault
    /\ UNCHANGED <<owner, reloading, msg, level, store, life, past>>

Reloaded(t) == IF t = "poll" THEN "idle" ELSE "decide"

Unchanged(t) ==
    /\ GoTo(t, "claim", Reloaded(t))
    /\ saw[t] = settingsAt
    /\ saw' = [saw EXCEPT ![t] = 0]
    /\ UNCHANGED <<owner, settings, settingsAt, read, msg, level, store, life, faults, past>>

(* The change counts as read from here on, for every other goroutine too.  *)
Claim(t) ==
    /\ GoTo(t, "claim", "load")
    /\ saw[t] # settingsAt
    /\ settingsAt' = saw[t]
    /\ saw' = [saw EXCEPT ![t] = 0]
    /\ UNCHANGED <<owner, settings, read, msg, level, store, life, faults, past>>

Load(t) ==
    /\ GoTo(t, "load", "apply")
    /\ read' = [read EXCEPT ![t] = config.trust]
    /\ UNCHANGED <<owner, settings, settingsAt, saw, msg, level, store, life, faults, past>>

LoadFails(t) ==
    /\ GoTo(t, "load", Reloaded(t))
    /\ Fault
    /\ UNCHANGED <<owner, reloading, msg, level, store, life, past>>

Apply(t) ==
    /\ GoTo(t, "apply", Reloaded(t))
    /\ settings' = WithDefault(read[t])
    /\ read' = [read EXCEPT ![t] = Nothing]
    /\ UNCHANGED <<owner, settingsAt, saw, msg, level, store, life, faults, past>>

-----------------------------------------------------------------------------
(* deliver.                                                                *)

Arrive(m) ==
    /\ GoTo("router", "idle", "lookup")
    /\ fate[m] = "new"
    /\ msg' = [msg EXCEPT !["router"] = m]
    /\ fate' = [fate EXCEPT ![m] = "arrived"]
    /\ UNCHANGED <<owner, reloading, level, store, life, faults, decided, shown>>

(* The session and a peer for the reply address are there ...              *)
Lookup(t) ==
    /\ GoTo(t, "lookup", "stat")
    /\ UNCHANGED <<owner, reloading, msg, level, store, life, faults, past>>

(* ... or they are not, or the session does not take the message.  An      *)
(* incoming message is reported and dropped, an approved one put back.     *)
Fails(t) ==
    /\ stage[t] \in {"lookup", "hand"}
    /\ IF t = "router"
         THEN /\ GoTo(t, stage[t], "idle")
              /\ fate' = [fate EXCEPT ![msg[t]] = "refused"]
              /\ msg' = [msg EXCEPT ![t] = Nothing]
         ELSE /\ GoTo(t, stage[t], "putBack")
              /\ UNCHANGED <<fate, msg>>
    /\ level' = [level EXCEPT ![t] = Nothing]
    /\ UNCHANGED <<owner, reloading, store, life, faults, decided, shown>>

(* What the workspace proposes for a message and what settings say of it.  *)
Said(m, s) == {Proposed[m], s.workspace} \cup s.others[m]

Level(t) == Resolve(Said(msg[t], settings))

(* The level that applies now is one that waits for a decision.            *)
Withhold ==
    /\ GoTo("router", "decide", "hold")
    /\ Level("router") = "hold"
    /\ UNCHANGED <<owner, reloading, msg, level, store, life, faults, past>>

(* It is not, or there has been one, and then hold says nothing about how  *)
(* the message is to be read.                                              *)
Frame(t) ==
    /\ GoTo(t, "decide", "hand")
    /\ t = "router" => Level(t) # "hold"
    /\ level' = [level EXCEPT ![t] = IF Level(t) = "hold" THEN Default ELSE Level(t)]
    /\ UNCHANGED <<owner, reloading, msg, store, life, faults, past>>

(* An approved message put back whether the session took it or not.        *)
HandPuttingBack(t) ==
    /\ GoTo(t, "hand", IF t = "router" THEN "idle" ELSE "putBack")
    /\ fate' = [fate EXCEPT ![msg[t]] = "handed"]
    /\ decided' = [decided EXCEPT ![msg[t]] = @ + 1]
    /\ shown' = [shown EXCEPT ![msg[t]] = IF t = "router" THEN level[t] ELSE @]
    /\ msg' = [msg EXCEPT ![t] = IF t = "router" THEN Nothing ELSE @]
    /\ level' = [level EXCEPT ![t] = Nothing]
    /\ UNCHANGED <<owner, reloading, store, life, faults>>

(* The session has taken the message.                                      *)
Hand(t) ==
    /\ GoTo(t, "hand", "idle")
    /\ fate' = [fate EXCEPT ![msg[t]] = "handed"]
    /\ decided' = [decided EXCEPT ![msg[t]] = @ + 1]
    /\ shown' = [shown EXCEPT ![msg[t]] = IF t = "router" THEN level[t] ELSE @]
    /\ msg' = [msg EXCEPT ![t] = Nothing]
    /\ level' = [level EXCEPT ![t] = Nothing]
    /\ UNCHANGED <<owner, reloading, store, life, faults>>

-----------------------------------------------------------------------------
(* The messages held for approval.                                         *)

(* persistLocked: the file is what memory is, or it could not be written.  *)
Write(items) ==
    \/ disk' = items /\ UNCHANGED faults
    \/ Fault /\ UNCHANGED disk

(* Add keeps the newest messages.                                          *)
Added(m) == LET all == Append(held, m)
            IN  IF Len(all) > HeldLimit THEN Tail(all) ELSE all

Add(t, m, from) ==
    /\ GoTo(t, from, "idle")
    /\ held' = Added(m)
    /\ Write(Added(m))
    /\ fate' = [x \in Messages |->
                  IF x = m THEN IF faults' = faults THEN "kept" ELSE "mislaid"
                  ELSE IF x \in Range(held) \ Range(Added(m)) THEN "pushedOut"
                  ELSE fate[x]]
    /\ msg' = [msg EXCEPT ![t] = Nothing]
    /\ UNCHANGED <<owner, reloading, level, life, decided, shown>>

Hold == Add("router", msg["router"], "hold")

(* The message back in memory, its file untouched.                         *)
PutBackUnwritten(t) ==
    /\ GoTo(t, "putBack", "idle")
    /\ held' = Added(msg[t])
    /\ fate' = [fate EXCEPT ![msg[t]] = "kept"]
    /\ msg' = [msg EXCEPT ![t] = Nothing]
    /\ UNCHANGED <<owner, reloading, level, disk, life, faults, decided, shown>>

PutBack(t) == Add(t, msg[t], "putBack")

(* The message out of memory, its file untouched.                          *)
TakeUnwritten(m) ==
    \E i \in DOMAIN held :
        /\ held[i] = m
        /\ held' = RemoveAt(held, i)
        /\ UNCHANGED <<disk, faults>>

(* Take finds the message under its identifier and removes it.             *)
Take(m) ==
    \E i \in DOMAIN held :
        /\ held[i] = m
        /\ held' = RemoveAt(held, i)
        /\ Write(RemoveAt(held, i))

(* A message that could not be removed from the file is not delivered; it  *)
(* is out of memory all the same.                                          *)
Approve(t, m) ==
    /\ Take(m)
    /\ IF faults' = faults
         THEN /\ GoTo(t, "idle", "lookup")
              /\ msg' = [msg EXCEPT ![t] = m]
              /\ fate' = [fate EXCEPT ![m] = "approving"]
         ELSE /\ GoTo(t, "idle", "idle")
              /\ fate' = [fate EXCEPT ![m] = "mislaid"]
              /\ UNCHANGED msg
    /\ UNCHANGED <<owner, reloading, level, life, decided, shown>>

Discard(t, m) ==
    /\ GoTo(t, "idle", "idle")
    /\ Take(m)
    /\ IF faults' = faults
         THEN /\ fate' = [fate EXCEPT ![m] = "discarded"]
              /\ decided' = [decided EXCEPT ![m] = @ + 1]
         ELSE /\ fate' = [fate EXCEPT ![m] = "mislaid"]
              /\ UNCHANGED decided
    /\ UNCHANGED <<owner, reloading, msg, level, life, shown>>

-----------------------------------------------------------------------------
(* The owner of the machine writes the configuration.                      *)
Edit(s) ==
    /\ config.at < Edits
    /\ config' = [trust |-> s, at |-> config.at + 1]
    /\ had' = had \cup {WithDefault(s)}
    /\ UNCHANGED <<reloading, stage, msg, level, store, life, faults, past>>

(* The daemon dies, and with it what its goroutines had in hand.           *)
Dies ==
    /\ up
    /\ up' = FALSE
    /\ stage' = [t \in Threads |-> "idle"]
    /\ saw' = [t \in Threads |-> 0]
    /\ read' = [t \in Threads |-> Nothing]
    /\ msg' = [t \in Threads |-> Nothing]
    /\ level' = [t \in Threads |-> Nothing]
    /\ held' = <<>>
    /\ fate' = [m \in Messages |-> IF m \in Range(msg) THEN "lost" ELSE fate[m]]
    /\ UNCHANGED <<owner, settings, settingsAt, disk, starts, faults, decided, shown>>

Start ==
    /\ ~up /\ starts < Starts
    /\ up' = TRUE /\ starts' = starts + 1
    /\ held' = disk
    /\ settings' = WithDefault(config.trust) /\ settingsAt' = 0
    /\ UNCHANGED <<owner, stage, saw, read, msg, level, disk, faults, past>>

-----------------------------------------------------------------------------
Step(t) ==
    \/ Stat(t) \/ StatFails(t) \/ Unchanged(t) \/ Claim(t)
    \/ Load(t) \/ LoadFails(t) \/ Apply(t)
    \/ Lookup(t) \/ Fails(t) \/ Frame(t) \/ Hand(t)

Next ==
    \/ Tick \/ Withhold \/ Hold \/ Dies \/ Start
    \/ \E t \in Threads : Step(t)
    \/ \E m \in Messages : Arrive(m)
    \/ \E t \in Approvers : PutBack(t) \/ \E m \in Messages : Approve(t, m) \/ Discard(t, m)
    \/ \E s \in Machine : Edit(s)

Spec == Init /\ [][Next]_vars

(* The goroutines run, and the poll comes round.                           *)
FairSpec ==
    /\ Spec
    /\ WF_vars(Tick) /\ WF_vars(Withhold) /\ WF_vars(Hold)
    /\ \A t \in Threads : WF_vars(Step(t))
    /\ \A t \in Approvers : WF_vars(PutBack(t))

-----------------------------------------------------------------------------
(* Properties.                                                             *)

(* The daemon's fields, its files and the locals of its goroutines have    *)
(* the shapes the code gives them, and a goroutine has a message in hand   *)
(* exactly while deliver or what surrounds it runs.                        *)
TypeOK ==
    /\ config \in [trust : Machine, at : 1..Edits]
    /\ settings \in {WithDefault(s) : s \in Machine} /\ settingsAt \in 0..Edits
    /\ stage \in [Threads -> Stages]
    /\ saw \in [Threads -> 0..Edits]
    /\ read \in [Threads -> Machine \cup {Nothing}]
    /\ msg \in [Threads -> Messages \cup {Nothing}]
    /\ level \in [Threads -> (Levels \ {"hold"}) \cup {Nothing}]
    /\ held \in Seq(Messages) /\ Len(held) <= HeldLimit
    /\ disk \in Seq(Messages) /\ Len(disk) <= HeldLimit
    /\ up \in BOOLEAN /\ starts \in 1..Starts /\ faults \in 0..Faults
    /\ fate \in [Messages -> Fates]
    /\ decided \in [Messages -> Nat] /\ shown \in [Messages -> (Levels \ {"hold"}) \cup {Nothing}]
    /\ \A t \in Threads \ {"poll"} : msg[t] = Nothing <=> stage[t] = "idle"

(* A message is handed to a session or discarded once at most: two people  *)
(* who decide on it, a write that fails and a daemon that dies do not make *)
(* it come back.                                                           *)
DecidedOnce == \A m \in Messages : decided[m] <= 1

(* held.go:34: a message that was reported as held is in its file, and in  *)
(* memory while the daemon runs, until somebody decides on it or newer     *)
(* ones push it out.                                                       *)
KeptSurvives ==
    \A m \in Messages : fate[m] = "kept" => m \in Range(disk) /\ (up => m \in Range(held))

(* ADR-0006: nobody raises the level from somewhere else.  A message that  *)
(* nobody approved is shown at a level that neither the workspace nor any  *)
(* of the settings that the owner of this machine had at one time put      *)
(* lower, and not at all if one of them holds it.  Where one is no level,  *)
(* which nothing checks, it is shown as source: never wider than the word  *)
(* that was meant, but also if another one holds it (trust.go:85).         *)
LevelGranted ==
    \A m \in Messages : shown[m] # Nothing => \E s \in had :
        IF "unknown" \in Said(m, s)
          THEN shown[m] = "source"
          ELSE /\ "hold" \notin Said(m, s)
               /\ \A l \in Said(m, s) \cap Levels : Rank[shown[m]] <= Rank[l]

(* held.go:82, daemon.go:740: what has become of a message stays so.  One  *)
(* that a session took, that somebody discarded, that was refused, or that *)
(* died with the daemon does not come back: not from memory, not from the  *)
(* file after a restart, not by the hand of a slower approval.             *)
DecisionsStand ==
    [][\A m \in Messages :
          fate[m] \in {"handed", "discarded", "refused", "lost"} => fate'[m] = fate[m]]_vars

-----------------------------------------------------------------------------
(* A statement of the source that the code does not keep.                  *)

(* daemon.go:374: "Rereading something that did not change is harmless,    *)
(* and skipping something that did is not."                                *)
SettingsApply ==
    \A s \in Machine :
        <>[](config.trust = s /\ up) => <>[](settings = WithDefault(s))
=============================================================================
