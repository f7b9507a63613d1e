# A TLA+ model of claudio

claudio joins the Claude Code sessions of several people: a connector on each
machine (the *daemon*) publishes local stand-ins for remote sessions (*ghosts*),
turns what is written to them into sealed envelopes, and a *relay* passes the
envelopes on. This directory models the parts of it that carry state which
several goroutines, processes or machines change, checks them with TLC and proves
with TLAPS, for every value of the constants, all the safety properties that TLC checks
on small instances.

Paths below are relative to `src/internal/` of the repository. `PROJECT.json`
maps every definition to the lines it stands for, names the runs, the mutated
definitions that show each property has teeth, the hazards and the findings.

## Inventory

### Who talks to whom

```
 local session --> ghost (inbox) --pipe--> supervisor --> routeOutbound
                                                              |
                                                    RelayClient.Send
                                                              |  websocket
     relay server  <------------------------------------------+
       |  |   \--- workspace store (file, lock) <--- command line
       |  +-- queues for members who are away
       v
 RelayClient --> deliveries --> routeInbound/deliver --> settings, trust, held
                                                              |
                                                       inbox of a local session
```

| component | state | operations | what is hard | what makes it correct |
|---|---|---|---|---|
| relay server (`relay/server.go`) | `online`, `queued`, the goroutine of each connection | handshake, register, flush, forward, enqueue, publish, roster, unregister | two connections of one member overlap; lookups used after the lock; writes that fail midway | envelopes are in one place, accounted for, never for somebody else; the map is exact; rosters settle; goroutines end |
| joining (`relay/join.go`) | the store | redeem | retries, limits | memberships are paid for |
| relay client (`transport/relay.go`) | connection, roster, `lastKnown`, `seq`, `exposed`, `deliveries` | dial, redial, `Expose`, `Send`, apply, `Close` | four goroutines, writes after unlocking, a channel nobody takes from | numbers differ, senders can be answered, reports settle, it redials or closes |
| workspace store (`workspace/store.go`, `lock.go`) | the file, the lock, one copy per process, its stamp | invite, redeem, revoke, trust, sessions | two processes, a crash, failing reads and writes, stale copies | whole operations one at a time; revocation is final |
| supervisor (`daemon/supervisor.go`) | `wanted`, one `keepAlive` per peer, pipes and channels | `Ensure`, `Release`, `Close` | cancellation against restarts, full channels, hung or dying children | no unattended ghost, no lost frame, shutdown |
| orphan index (`daemon/orphans.go`) | entries in memory and on disk | `Track`, `Forget`, `Sweep` | a daemon that dies, writes that fail, reused process numbers | every ghost that may have published is known; living ones are spared |
| ghost (`ghost/ghost.go`), inbox (`ccpeer/inbox.go`), registry (`ccpeer/registry.go`) | record, socket, frame channel, heartbeat | publish, receive, forward, heartbeat, stop | shutdown from five causes while the heartbeat rewrites the record | nothing is left behind, accepted frames are forwarded, it ends |
| settings, delivery, held messages (`daemon/daemon.go`, `held.go`, `trust/trust.go`) | `opts.Trust` and its stamp, the held file, messages in hand | reload, deliver, hold, approve, drop | two goroutines reload, decisions race, writes fail | one decision per message, nobody is read above the granted level |
| promotion (`daemon.go` `wanted`, `reconcile`, `control.go` `subscribe`) | policy, `lastUsed`, `peers` | reconcile, promote, demote, reload | the policy is read six times without the lock that its writers hold, an array is rewritten while it is ranged over | a cap of the round is kept, only what was asked for is started, what is wanted stays, the peers settle |
| outbound routing (`daemon.go` `routeOutbound`, `resolveTarget`) | `peers`, `replyTo` | route, remember a sender | a frame outlives its peer or its session | a frame goes to the session it was written to |
| control endpoint (`control.go`) | listener, watchdog, connections of a round, address file | serve, rebind, call | the endpoint is removed while it serves or is being dialled, three ways for a round to end | nothing of an old round runs on, commands are answered, the loop ends when told |
| the rest: loopback transport, identity, safetext, MCP server, command line, client of local inboxes | none that is shared | | | pure functions, wiring, or one request and one answer |

`PROJECT.json` lists all of these, with what is modelled of each and the reason
where nothing is.

## Plan

Written, in the order in which they matter to somebody who sends a message:

1. `Mailbox` (abstract) and `Relay`; theorems in `RelayProofs`.
2. `RelayClient`; `RelayClientProofs`.
3. `NativePeer` (abstract), `Supervisor`, `Ghost`; `SupervisorProofs`, `GhostProofs`.
4. `Workspace` (abstract) and `Store`; `StoreProofs`.
5. `Trust` and `Receiver`; `ReceiverProofs`.
6. `Promotion`, with outbound routing; `PromotionProofs`.
7. `Control`, the control endpoint and its callers; `ControlProofs`.

What would come next:

8. An end-to-end composition of `Relay` (by its abstraction `Mailbox`) with the
   receiving ends of two `RelayClient`s, for what a sender may conclude from an
   answer.
9. `Config`: two processes that load, change and save the configuration at once.
10. Properties of promptness: that an envelope enqueued for a member who is connected
    does not wait for the next connection, which the code does not promise
    (`server.go:270`), and that the sessions of a connected member are listed.

No model has a RECURSIVE operator, and every module's parameters are constants with
a named assumption, so that each can be proved about as well as checked.

## Conventions

One action is one critical section, one write or one read: whatever the code can
be interleaved between is a step boundary, and whatever it does under one lock
hold is a single step. `pc`, `stage` or `main` is the point a goroutine has
reached, and a primed list such as `UNCHANGED <<store, mail>>` names the state
the lines leave alone. Message texts, keys, names and durations are left out;
a timer is an action that may happen. Counters in a comment marked *bound* are
limits of the model, not of the code: they stop enumeration, and an action that
would pass one is simply not enabled. Variables marked *history* are only
written, and read by properties and by the guards of bounds alone.

All runs say `CHECK_DEADLOCK FALSE`: every component has final states (everyone has
left, `Close` has returned, the process has ended, a bound is used up), so a state
without successor is expected.

An operator that stands directly before an action, takes the same parameters and is
used nowhere (`AllFitAndOne` before `AllFit`, `TrackLater` before `Track`) is that
action with a plausible mistake in it. Each property has one that breaks it.

## Relay, Mailbox

`Relay` models `relay/server.go`. `pc[c]` follows the goroutine of connection `c`
through `handleConnect`: `Hello`, `Auth` (the handshake), `Register`, then the
first roster (`BuildRoster`, `WriteRoster` at stage "greet"), `TakeQueue`,
`FlushOne`, `FlushFails` (`flushQueue`), and the read loop, where `Send` is
`handleEnvelope` up to its lookup, `Forward`, `ForwardFails` and `EnqueueOne` what
follows it, `Publish` is `handleSessions`, and `ReadFails`, `Unregister`,
`DropSessions` the end. `online`, `queued`, `status` and `shared` are the server's
maps and the two parts of the store the relay uses. `hand[c]` are the envelopes a
goroutine holds in a local variable, outside any lock, which is where the
interesting losses and duplicates would happen. A connection's socket is *up*,
*halfopen* (the peer has left and writes still succeed) or *down*. `stale` counts
the envelopes at the head of a queue whose `queueTTL` has passed.

The abstraction `Mailbox` is what a member may expect: an accepted envelope is
held, and then either handed over once or given up, never both. The other abstraction
is `Workspace` (below): `Kept` is the workspace as the relay sees it, with an
invitation for everybody, and `WorkspaceKept` says that the relay changes it by the
store's operations only, under the conditions the store sets. `Store`, the same
workspace as a file of several processes, is the other half.

| run | instance | shows |
|---|---|---|
| relay_mail | three connections, two of them bob's, two envelopes for bob, queues of 1, bob joins later; 1,409,680 states | `Accounted`, `RightRecipient`, `OnlineExact`, and `Mailbox` as refinement |
| relay_rosters | two connections that report one session, bob revocable; 88,770 states | `NoOrphanSessions`, `WorkspaceKept`, and, under fairness, `RostersConverge`, `ClosedEnds` |
| relay_flush | two connections, queues of 2 | `FlushKeepsTheRest` is violated |

Two connections for one member are what a late `unregister` needs, and two
envelopes with a queue of one are the least with which an eviction and a failed
flush meet. The envelopes are symmetric. `TypeOK`, `QueueBounded` and `OneCopy` are
proved and not listed in the run.

*Fairness.* A goroutine that can take a step does, the end of a dead socket is
noticed (the ping and the deadlines of `server.go`), a handshake that is not
answered times out. `RostersConverge` also lets connectors report again and again,
which `poll` does every interval. No fairness is asked of people: nobody need
dial, send or leave.

*Finding.* `flushQueue` (`server.go:299`) puts back the envelope whose write
failed and drops those behind it, contrary to its comment two lines above.
`Mailbox` still holds because a lost envelope is one given up; `Accounted` shows
that this is the one unannounced way to lose one besides the limit and the age.

*Not kept.* The goroutine of a replaced connection removes the sessions of its
member on its way out (`server.go:360`), those its new connection has just reported
included; they are back with the next report. `NoOrphanSessions` is the other
direction. An instance with the three connections the opposite would need is too
large for a liveness check.

*Proved* (`RelayProofs`), for any number of members, connections, envelopes and
sessions and any queue limit:

- `RelayTyped`, `RelayBounded`, `RelayOneCopy`, `RelayAccounted`. `OneCopy` is not
  inductive: that a failed write puts an envelope back without doubling it depends on
  the envelope being nowhere else, and that accepting one does not double it depends
  on `fate` telling the truth. The inductive invariant `IInv` is `TypeOK`,
  `QueueBounded` and four parts. `QueuesApart`, `HandsApart` and
  `QueuesAndHandsApart` say that no two positions in queues and hands hold the same
  envelope, split by the kinds of the two places so that an action disturbs few of
  them; `Tracked` says that a held envelope is one whose fate is "waiting" and the
  converse. The lemmas follow the code: `EnqueueElements` is what `enqueue` does to a
  queue as a set, including the eviction, `Suffix` and `Single` are about the
  sequences `flushQueue` walks, and `TakeQueueKeeps`, `HandedOverKeeps`,
  `PutBackKeeps`, `SendKeeps` are the four kinds of step that move envelopes.
  `NextPlaced` puts them together; all other actions leave the four parts alone
  (`Untouched`).
- `RelayMailbox`: `Spec => Mailbox`, the refinement. With `Accounted` known, the
  three sets of the abstract mailbox are functions of `fate` alone, so it is enough
  to see what a step does to the fates (`StepFates`: it accepts one envelope, hands
  over one that is waiting, gives up some that are waiting, or refuses one never
  accepted), and each of the four is a step of the mailbox or a stutter
  (`StepPromise`).
- `RelayOnline`: `Spec => []OnlineExact`. It needs three more facts (`OnlineInv`):
  a connection that has never been dialled has an unused socket (`UsedOnce`), a
  goroutine that has left the read loop has a closed one (`EndedIsDown`), and a
  member has at most one connection both of whose ends are open (`OneSocket`).
  The late `unregister` of a replaced connection is the step they are for.
- `RelayRightRecipient`. Queues, the slice a flush walks and the looked-up connection
  each carry their own part (`QueuesRight`, `FlushRight`, `TargetRight`); the last
  follows from `OnlineExact` at the moment of the lookup.
- `RelayNoOrphanSessions`: with `TypeOK` it is inductive as it stands, for it names the
  stages at which the goroutine that reported a session may still be.
- `RelayWorkspaceKept`: four actions write to the store, and each is one operation of
  `Workspace` where it is allowed (`JoinKept`, `RevokeKept`, `SessionsKept`); every
  other leaves the workspace alone (`NextKept`). From it follows `RelayRevokedHidden`:
  the connection of a revoked member lives on and may report, and nothing it reports
  is listed.

## RelayClient

Models `transport/relay.go` with the two goroutines of the daemon that call it:
the poll (`Expose`, `ExposeWrite`, in the end `Close`, `Closed`) and `routeInbound`
(`Take`, which also does `rememberSender`). `pc` is `keepConnected` with `runOnce`
inlined: `Dial`, `Install`, `Healthy`, the first report (`Copy`, `Publish`), the
read loop (`ApplyRoster`, `ApplyEnvelope`, `Deliver`, `ReadFails`), then `Drop`,
`Retry`, `Stop`. `Send` is the critical section that takes the number and the
connection, `SendWrite` the write, which may find another connection in place.
The relay is the environment: any roster or envelope, in any order, and the link
may drop at any point.

| run | instance | shows |
|---|---|---|
| client | one person who can write, one session, two callers of `Send`, two connections, two numbers per address, two sets of sessions to expose, a channel of 1; 689,096 states | `NumbersDistinct`, `SendersAnswerable`, and, under fairness, `RedialsOrCloses`, `ReportsConverge` |

Two connections are needed for anything to outlive one, a channel of one for
`Deliver` to block, two messages on the wire for a roster and an envelope to
overtake each other's effects.

*Fairness.* `keepConnected` runs. `Take` is fair only while the client is open, so
that `RedialsOrCloses` holds although nobody takes deliveries any more; this is what
the select on the context in `applyEnvelope` is for. `ReadFails` is strongly fair:
the websocket library closes the connection of a read whose context is cancelled,
so the read fails in the end whatever the relay goes on sending. The poll calls
`Expose` again with an unchanged list, which is what repairs an older report that
was written last.

*Not kept.* `applyRoster` forgets addresses that disappear from a roster
(`relay.go:514`) although the comment at 215 would have the relay hold messages
for them. The first envelope of a connection may arrive before its first roster
(`relay.go:534`): its sender is unknown and it is dropped.

*Proved* (`RelayClientProofs`): `ClientTyped`, `ClientNumbersDistinct`,
`ClientSendersAnswerable`, `ClientClosesQuietly`, `ClientReportTells`. A number is new because it is above every one that is
written or in the hand of a sender (`Taken`); a sender stays answerable because
whoever has sent something, from the moment its envelope is applied, is a person in
`lastKnown` and in the list of members, which neither a roster nor a lost connection
takes back (`Remembered`), and because `keepConnected` has no connection between one
and the next (`Placed`). The channel of deliveries is closed after the loop that sends on
it has stopped (`ClosedStopped`), so nothing is sent on a closed channel, which would
bring the daemon down. `ClientReportTells` is about the two writers of reports: as long as
the dial's and the daemon's do not overlap on a connection (`ReportsApart`), the relay has
been told of exactly the exposed sessions whenever no report is left to write
(`ReportTells`). The overlap is what the poll's next report repairs, and `ReportsConverge`
shows on the instance that it does.

## Supervisor, Ghost, NativePeer

`Supervisor` models `daemon/supervisor.go`, `orphans.go` and the calls `Daemon.Run`
and `reconcile` make. `stage[p]` follows the `keepAlive` goroutine of a peer, with
`runOnce` inlined; the reader goroutine is `Read`, the goroutine of `os/exec` is
`Interrupt` and `Kill`. `Ensure`, `Release` and `Close` are the poll's, one at a
time, the latter two with a second action for the end of their wait. `child[c]` is
what a process number stands for: one of our ghosts in some state, nothing, or a
process of somebody else that was given the number. `records` is the session
directory, `index` the orphan index and `saved` its file, which every change of the
index writes (`Persist`), successfully or not: the daemon only logs a failure, if
that. The file is what outlives `DaemonDies`. Ghosts are the environment of the
supervisor; they do what `NativePeer` lets them and may hang.

A process number is free once its process has been waited for (`Reap`), and is taken out
of the index by another step (`Forget`); in between, another goroutine can start a ghost
with it. The daemon that starts sweeps first (life "sweeping"): for one entry after the
other it looks whether the process lives (`SweepLooks`), and then removes its record, if
that succeeds, and its entry (`SweepRemoves`), with the number given out in between or
not; the file is written at the end (`SweepEnds`).

`Ghost` models one such process in detail: `Run` with its deferred calls, the
accept loop and one goroutine per connection, the forwarder, the heartbeat and
the reader of commands. Removing the record fails or not (`Remove`, `kept`), and so does
`Accept` (`AcceptFails`, `deaf`). Its run checks `Promise`: mapped by `state`, a `Ghost`
is a `NativePeer`, whose states are those `Supervisor` gives a child, except that one
that is dead may have removed its record, have failed to ("left"), or have been killed.
In `Supervisor` each process number has an instance of `NativePeer` (`Ghost(c)`, dead
with its record in place being "killed", for from outside that is the same as "left"),
and `LivesAsPromised` is that whatever else happens a ghost takes steps of it only. This
is how the two are composed.

| run | instance | shows |
|---|---|---|
| ghosts_run | two peers, one process number, two starts of the daemon, one failing write of the index, channels and pipe of 1, one failure before giving up, one frame for a ghost of the first peer; 521,549 states | `GhostsTracked`, `GhostsAttended`, `ClosedIsQuiet`, `FramesKept`, `LivesAsPromised`, `SweepSparesTheLiving`, and, under fairness, `DeadIsReplaced`, `ReturnsUnlessStuck` |
| ghosts_close | one peer, one process number, three frames, a pipe of 2; 18,501 states | `ShutdownReturns` is violated |
| ghost | two connections, three frames, channels and pipe of 1; 205,371 states | `HeartbeatHarmless`, `FramesForwarded`, `Promise`, and, under fairness, `Stops` |

Peers share the frame channel, the index and the process numbers. With one number for
two peers, the one a ghost has left passes to the ghost of the other peer, to a later one
of its own, or to a stranger, which is what the index and the sweep have to cope with;
two ghosts at once need two numbers, and such an instance has more than ten million
states: it is the theorems that are about any peers and numbers. Capacities are 16 and 64
in the code (`EventLimit`, `FrameLimit`): what matters is that they can be full, and with
one place they are at once, for a ghost writes three events. The channel of events and
the pipe hold two together, one too few for these three, so `Stuck` happens here. Two
starts are one crash, and one write that fails is enough for file and index to differ
when the daemon dies.

*Fairness.* In `Supervisor` the daemon's goroutines run and `os/exec` kills after
its delay; nothing is asked of a ghost. In `Ghost` its goroutines run, the parent
reads, and a session hangs up after it has sent what it was going to send
(`inbox.go:144` describes its connections as short). Closing the inbox waits for
connections and reads have no deadline, so this last assumption is necessary: a
connection left open keeps the ghost from ending. `Stops` makes an exception for a
parent that has died: a write to a pipe nobody reads can then end the process before
it has finished.

*Finding.* When a peer is stopped, `runOnce` stops taking from `events` and waits
for the reader, which may be blocked in its send for ever (`supervisor.go:383`): with
more events in the pipe than the channel holds, `Close` never returns. `Stuck` names that
state, and `ReturnsUnlessStuck` shows on the larger instance that it is all that keeps
`Close` waiting: ghosts that hang, were told nothing yet, or crash do not.

*Not kept.* All of these are in the model, and excepted by name where a property would
meet them:

- A ghost that dies with its record in place is forgotten by the index
  (`supervisor.go:339`), although the comment at `supervisor.go:292` would keep the
  entry for the next sweep, so the record stays until somebody removes it by hand.
  `GhostsTracked` is therefore about ghosts that live.
- A ghost whose daemon died after a write of the file failed and before one succeeded has
  no entry (`lost`); any later write, of whatever peer, repairs the file, because each
  writes the whole index.
- The number of a ghost is free before it is forgotten (`supervisor.go:338`, 373, 384).
  If the ghost of another peer starts with it and is tracked in between, its entry is
  what `Forget` deletes (`mistaken`), and it may publish without one.
- A sweep that has found a number dead removes its record even if the number was given to
  a session in between (`orphans.go:142`, 147), whose record that then is (child state
  "late"), although the comment at `orphans.go:127` has it left strictly alone.
- If a ghost is not seen to be ready in time, all it wrote is dropped
  (`supervisor.go:369`), although its report, and frames, may be in the channel already:
  the select takes either. `FramesKept` is about the ghosts that were seen in time.
- A ghost that cannot remove its record exits with the record in place
  (`registry.go:315`, `ghost.go:90`), and is forgotten as well.
- A ghost whose `Accept` fails goes on with its record and its heartbeat and accepts
  nobody (`inbox.go:122`).

*Proved* (`SupervisorProofs`): `SupervisorTyped`, `SupervisorGhostsTracked`,
`SupervisorGhostsAttended`, `SupervisorClosedIsQuiet`, `SupervisorFramesKept`,
`SupervisorSparesTheLiving`, for any peers, process numbers, capacities, restarts and
faults. The inductive invariant adds to these properties that a peer is given up at
the limit (`Bounded`), that no two goroutines run one process (`Apart`) and a number yet
to be forgotten has passed to another peer's ghost, if to any (`Reused`), that a
goroutine runs for a peer that is wanted or being released (`Owned`), that what the sweep
is about to remove is nobody it spares (`Swept`), that what a goroutine runs is in the
index from `Track` to the end of the process, unless it was forgotten by mistake
(`Listed`), that a ghost left alone by a dead daemon is in the file (`Filed`), that the
file has what is in the index as long as no write failed (`Unfailed`), that nothing is
in pipe or channel of a peer whose ghost was not told to publish, or is gone (`Unread`,
`Untold`), that frames are counted from the start of a ghost (`Uncounted`), and that only
a cancellation ends one that was seen to be ready while it writes (`Timely`).
`GhostsTracked` and `SweepSparesTheLiving` say whom they except by what happened to that
process, so the theorems also bound the harm: no write that failed, nothing lost; one
peer, nothing forgotten by mistake; and no ghost ever loses its record to a sweep.
`FramesKept` counts frames in sequences; `FramesCounted`, `FramesAppend` and `FramesTail`
prove how the count changes, by a bijection between the places before and after.

`SupervisorLivesAsPromised` needs that a ghost which has published has its record
(`Recorded`): only then is every death without a withdrawal one that `NativePeer` calls
"killed"; and that a sweep's hand is never on the record of a ghost (`Swept`). `SupervisorTakesAnyGhost` is the other direction: every step that
`NativePeer` allows a living ghost without its parent is one of `World`. An environment
that left out some of them would make the other theorems say less than they seem to:
ghosts also stop on a signal, which is why `StopServing` has no guard but the state of
the ghost. Together with `GhostPromise`, the theorems about `Supervisor` are about
daemons whose ghosts are those of `Ghost`.

Two theorems are about the finding, for every capacity. `SupervisorStuckStays`: a stuck
reader stays stuck until the daemon is killed, and `Close` has not returned; nobody's
step helps, the kill after `WaitDelay` included, for what the ghost wrote stays in the
pipe. `SupervisorStuckNeedsFrames`: it takes a ghost that has written, in its life, at
least `EventLimit - 1` frames, 15 in the code. Its invariant `Written` bounds what waits
in pipe and channel by the frames and by what the state of the ghost says it has said of
itself (`Said`).

*Proved* (`GhostProofs`): `GhostTyped`, `GhostHeartbeatHarmless`,
`GhostFramesForwarded`, and the refinement `GhostPromise`. The order in which `Run`
and `serve` start and wait for their goroutines is `Started`; `Recorded` and `Bound`
say between which of `Run`'s stages a record, if it could be removed, and a listener
exist; `Seen` that what
the heartbeat saw is still so; `Channel` and `Conserved` that the channel of frames is
open as long as somebody may put one into it and that every accepted frame is in the
channel, in the forwarder's hand, or written.

## Workspace, Store

`Workspace` is the abstract workspace: a record changed by whole operations, with
the guards and effects of the writing operations of `workspace/store.go` (invite,
redeem, revoke, set a trust level, report and drop sessions). `Store` is how it is
done: a process opens the file (`Open`, `OpenStamp`), takes the lock (`Begin`),
rereads (`Reread` in `Change`, `Refuse`, `RereadFails`), changes its copy, writes and
renames (`Persist`, `PersistFails`), stamps, and releases; a reader compares the
stamp (`SeeChange`) and rereads without a lock (`ReadFile`, `ReadFails`). Processes
can die anywhere. `OneChangeAtATime` is that the file implements `Workspace`.

| run | instance | shows |
|---|---|---|
| store | two processes, two people, an invitation for one, five writes after the first, three openings; 526,544 states | `OneChangeAtATime`, `StampTells` |

A one-use invitation and two people are what over-redemption needs; six versions
allow an invitation, a join, a report of sessions, a revocation and one change more.
Processes are symmetric, and so are people.

The model begins after `CreateWorkspace`; the owner is not among the people and
there is one machine per person. `version` stands for the pair of modification time
and size, so two files that agree in both are not modelled. `reloaded` marks
processes whose last stamp was taken with the file read since: the window in
`OpenStore`, which reads and stamps without a lock (`store.go:80`), and a reread
that fails after stamping (`store.go:140`) leave a process with an old copy under a
current stamp; both are in the model, and `StampTells` excludes them by name.

*Proved* (`StoreProofs`): `StoreTyped`, `StoreStampTells`, the refinement
`StoreOneChange`, and through it three facts about every workspace,
`StoreUsesLimited` (no invitation admits more people than it was made for),
`StoreRevokedHidden` (only active members have sessions in the file) and
`StoreNothingForgotten` (no write takes back a membership, a revocation, an invitation
or its uses, whichever process makes it and however old its copy was). The argument is
about the lock: whoever is between the reread and the stamp holds it (`Locked`), so
what it is about to write is one allowed operation applied to what is there
(`Prepared`), and a stamp that agrees with the file was taken since the file was
written (`Current`).

## Trust, Receiver

`Trust` has the levels and `Resolve`, the most restrictive of every opinion, with
what an unknown word does. `Receiver` is the receiving half of the daemon. The poll
and the router both go through `reloadSettings`: `Stat`, `Claim` (the stamp is stored,
under the lock, before the file is read), `Load`, `Apply`, and their failures. The
router delivers a message (`Arrive`, `Lookup`, the reload, `Withhold` and `Hold`, or
`Frame` and `Hand`), and control connections approve (`Approve`, the same delivery,
`PutBack` when it fails) or `Discard`. `Write` is a write of the held file that may
fail. The owner of the machine edits the configuration at any time, and the daemon
may die and be started again.

| run | instance | shows |
|---|---|---|
| receiver | two messages, one proposed as peer and one without a proposal, four settings (nothing said, *peer*, *peer* with a hold for a person, *hold* with a misspelled word for a person), two control connections, one held message, two versions of the configuration, two starts, two faults; 692,073 states | `DecidedOnce`, `KeptSurvives`, `LevelGranted`, `DecisionsStand` |
| settings | one message, two settings, no control connection, no fault, under fairness; 1,070 states | `SettingsApply` is violated |

The limit of held messages is 200 in the code; with one, two messages already push
each other out. Approvals are symmetric.

The settings of the machine are an opinion on everybody in the workspace, which is the
default where the file has none (`WithDefault`), and for each message the opinions on its
sender and on the session it is for (`others`); together with the proposal they are what
`Resolve` is asked about (`Said`). Nothing checks the words (`config.go:96`), so any of
them may be "unknown". The words are taken to be trimmed and in lower case, as `Resolve`
makes them; a workspace opinion of blanks alone, which is no opinion but not replaced by
the default either, is left out.

*Finding.* The poll claims the stamp of one version and reads it; before it applies
it the file is written again and a delivery claims, reads and applies the newer
one; the poll then applies the older. The stamp says the newer one is in force, so
nothing rereads it.

`ReceiverSettingsTell` is what can be promised all the same. As long as two reads do not
overlap (`OneReads`) and none fails after its stamp was stored (`NoReadFails`), a stamp
equal to the file's tells that the file's settings are in force (`SettingsTell`). So these
two are all that is wrong: a lock held through `reloadSettings`, and a stamp taken back
when a read fails, would be enough. The theorem needs `Follows`: what the one reader has
in hand is of the version whose stamp it stored, or the file has been written since.

`DecidedOnce` is paid for by the order of `Take`: a message leaves the file before it
is delivered, so one whose daemon dies in between is lost (fate "lost").

*Not kept.* One word that is no level, of the workspace or anywhere in the settings, makes
the level *source* also where another opinion is *hold* (`trust.go:87`): the message is
shown at once, although by ADR-0006 (line 35) a hold anywhere holds. `trust.go:88` says
why an unknown word is not taken for a hold, not that it should undo one.
`LevelGranted` says of such a message that it is shown as source.

*Proved* (`ReceiverProofs`): `ReceiverTyped`, `ReceiverDecidedOnce`,
`ReceiverKeptSurvives`, `ReceiverLevelGranted`, `ReceiverDecisionsStand`. `Places` says which stages a
goroutine can be at and `Handled` that a message in hand is in one hand; one that is
not waiting for a decision is neither in memory nor in the file (`Away`), and `Counted`
follows its decisions by its fate. Settings in force or in hand are ones the owner has
written (`Owned`), and a level nobody approved is what `Resolve` answers for some settings
there have been (`Below`, `Granted`, with the lemmas `SaidOpinions` and `LevelGiven`);
what that is, the theorems about `Resolve` say. Lemmas about removing, appending and cutting sequences without
repetition carry the store of held messages.

Three theorems are about `Resolve` itself, for every set of opinions.
`TrustMostRestrictive` says what it answers; `TrustOnlyLowered` that another opinion
can only lower a level somebody has given, if all of them are levels; and `TrustHolds`
that the answer is *hold* exactly if somebody holds and every word is a level. The
unknown word above is thus all that raises a level or undoes a hold.

## Promotion

`Promotion` models how the daemon decides which remote sessions get a ghost of their
own, and where a frame written to one goes. `stage` is where the poll is between two
reads of shared state: the health and the mode (`Look`), the roster (`ReadRoster`),
the mode again (`ReadMode`), the slice `Policy.Subscribed` (`ReadSlice`) and its elements
one by one (`RangeOver`, `RangeEnds`), the cap (`AllFit`, `TooMany`), a copy of the last uses
(`CopyUsed`), and the cap a third time (`Cut`, `CutBlank`, `CutPanics`); then
`Ensure` for what is wanted, `Release` for what is not, and `Publish` of the new table
of peers. None of these reads takes `Daemon.mu`, except the copy and the last. Under
the lock, and in other goroutines, `Reload` puts another policy in place, and
`subscribe` (`Subscribe`, `Compact`, `Store`) moves the elements it keeps to the front
of the very array the poll may be ranging over, one by one: `view` is what the poll's
slice holds and `shared` whether it still is that array. The router takes a frame
(`Write`), looks its peer up in the table (`RoutePeer`), falls back to the mention
(`RouteMention`) and notes the use (`Hand`). `round` is a history of what was so at
some time in the round: who was listed or not, asked for or not, the caps, the modes,
whether elements were moved, and whether the list read was that of another mode.

| run | instance | shows |
|---|---|---|
| promotion | two sessions, the policies *auto* with cap 1, *manual* with cap 0 and one session, *manual* with cap 2 and both, *off*, three changes, one frame; 1,928,423 states | `CapKept`, `OnlyAsked`, `WantedStays`, `FramesReach`, `RoutedByName`, and, under fairness, `PeersSettle` |

The four policies differ in every way the poll looks at, and the caps lie below, at
and above the candidates. Three changes (a reload, a subscription, a roster or a use)
are what it takes to reach a state with peers, and to change it twice within a round.

*Fairness.* The poll comes round again, `subscribe` returns, the router goes on.
`PeersSettle` asks nothing of people: it is about runs in which the settings and the
roster stay what they are. Ties in the last use are broken by the order of a map, so
it is also about states without one (`Cardinality(Due) = 1`).

*Not kept.* All of these are in the model and excepted by name where a property would
meet them:

- `wanted` looks at the mode twice. Switched off in between, the second look falls into
  the default case, which is that of *auto*: every session on the roster is promoted
  for one interval (`daemon.go:584`, comment at 561). `OnlyAsked` excepts it.
- If the cap grows between the comparison and the cut, the slice expression reaches
  beyond the candidates: within the capacity of the array it gains blank sessions and
  a peer without a name is started (`CutBlank`), beyond it the expression panics and
  the connector stops (`CutPanics`) (`daemon.go:602`).
- A session can be passed over for one round when `subscribe` moves its element to the
  front while the poll ranges over the array (`control.go:295`). `WantedStays` excepts
  a round whose array was moved; `PeersSettle` shows that a later round repairs it.
- The mode and the list are two reads (`daemon.go:574`, 577). A policy that ceases to be
  *manual* in between gives the mode of one and the list of the other, often an empty
  one: peers are released for one round that both policies ask for. `WantedStays` excepts
  a round in which this happened (`mixed`); a change from one *manual* policy to another
  is no exception.
- Sessions that were never used tie, and beyond the cap each poll may break the tie
  anew and restart ghosts for no reason (`daemon.go:599`, against ADR-0003).
- A lost connection empties the client's roster, so the peers of sessions are
  released, although the comment at `daemon.go:554` has them outlive it.
- `reconcile` starts what is new before it stops what is old, so that for a while
  there are more processes than the cap. `CapKept` is about the end of the round.
- A frame to a peer that has just been started, or released while the frame waited, is
  not in the table: it goes where its mention leads, or nowhere (`daemon.go:653`).
- In mode *auto*, `promote` changes a list that nothing reads (`control.go:306`).

*Proved* (`PromotionProofs`): `PromotionCapKept`, `PromotionOnlyAsked`,
`PromotionWantedStays`, `PromotionFramesReach`, for any sessions, any policies and any
number of changes. The invariant `Decision` says of every stage what the poll's locals
owe to the round: what is so now has been so in the round (`Observed`), what has been
read of the array was asked for or the array was moved (`Ranging`, `Reading`,
`Collected`), the candidates are listed and asked for (`Candidates`), those that
were too many were so for some cap of the round (`Crowded`), and what was decided fits
a cap, contains only what was called for and misses nobody but those outranked
(`Decided`: `Fits`, `OnlyCalled`, `NobodyMissed`). `NotedSees`, `OutrankedGrows` and
`DecidedGrows` show that a change during the round only adds to what the properties
allow; `CompactShape`, `StoreShape` and `Untorn` are about the array being moved.
`Routing` is the part of `FramesReach`, and of `PromotionRoutedByName`: its part `Values`
says of the table in force, and of the one a round is about to publish, that the name
of a session leads to that session, which `PeersForSessions` shows of every table
`wanted` makes. `PromotionTableAgrees` (outside the release loop the table names exactly
the peers that run) needs the relation between `want`, `running` and `peers` at each
stage (`Tabled`); `PromotionPanicNeedsGrowth` says that `wanted` cuts beyond its slice
only in a round with two caps. `PromotionTyped` needs that the list of last uses never
repeats a session (`Noting`), for which `RemoveAtLeaves` and `TouchPutsFirst` say what a
sequence without repetitions is once an element is moved to its front.

## Control

`Control` models `serveControl` and `serveControlOnce` (`daemon/control.go`), with as
much of `ccpeer/endpoint_unix.go` as they use, and two callers: a command, which reads
the address file for every call, and the MCP server, which reads it once. Each endpoint
the daemon binds has a number. `stage` is the point of the loop: `Bind`, `Publish` (the
address file), `Accept`, `AcceptEnds` or `AcceptFails`, `Drain` (the wait for the
connections of the round), `Decide`. `WatchFinds` and `WatchStops` are the watchdog and
the cancellation it waits for, `CloseListener` what closes a listener. The socket of an
endpoint may be removed at any time (`SocketRemoved`), and the daemon told to stop
(`Cancel`).

| run | instance | shows |
|---|---|---|
| control | a command and an MCP server, four endpoints, one failure; 52,504 states | `OldIsQuiet`, `AvailableUntilTold`, and, under fairness, `CommandsGetThrough`, `EndsWhenTold` |

Four endpoints with one failure let the sockets of the first two be removed (a socket is
removed only while an endpoint and a failure are left to bind another, see
`SocketRemoved`), so that one removal can follow another before a caller has noticed the
first. One failure (of binding, of writing the address, of `Accept`) ends the loop.

*Fairness.* The daemon's goroutines run, and the watchdog looks again and again. The
deadlines of a call pass. A command is tried again until it is answered, and a
connection that waits to be accepted or answered again and again is not overlooked for
ever (`SF`): a command whose socket is removed just as it dials has to try again, and
the number of endpoints bounds how often.

*Not kept.* An `Accept` that fails for a reason of its own is to be told apart from a
cancellation, by looking at the context after cancelling it (`control.go:146`, 154): the
error is never returned, contrary to the comments at 74 and 125, and control requests
are no longer answered. An MCP server keeps the address it started with
(`cli/mcp.go:29`) and does not reach the endpoints bound later, although
`CHANGELOG.md:93` has the endpoint come back; `CommandsGetThrough` is about commands.

*Proved* (`ControlProofs`): `ControlTyped` and `ControlOldIsQuiet`, for any number of
callers, endpoints and failures. Beside the two, the invariant says that while a round
is served the address file names its endpoint, which is the theorem
`ControlAddressTells`. `ControlAvailableUntilTold` is that only a cancellation or a
failure ends the loop. It rests on the order of the watchdog's steps: the reason is
recorded before the listener is closed, so a round whose `Accept` ended without an
error of its own has been told or has one to give (`Reasoned`), and at the end the
address file is gone and every listener is closed or about to be (`Finished`), of
which `ControlNothingLeft` draws the conclusion for both ways out. `ControlErrorLost`
is the first of *Not kept*, as a theorem: no step out of `Decide` returns the error.

## Proofs

Eight modules hold theorems, each beside the module it is about. `PROJECT.json` lists
the theorems under `theorems` with what each establishes. All start from the named
assumption of the module (that capacities and bounds are numbers, and that the value
for "none" is none of the others) and nothing else.

The pattern is the same everywhere: an invariant `IInv` (`Decision` and `Routing` in
`PromotionProofs`, with further invariants in `RelayProofs`) that contains the
properties; `Init => IInv`; a lemma for each part, or group of parts, that every step
preserves it, with a case for each action; and a theorem for each property. Action
properties and refinements follow from the invariant and from what each action does.

Two theorems have a hypothesis about the behaviour (`ReceiverSettingsTell`,
`ClientReportTells`). It names the interleaving, or the failure, without which the code
keeps a promise that it does not keep in general, and which the finding or the liveness
property beside it is about. Behaviours with and without it are both in the runs.

## What is only model-checked, and what is left out

Liveness under fairness and ENABLED are out of the prover's reach, and so would be
induction over data and recursive definitions, of which there are none. So
`RostersConverge`, `ClosedEnds`, `RedialsOrCloses`, `ReportsConverge`, `DeadIsReplaced`,
`ReturnsUnlessStuck`, `Stops`, `PeersSettle`, `CommandsGetThrough` and `EndsWhenTold` are
shown on the instances only. Every other property of a passing run is also a theorem.

Not modelled, beside the components the inventory leaves out:

- relay: the list of members in a roster, one person's several machines, a store that
  fails during a request, empty machine identifiers, the checks of a request to join;
- relay client: the ping goroutine and all durations, among them a backoff that never
  resets; the same message sent again by a caller that gave up waiting;
- supervisor and registry: an unreadable index, which starts empty; reading and merging
  the directories of sessions; the token check of an inbox; texts and framing;
- settings and held messages: two processes that load, change and `Save` the
  configuration at once (`config.go`), which overwrite each other's change and share
  one temporary name; a held file that cannot be parsed, which starts empty;
- promotion: the roster and the addresses of people who wrote, which the fallback to a
  mention reads one after the other (`daemon.go:667`, 676) and `RouteMention` at once; no
  property is about a frame that is routed by its mention; names of peers that collide; a change of `IncludeWorkspaceInNames`; a read
  of a string or slice header while it is written, taken to give the old or the new
  value; peers that cannot be started, a degraded platform;
- control: a connector that stops and removes the address file of a newer one
  (`control.go:84`), the encoding of requests, Windows pipes;
- loopback transport: a double for tests and demonstrations, its `Close` racing its
  `Send` included; identity and cryptography; cleaning of text; the command line.

The hazards in `PROJECT.json` with no property, or with a limit to what their property
says, have a note that says why.
