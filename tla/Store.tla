------------------------------- MODULE Store -------------------------------
(***************************************************************************)
(* The workspace store, workspace/store.go and workspace/lock.go: a file   *)
(* that the relay and the command line share, and the copy each of these   *)
(* processes keeps.                                                        *)
(*                                                                         *)
(* Within a process every operation holds Store.mu from beginning to end,  *)
(* so a process does one at a time; between processes a writer holds the   *)
(* lock beside the file, and a reader nothing.  A file is installed by a   *)
(* rename, and a reader tells files apart by what os.Stat says of them:    *)
(* version stands for that.  A process can die anywhere, which frees the   *)
(* lock, and a write can fail, which leaves the change in memory.  The     *)
(* model begins when CreateWorkspace has written the first file.           *)
(***************************************************************************)
EXTENDS Naturals

CONSTANTS
    Procs,     \* the processes
    People, Invs, MaxUses,   \* of the workspace
    Writes,    \* bound: files installed
    Opens,     \* bound: times the store is opened
    Nothing    \* no process, or no operation

VARIABLES
    file,      \* the contents of the file
    version,   \* which file it is, the first being 1
    expired,   \* invitations whose time is over
    lock,      \* who holds the lock
    stage,     \* where each process is
    op,        \* the operation it is doing
    mem,       \* the maps of its Store
    stamp,     \* loadedAt and loadedSize
    reloaded,  \* history: the last file stamped, other than on opening the
               \* store, was read, and no write has failed since
    opens      \* how often a store was opened

vars == <<file, version, expired, lock, stage, op, mem, stamp, reloaded, opens>>

Stages == {"down", "opened", "idle", "locked", "persist", "stamp", "read"}

Promised == INSTANCE Workspace WITH ws <- file
Empty == Promised!Empty
Ops == Promised!Ops

ASSUME StoreAssumption ==
    /\ MaxUses \in [Invs -> Nat]
    /\ Writes \in Nat \ {0} /\ Opens \in Nat
    /\ Nothing \notin Procs

Init ==
    /\ file = Empty /\ version = 1
    /\ expired = {}
    /\ lock = Nothing
    /\ stage = [p \in Procs |-> "down"]
    /\ op = [p \in Procs |-> Nothing]
    /\ mem = [p \in Procs |-> Empty]
    /\ stamp = [p \in Procs |-> 0]
    /\ reloaded = [p \in Procs |-> FALSE]
    /\ opens = 0

disk == <<file, version>>
copies == <<mem, stamp, reloaded>>

GoTo(p, s, t) == stage[p] = s /\ stage' = [stage EXCEPT ![p] = t]

-----------------------------------------------------------------------------
(* OpenStore reads the file, without the lock ...                          *)
Open(p) ==
    /\ GoTo(p, "down", "opened")
    /\ opens < Opens
    /\ opens' = opens + 1
    /\ mem' = [mem EXCEPT ![p] = file]
    /\ stamp' = [stamp EXCEPT ![p] = 0]
    /\ reloaded' = [reloaded EXCEPT ![p] = FALSE]
    /\ UNCHANGED <<disk, expired, lock, op>>

(* ... and looks at it once more for the stamp.                            *)
OpenStamp(p) ==
    /\ GoTo(p, "opened", "idle")
    /\ stamp' = [stamp EXCEPT ![p] = version]
    /\ UNCHANGED <<disk, expired, lock, op, mem, reloaded, opens>>

-----------------------------------------------------------------------------
(* A change: beginWrite, the operation, persistLocked.                     *)

(* Its file is closed, and with it the lock on it, if it was locked.       *)
Release(p) == lock' = IF lock = p THEN Nothing ELSE lock

(* The operation is over.                                                  *)
Over(p) == op' = [op EXCEPT ![p] = Nothing] /\ Release(p)

(* It waits until the lock is free, holding up its own process only.       *)
Begin(p, o) ==
    /\ GoTo(p, "idle", "locked")
    /\ lock = Nothing
    /\ lock' = p
    /\ op' = [op EXCEPT ![p] = o]
    /\ UNCHANGED <<disk, expired, copies, opens>>

(* The file is stamped and read, which nobody can come between, ...        *)
Reread(p) ==
    /\ stage[p] = "locked"
    /\ stamp' = [stamp EXCEPT ![p] = version]
    /\ reloaded' = [reloaded EXCEPT ![p] = TRUE]
    /\ UNCHANGED <<disk, expired, opens>>

(* ... and the operation is applied to what memory already held.           *)
ChangeStale(p) ==
    /\ Reread(p)
    /\ Promised!Changes(mem[p], op[p], expired)
    /\ GoTo(p, "locked", "persist")
    /\ mem' = [mem EXCEPT ![p] = Promised!Apply(mem[p], op[p])]
    /\ UNCHANGED <<lock, op>>

(* ... and the operation is applied to what it holds.                      *)
Change(p) ==
    /\ Reread(p)
    /\ Promised!Changes(file, op[p], expired)
    /\ GoTo(p, "locked", "persist")
    /\ mem' = [mem EXCEPT ![p] = Promised!Apply(file, op[p])]
    /\ UNCHANGED <<lock, op>>

(* ... and the operation is refused, or has nothing to change.             *)
Refuse(p) ==
    /\ Reread(p)
    /\ ~Promised!Changes(file, op[p], expired)
    /\ GoTo(p, "locked", "idle")
    /\ mem' = [mem EXCEPT ![p] = file]
    /\ Over(p)

(* The file was stamped, but could not be read: nothing is done.           *)
RereadFails(p) ==
    /\ GoTo(p, "locked", "idle")
    /\ stamp' = [stamp EXCEPT ![p] = version]
    /\ reloaded' = [reloaded EXCEPT ![p] = FALSE]
    /\ Over(p)
    /\ UNCHANGED <<disk, expired, mem, opens>>

(* The lock is given back before the new file was stamped.                 *)
PersistReleasing(p) ==
    /\ GoTo(p, "persist", "stamp")
    /\ version < Writes
    /\ file' = mem[p]
    /\ version' = version + 1
    /\ Release(p)
    /\ UNCHANGED <<expired, op, copies, opens>>

(* The new file is renamed over the old one.                               *)
Persist(p) ==
    /\ GoTo(p, "persist", "stamp")
    /\ version < Writes
    /\ file' = mem[p]
    /\ version' = version + 1
    /\ UNCHANGED <<expired, lock, op, copies, opens>>

(* It could not be written; the change stays in memory.                    *)
PersistFails(p) ==
    /\ GoTo(p, "persist", "idle")
    /\ reloaded' = [reloaded EXCEPT ![p] = FALSE]
    /\ Over(p)
    /\ UNCHANGED <<disk, expired, mem, stamp, opens>>

(* The lock is released after the new file was stamped.                    *)
Stamp(p) ==
    /\ GoTo(p, "stamp", "idle")
    /\ stamp' = [stamp EXCEPT ![p] = version]
    /\ Over(p)
    /\ UNCHANGED <<disk, expired, mem, reloaded, opens>>

-----------------------------------------------------------------------------
(* Reading: refreshIfChangedLocked, in every operation that only reads.    *)

(* The file is not the one that was read: it is stamped, ...               *)
SeeChange(p) ==
    /\ GoTo(p, "idle", "read")
    /\ stamp[p] # version
    /\ stamp' = [stamp EXCEPT ![p] = version]
    /\ UNCHANGED <<disk, expired, lock, op, mem, reloaded, opens>>

(* ... and then read, by which time it may be another.                     *)
ReadFile(p) ==
    /\ GoTo(p, "read", "idle")
    /\ mem' = [mem EXCEPT ![p] = file]
    /\ reloaded' = [reloaded EXCEPT ![p] = TRUE]
    /\ UNCHANGED <<disk, expired, lock, op, stamp, opens>>

(* It could not be read: the answer comes from memory.                     *)
ReadFails(p) ==
    /\ GoTo(p, "read", "idle")
    /\ reloaded' = [reloaded EXCEPT ![p] = FALSE]
    /\ UNCHANGED <<disk, expired, lock, op, mem, stamp, opens>>

-----------------------------------------------------------------------------
(* A process ends, in whatever it was doing.                               *)
Die(p) ==
    /\ stage[p] # "down"
    /\ stage' = [stage EXCEPT ![p] = "down"]
    /\ mem' = [mem EXCEPT ![p] = Empty]
    /\ stamp' = [stamp EXCEPT ![p] = 0]
    /\ reloaded' = [reloaded EXCEPT ![p] = FALSE]
    /\ Over(p)
    /\ UNCHANGED <<disk, expired, opens>>

(* The time of an invitation runs out.                                     *)
Expire(i) ==
    /\ expired' = expired \cup {i}
    /\ UNCHANGED <<disk, lock, stage, op, copies, opens>>

Next ==
    \/ \E p \in Procs :
         \/ Open(p) \/ OpenStamp(p)
         \/ \E o \in Ops : Begin(p, o)
         \/ Change(p) \/ Refuse(p) \/ RereadFails(p)
         \/ Persist(p) \/ PersistFails(p) \/ Stamp(p)
         \/ SeeChange(p) \/ ReadFile(p) \/ ReadFails(p)
         \/ Die(p)
    \/ \E i \in Invs : Expire(i)

Spec == Init /\ [][Next]_vars

-----------------------------------------------------------------------------
(* Properties.                                                             *)

Content ==
    [created : SUBSET Invs, uses : [Invs -> Nat],
     status : [People -> Promised!Statuses], exposed : SUBSET People, settled : SUBSET People]

Shapes ==
    /\ file \in Content
    /\ version \in 1..Writes
    /\ expired \subseteq Invs
    /\ stage \in [Procs -> Stages]
    /\ op \in [Procs -> Ops \cup {Nothing}]
    /\ mem \in [Procs -> Content]
    /\ stamp \in [Procs -> 0..Writes]
    /\ reloaded \in [Procs -> BOOLEAN]
    /\ opens \in 0..Opens
    /\ lock \in Procs \cup {Nothing}

(* The file and the copies are workspaces, and whoever reads a file in     *)
(* order to replace it holds the lock until it has (store.go:86).          *)
TypeOK == Shapes /\ \A p \in Procs : stage[p] \in {"locked", "persist"} => lock = p

(* store.go:86: whoever writes, and whenever somebody dies, the file       *)
(* changes by one whole operation at a time, applied to what it held:      *)
(* nobody's change is lost, and a change that failed is not written later. *)
OneChangeAtATime == Promised!Spec

(* store.go:45: a reader whose stamp is that of the file holds what is in  *)
(* the file, so one stat tells it whether somebody has written since.      *)
StampTells ==
    \A p \in Procs :
        stage[p] = "idle" /\ reloaded[p] /\ stamp[p] = version => mem[p] = file
=============================================================================
