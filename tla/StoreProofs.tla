---------------------------- MODULE StoreProofs ----------------------------
(***************************************************************************)
(* What Store keeps for any number of processes, people and invitations:   *)
(* its type, that the file is a workspace changed by whole operations, and *)
(* that a stamp tells whether memory is the file.                          *)
(*                                                                         *)
(* The argument is about the lock.  A process that has reread the file to  *)
(* change it holds the lock until the new file is stamped, so what it      *)
(* writes is one operation applied to what is there (Prepared), and nobody *)
(* replaces the file in between; and no stamp is newer than the file, so   *)
(* one that agrees with it was taken since it was written (Current).       *)
(***************************************************************************)
EXTENDS Store, TLAPS

Writing == {"locked", "persist", "stamp"}

Locked == \A p \in Procs : stage[p] \in Writing => lock = p /\ op[p] \in Ops

Prepared ==
    \A p \in Procs : stage[p] = "persist" =>
        Promised!Changes(file, op[p], {}) /\ mem[p] = Promised!Apply(file, op[p])

Current ==
    \A p \in Procs :
        /\ stamp[p] <= version
        /\ stage[p] = "opened" => ~reloaded[p]
        /\ stage[p] \in {"idle", "locked"} /\ reloaded[p] /\ stamp[p] = version
             => mem[p] = file
        /\ stage[p] = "stamp" => mem[p] = file

IInv == TypeOK /\ Locked /\ Prepared /\ Current

-----------------------------------------------------------------------------
(* The operations of a workspace.                                          *)

(* Every operation makes a workspace of a workspace.                       *)
LEMMA ApplyTyped ==
    ASSUME NEW w \in Content, NEW o \in Ops
    PROVE  Promised!Apply(w, o) \in Content
<1> USE DEF Promised!Apply, Promised!Revoke, Content, Promised!Statuses
<1>1. CASE o.kind = "invite"
  BY <1>1 DEF Ops, Promised!Ops
<1>2. CASE o.kind = "redeem"
  <2>1. o.inv \in Invs /\ o.who \in People
    BY <1>2 DEF Ops, Promised!Ops
  <2>2. [w EXCEPT !.status[o.who] = "active"] \in Content
    BY <2>1
  <2>3. \A v \in Content : [v EXCEPT !.uses[o.inv] = @ + 1] \in Content
    BY <2>1
  <2>4. Promised!Apply(w, o) =
          [[w EXCEPT !.status[o.who] = "active"] EXCEPT !.uses[o.inv] = @ + 1]
    BY <1>2
  <2> QED
    BY <2>2, <2>3, <2>4
<1>3. CASE o.kind \in {"revoke", "settle", "expose", "drop"}
  BY <1>3 DEF Ops, Promised!Ops
<1> QED
  BY <1>1, <1>2, <1>3 DEF Ops, Promised!Ops

(* An operation allowed while some invitations are over is allowed while   *)
(* none is.                                                                *)
LEMMA ChangesInTime ==
    ASSUME NEW w \in Content, NEW o \in Ops, NEW over, Promised!Changes(w, o, over)
    PROVE  Promised!Changes(w, o, {})
BY DEF Promised!Changes, Promised!Usable, Content, Ops, Promised!Ops

LEMMA EmptyTyped == Empty \in Content
BY DEF Empty, Promised!Empty, Content, Promised!Statuses

-----------------------------------------------------------------------------
LEMMA InitInvariant == Init => IInv
<1> SUFFICES ASSUME Init PROVE IInv
  OBVIOUS
<1> USE DEF Init
<1>1. TypeOK
  BY EmptyTyped, StoreAssumption DEF TypeOK, Shapes, Stages
<1>2. Locked /\ Prepared /\ Current
  BY DEF Locked, Prepared, Current, Writing
<1> QED
  BY <1>1, <1>2 DEF IInv

LEMMA NextShapes == ASSUME IInv, [Next]_vars PROVE Shapes'
<1> USE StoreAssumption, EmptyTyped
    DEF IInv, TypeOK, Shapes, Stages, disk, copies, GoTo, Release, Over
<1>1. ASSUME NEW p \in Procs, Open(p)
      PROVE  Shapes'
  BY <1>1 DEF Open
<1>2. ASSUME NEW p \in Procs, OpenStamp(p)
      PROVE  Shapes'
  BY <1>2 DEF OpenStamp
<1>3. ASSUME NEW p \in Procs, NEW o \in Ops, Begin(p, o)
      PROVE  Shapes'
  BY <1>3 DEF Begin
<1>4. ASSUME NEW p \in Procs, Change(p)
      PROVE  Shapes'
  <2>1. op[p] \in Ops
    BY <1>4 DEF Change, Locked, Writing
  <2>2. Promised!Apply(file, op[p]) \in Content
    BY <2>1, ApplyTyped
  <2> QED
    BY <1>4, <2>2 DEF Change, Reread
<1>5. ASSUME NEW p \in Procs, Refuse(p)
      PROVE  Shapes'
  BY <1>5 DEF Refuse, Reread
<1>6. ASSUME NEW p \in Procs, RereadFails(p)
      PROVE  Shapes'
  BY <1>6 DEF RereadFails
<1>7. ASSUME NEW p \in Procs, Persist(p)
      PROVE  Shapes'
  BY <1>7 DEF Persist
<1>8. ASSUME NEW p \in Procs, PersistFails(p)
      PROVE  Shapes'
  BY <1>8 DEF PersistFails
<1>9. ASSUME NEW p \in Procs, Stamp(p)
      PROVE  Shapes'
  BY <1>9 DEF Stamp
<1>10. ASSUME NEW p \in Procs, SeeChange(p)
      PROVE  Shapes'
  BY <1>10 DEF SeeChange
<1>11. ASSUME NEW p \in Procs, ReadFile(p)
      PROVE  Shapes'
  BY <1>11 DEF ReadFile
<1>12. ASSUME NEW p \in Procs, ReadFails(p)
      PROVE  Shapes'
  BY <1>12 DEF ReadFails
<1>13. ASSUME NEW p \in Procs, Die(p)
      PROVE  Shapes'
  BY <1>13 DEF Die
<1>14. ASSUME NEW i \in Invs, Expire(i)
      PROVE  Shapes'
  BY <1>14 DEF Expire
<1>15. CASE UNCHANGED vars
  BY <1>15 DEF vars
<1> QED
  BY <1>1, <1>2, <1>3, <1>4, <1>5, <1>6, <1>7, <1>8, <1>9, <1>10, <1>11, <1>12, <1>13, <1>14, <1>15 DEF Next

(* Whoever is between locking and stamping has the lock for itself.        *)
LEMMA NextLocked == ASSUME IInv, [Next]_vars PROVE Locked'
<1> USE StoreAssumption DEF IInv, Locked, Writing, TypeOK, Shapes, disk, copies, GoTo, Release, Over
<1>1. ASSUME NEW p \in Procs, Open(p) \/ OpenStamp(p)
      PROVE  Locked'
  BY <1>1 DEF Open, OpenStamp
<1>2. ASSUME NEW p \in Procs, NEW o \in Ops, Begin(p, o)
      PROVE  Locked'
  BY <1>2 DEF Begin
<1>3. ASSUME NEW p \in Procs, Change(p)
      PROVE  Locked'
  BY <1>3 DEF Change, Reread
<1>4. ASSUME NEW p \in Procs, Refuse(p) \/ RereadFails(p)
      PROVE  Locked'
  BY <1>4 DEF Refuse, RereadFails, Reread
<1>5. ASSUME NEW p \in Procs, Persist(p) \/ PersistFails(p) \/ Stamp(p)
      PROVE  Locked'
  BY <1>5 DEF Persist, PersistFails, Stamp
<1>6. ASSUME NEW p \in Procs, SeeChange(p) \/ ReadFile(p) \/ ReadFails(p)
      PROVE  Locked'
  BY <1>6 DEF SeeChange, ReadFile, ReadFails
<1>7. ASSUME NEW p \in Procs, Die(p)
      PROVE  Locked'
  BY <1>7 DEF Die
<1>8. CASE \/ \E i \in Invs : Expire(i)
           \/ UNCHANGED vars
  BY <1>8 DEF Expire, vars
<1> QED
  BY <1>1, <1>2, <1>3, <1>4, <1>5, <1>6, <1>7, <1>8 DEF Next

(* Nobody replaces the file between a change and its write, for both hold  *)
(* the lock.                                                               *)
LEMMA NextPrepared == ASSUME IInv, [Next]_vars PROVE Prepared'
<1> USE DEF IInv, Prepared, Locked, Writing, TypeOK, Shapes, disk, copies, GoTo, Over
<1>1. ASSUME NEW p \in Procs, Open(p)
      PROVE  Prepared'
  BY <1>1 DEF Open
<1>2. ASSUME NEW p \in Procs, OpenStamp(p)
      PROVE  Prepared'
  BY <1>2 DEF OpenStamp
<1>3. ASSUME NEW p \in Procs, NEW o \in Ops, Begin(p, o)
      PROVE  Prepared'
  BY <1>3 DEF Begin
<1>4. ASSUME NEW p \in Procs, Change(p)
      PROVE  Prepared'
  <2>1. op[p] \in Ops /\ Promised!Changes(file, op[p], expired)
    BY <1>4 DEF Change
  <2>2. Promised!Changes(file, op[p], {})
    BY <2>1, ChangesInTime
  <2>3. \A q \in Procs \ {p} : stage[q] # "persist"
    BY <1>4 DEF Change
  <2> QED
    BY <1>4, <2>2, <2>3 DEF Change, Reread
<1>5. ASSUME NEW p \in Procs, Refuse(p)
      PROVE  Prepared'
  BY <1>5 DEF Refuse, Reread
<1>6. ASSUME NEW p \in Procs, RereadFails(p)
      PROVE  Prepared'
  BY <1>6 DEF RereadFails
<1>7. ASSUME NEW p \in Procs, Persist(p)
      PROVE  Prepared'
  BY <1>7 DEF Persist
<1>8. ASSUME NEW p \in Procs, PersistFails(p)
      PROVE  Prepared'
  BY <1>8 DEF PersistFails
<1>9. ASSUME NEW p \in Procs, Stamp(p)
      PROVE  Prepared'
  BY <1>9 DEF Stamp
<1>10. ASSUME NEW p \in Procs, SeeChange(p)
      PROVE  Prepared'
  BY <1>10 DEF SeeChange
<1>11. ASSUME NEW p \in Procs, ReadFile(p)
      PROVE  Prepared'
  BY <1>11 DEF ReadFile
<1>12. ASSUME NEW p \in Procs, ReadFails(p)
      PROVE  Prepared'
  BY <1>12 DEF ReadFails
<1>13. ASSUME NEW p \in Procs, Die(p)
      PROVE  Prepared'
  BY <1>13 DEF Die
<1>14. CASE (\E i \in Invs : Expire(i)) \/ UNCHANGED vars
  BY <1>14 DEF Expire, vars
<1> QED
  BY <1>1, <1>2, <1>3, <1>4, <1>5, <1>6, <1>7, <1>8, <1>9, <1>10, <1>11, <1>12, <1>13, <1>14 DEF Next

(* A stamp that agrees with the file was taken since it was written.       *)
LEMMA NextCurrent == ASSUME IInv, [Next]_vars PROVE Current'
<1> USE DEF IInv, Current, Locked, Writing, TypeOK, Shapes, disk, copies, GoTo
<1>1. ASSUME NEW p \in Procs, Open(p)
      PROVE  Current'
  BY <1>1 DEF Open
<1>2. ASSUME NEW p \in Procs, OpenStamp(p)
      PROVE  Current'
  BY <1>2 DEF OpenStamp
<1>3. ASSUME NEW p \in Procs, NEW o \in Ops, Begin(p, o)
      PROVE  Current'
  BY <1>3 DEF Begin
<1>4. ASSUME NEW p \in Procs, Change(p)
      PROVE  Current'
  BY <1>4 DEF Change, Reread
<1>5. ASSUME NEW p \in Procs, Refuse(p)
      PROVE  Current'
  BY <1>5 DEF Refuse, Reread
<1>6. ASSUME NEW p \in Procs, RereadFails(p)
      PROVE  Current'
  BY <1>6 DEF RereadFails
<1>7. ASSUME NEW p \in Procs, Persist(p)
      PROVE  Current'
  BY <1>7 DEF Persist
<1>8. ASSUME NEW p \in Procs, PersistFails(p)
      PROVE  Current'
  BY <1>8 DEF PersistFails
<1>9. ASSUME NEW p \in Procs, Stamp(p)
      PROVE  Current'
  BY <1>9 DEF Stamp
<1>10. ASSUME NEW p \in Procs, SeeChange(p)
      PROVE  Current'
  BY <1>10 DEF SeeChange
<1>11. ASSUME NEW p \in Procs, ReadFile(p)
      PROVE  Current'
  BY <1>11 DEF ReadFile
<1>12. ASSUME NEW p \in Procs, ReadFails(p)
      PROVE  Current'
  BY <1>12 DEF ReadFails
<1>13. ASSUME NEW p \in Procs, Die(p)
      PROVE  Current'
  BY <1>13 DEF Die
<1>14. CASE (\E i \in Invs : Expire(i)) \/ UNCHANGED vars
  BY <1>14 DEF Expire, vars
<1> QED
  BY <1>1, <1>2, <1>3, <1>4, <1>5, <1>6, <1>7, <1>8, <1>9, <1>10, <1>11, <1>12, <1>13, <1>14 DEF Next

LEMMA StoreInvariant == Spec => []IInv
<1>1. IInv /\ [Next]_vars => IInv'
  <2> SUFFICES ASSUME IInv, [Next]_vars PROVE IInv'
    OBVIOUS
  <2>1. Shapes' /\ Locked'
    BY NextShapes, NextLocked
  <2>2. TypeOK'
    BY <2>1 DEF TypeOK, Locked, Writing
  <2> QED
    BY <2>1, <2>2, NextPrepared, NextCurrent DEF IInv
<1> QED
  BY InitInvariant, <1>1, PTL DEF Spec

-----------------------------------------------------------------------------
(* The copies of the processes, the file and the lock keep their shapes,   *)
(* and whoever is about to replace the file holds the lock.                *)
THEOREM StoreTyped == Spec => []TypeOK
BY StoreInvariant, PTL DEF IInv

(* store.go:45: a reader whose stamp is that of the file holds what is in  *)
(* it, however many processes write, fail and die.                         *)
THEOREM StoreStampTells == Spec => []StampTells
<1>1. IInv => StampTells
  BY DEF IInv, Current, StampTells
<1> QED
  BY StoreInvariant, <1>1, PTL

(* store.go:86: every step of every process leaves the file alone or       *)
(* applies one whole operation to what is in it.                           *)
LEMMA StepPromise ==
    ASSUME IInv, [Next]_vars
    PROVE  [Promised!Next]_file
<1> USE DEF disk, vars
<1>1. ASSUME NEW p \in Procs, Persist(p)
      PROVE  Promised!Next
  <2>1. stage[p] = "persist" /\ file' = mem[p]
    BY <1>1 DEF Persist, GoTo
  <2>2. op[p] \in Ops /\ Promised!Changes(file, op[p], {}) /\ file' = Promised!Apply(file, op[p])
    BY <2>1 DEF IInv, Locked, Writing, Prepared
  <2> QED
    BY <2>2 DEF Promised!Next, Promised!Do, Ops
<1>2. ASSUME NEW p \in Procs,
             \/ Open(p) \/ OpenStamp(p) \/ \E o \in Ops : Begin(p, o)
             \/ Change(p) \/ Refuse(p) \/ RereadFails(p) \/ PersistFails(p) \/ Stamp(p)
             \/ SeeChange(p) \/ ReadFile(p) \/ ReadFails(p) \/ Die(p)
      PROVE  UNCHANGED file
  BY <1>2 DEF Open, OpenStamp, Begin, Change, Refuse, RereadFails, PersistFails, Stamp,
              SeeChange, ReadFile, ReadFails, Die, Reread
<1>3. CASE (\E i \in Invs : Expire(i)) \/ UNCHANGED vars
  BY <1>3 DEF Expire
<1> QED
  BY <1>1, <1>2, <1>3 DEF Next

THEOREM StoreOneChange == Spec => OneChangeAtATime
<1>1. Init => Promised!Init
  BY DEF Init, Promised!Init, Empty
<1>2. IInv /\ [Next]_vars => [Promised!Next]_file
  BY StepPromise
<1> QED
  BY <1>1, <1>2, StoreInvariant, PTL DEF OneChangeAtATime, Spec, Promised!Spec

-----------------------------------------------------------------------------
(* What follows for the file from its changing by whole operations.        *)

Kept == file \in Content /\ Promised!UsesLimited /\ Promised!RevokedHidden

LEMMA OperationKeeps ==
    ASSUME Kept, [Promised!Next]_file
    PROVE  Kept'
<1> USE StoreAssumption DEF Kept, Promised!UsesLimited, Promised!RevokedHidden
<1>1. ASSUME NEW o \in Ops, Promised!Do(o)
      PROVE  Kept'
  <2>1. file' \in Content
    BY <1>1, ApplyTyped DEF Promised!Do
  <2>2. Promised!UsesLimited'
    <3>1. CASE o.kind = "redeem"
      <4>1. o.inv \in Invs /\ file'.uses = [file.uses EXCEPT ![o.inv] = @ + 1]
        BY <1>1, <3>1 DEF Promised!Do, Promised!Apply, Content, Ops, Promised!Ops
      <4>2. MaxUses[o.inv] > 0 => file.uses[o.inv] < MaxUses[o.inv]
        BY <1>1, <3>1 DEF Promised!Do, Promised!Changes, Promised!Usable
      <4>3. file.uses \in [Invs -> Nat]
        BY DEF Content
      <4> QED
        BY <4>1, <4>2, <4>3
    <3>2. CASE o.kind # "redeem"
      <4>1. file'.uses = file.uses
        BY <1>1, <3>2 DEF Promised!Do, Promised!Apply, Promised!Revoke,
                          Content, Ops, Promised!Ops
      <4> QED
        BY <4>1
    <3> QED
      BY <3>1, <3>2
  <2>3. Promised!RevokedHidden'
    BY <1>1 DEF Promised!Do, Promised!Changes, Promised!Apply,
                Promised!Revoke, Content, Ops, Promised!Ops
  <2> QED
    BY <2>1, <2>2, <2>3
<1> QED
  BY <1>1 DEF Promised!Next, Ops

LEMMA StoreKept == Spec => []Kept
<1>1. Init => Kept
  BY EmptyTyped, StoreAssumption
     DEF Init, Kept, Empty, Promised!Empty, Promised!UsesLimited, Promised!RevokedHidden
<1>2. Kept /\ [Promised!Next]_file => Kept'
  BY OperationKeeps
<1>3. IInv /\ [Next]_vars => [Promised!Next]_file
  BY StepPromise
<1> QED
  BY <1>1, <1>2, <1>3, StoreInvariant, PTL DEF Spec

(* model.go:86: no invitation admits more people than it was made for,     *)
(* however many processes redeem it at once.                               *)
THEOREM StoreUsesLimited == Spec => []Promised!UsesLimited
BY StoreKept, PTL DEF Kept

(* store.go:525: sessions are listed of active members only; no connector  *)
(* that goes on reporting brings those of a revoked one back.              *)
THEOREM StoreRevokedHidden == Spec => []Promised!RevokedHidden
BY StoreKept, PTL DEF Kept

(* store.go:424 and 94: through every interleaving, crash, failed write    *)
(* and stale copy, no process undoes what another has done.                *)
THEOREM StoreNothingForgotten == Spec => Promised!NothingForgotten
<1> DEFINE Remembered ==
               /\ \A m \in People : /\ file.status[m] # "none" => file'.status[m] # "none"
                                    /\ file.status[m] = "revoked" => file'.status[m] = "revoked"
               /\ file.created \subseteq file'.created /\ file.settled \subseteq file'.settled
               /\ \A i \in Invs : file.uses[i] <= file'.uses[i]
<1>1. ASSUME Kept, NEW o \in Ops, Promised!Do(o) PROVE Remembered
  <2> USE <1>1 DEF Kept, Content
  <2>1. \A m \in People : /\ file.status[m] # "none" => file'.status[m] # "none"
                          /\ file.status[m] = "revoked" => file'.status[m] = "revoked"
    BY DEF Promised!Do, Promised!Changes, Promised!Apply, Promised!Revoke, Ops, Promised!Ops
  <2>2. file.created \subseteq file'.created /\ file.settled \subseteq file'.settled
    BY DEF Promised!Do, Promised!Apply, Promised!Revoke, Ops, Promised!Ops
  <2>3. \A i \in Invs : file.uses[i] <= file'.uses[i]
    BY DEF Promised!Do, Promised!Apply, Promised!Revoke, Ops, Promised!Ops
  <2> QED
    BY <2>1, <2>2, <2>3
<1>2. Kept /\ [Promised!Next]_file => [Remembered]_file
  BY <1>1 DEF Promised!Next, Ops
<1>3. IInv /\ [Next]_vars => [Promised!Next]_file
  BY StepPromise
<1> QED
  BY <1>2, <1>3, StoreInvariant, StoreKept, PTL DEF Spec, Promised!NothingForgotten
=============================================================================
