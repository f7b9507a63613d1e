----------------------------- MODULE Workspace -----------------------------
(***************************************************************************)
(* What the store promises the processes that share it: one workspace,     *)
(* changed by one operation at a time, each complete or not done at all.   *)
(* The operations are those of workspace/store.go that write.              *)
(*                                                                         *)
(* A workspace is a record: created, the invitations there are; uses, how  *)
(* often each was redeemed; status, what each person is; exposed, whose    *)
(* machine exposes sessions; settled, for whom a trust level was set since *)
(* they joined with the default one.  There is one machine per person.     *)
(***************************************************************************)
EXTENDS Naturals

CONSTANTS
    People,   \* who may ask to join
    Invs,     \* invitations
    MaxUses   \* how often each may be redeemed; 0 is any number of times

VARIABLE ws   \* the workspace

Statuses == {"none", "active", "revoked"}

Empty == [created |-> {}, uses |-> [i \in Invs |-> 0],
          status |-> [m \in People |-> "none"], exposed |-> {}, settled |-> {}]

Ops ==
    [kind : {"invite"}, inv : Invs]
        \cup [kind : {"redeem"}, inv : Invs, who : People]
        \cup [kind : {"revoke", "settle", "expose", "drop"}, who : People]

(* Invitation.Unusable says nothing against it; over are those whose time  *)
(* had run out when it was looked at.                                      *)
Usable(w, i, over) == i \notin over /\ (MaxUses[i] > 0 => w.uses[i] < MaxUses[i])

(* Whether an operation changes the workspace, or is refused (or, when     *)
(* somebody joins who is a member, answered) without a write.              *)
Changes(w, op, over) ==
    CASE op.kind = "invite" -> op.inv \notin w.created
      [] op.kind = "redeem" -> /\ op.inv \in w.created
                               /\ Usable(w, op.inv, over)
                               /\ w.status[op.who] = "none"
      [] op.kind \in {"revoke", "settle"} -> w.status[op.who] # "none"
      [] op.kind = "expose" -> w.status[op.who] = "active"
      [] op.kind = "drop"   -> TRUE

(* Store.Revoke, which deletes the member's sessions as well.              *)
Revoke(w, who) == [w EXCEPT !.status[who] = "revoked", !.exposed = @ \ {who}]

(* What it becomes.                                                        *)
Apply(w, op) ==
    CASE op.kind = "invite" -> [w EXCEPT !.created = @ \cup {op.inv}]
      [] op.kind = "redeem" -> [w EXCEPT !.status[op.who] = "active", !.uses[op.inv] = @ + 1]
      [] op.kind = "revoke" -> Revoke(w, op.who)
      [] op.kind = "settle" -> [w EXCEPT !.settled = @ \cup {op.who}]
      [] op.kind = "expose" -> [w EXCEPT !.exposed = @ \cup {op.who}]
      [] op.kind = "drop"   -> [w EXCEPT !.exposed = @ \ {op.who}]

Init == ws = Empty

(* A redemption that found its invitation in time counts, even if the time *)
(* runs out before it is written.                                          *)
Do(op) == Changes(ws, op, {}) /\ ws' = Apply(ws, op)

Next == \E op \in Ops : Do(op)

Spec == Init /\ [][Next]_ws
-----------------------------------------------------------------------------
(* Properties.                                                             *)

(* model.go:86: no invitation is used more often than it may be.           *)
UsesLimited == \A i \in Invs : MaxUses[i] > 0 => ws.uses[i] <= MaxUses[i]

(* store.go:525: a revoked member has no sessions, and gets none back from *)
(* a connector that goes on reporting them.                                *)
RevokedHidden == \A m \in ws.exposed : ws.status[m] = "active"

(* store.go:424 and 94: nothing that was done is forgotten.  A member      *)
(* stays one and a revoked one does not come back, with an old invitation  *)
(* or a new one; no invitation and none of its uses disappears, no trust   *)
(* level that was set falls back.                                          *)
NothingForgotten ==
    [][/\ \A m \in People : /\ ws.status[m] # "none" => ws'.status[m] # "none"
                            /\ ws.status[m] = "revoked" => ws'.status[m] = "revoked"
       /\ ws.created \subseteq ws'.created /\ ws.settled \subseteq ws'.settled
       /\ \A i \in Invs : ws.uses[i] <= ws'.uses[i]]_ws
=============================================================================
