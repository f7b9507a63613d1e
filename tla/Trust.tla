------------------------------- MODULE Trust -------------------------------
(***************************************************************************)
(* The levels of trust/trust.go and how they are resolved on the machine   *)
(* that receives a message.                                                *)
(***************************************************************************)
EXTENDS Integers

Levels == {"hold", "source", "collaborator", "peer"}
Default == "collaborator"
Rank == [hold |-> -1, source |-> 0, collaborator |-> 1, peer |-> 2]

(* What a person or a workspace may have written: a level, nothing, or a   *)
(* word that is none.                                                      *)
Opinions == Levels \cup {"", "unknown"}

(* The most trusting of them.                                              *)
ResolveWidest(opinions) ==
    LET given == opinions \ {""}
    IN  IF ~ (given \subseteq Levels) THEN "source"
        ELSE IF given = {} THEN Default
        ELSE CHOOSE l \in given : \A k \in given : Rank[l] >= Rank[k]

(* Resolve walks a list, and neither the order nor a repetition matters to *)
(* it: an unknown word ends the walk wherever it stands.                   *)
Resolve(opinions) ==
    LET given == opinions \ {""}
    IN  IF ~ (given \subseteq Levels) THEN "source"
        ELSE IF given = {} THEN Default
        ELSE CHOOSE l \in given : \A k \in given : Rank[l] <= Rank[k]
=============================================================================
