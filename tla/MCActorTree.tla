---------------------------- MODULE MCActorTree ----------------------------
(* A parent that supervises the child it creates, and a second actor of the  *)
(* type of the child, which a client may create at any time.                 *)
EXTENDS ActorTree

CONSTANTS parent1, child, second

MCActors == {PrivateRoot, PublicRoot, parent1, child, second}
MCTypes == {"privateRoot", "publicRoot", "parent", "child"}
MCType == PrivateRoot :> "privateRoot" @@ PublicRoot :> "publicRoot"
          @@ parent1 :> "parent" @@ child :> "child" @@ second :> "child"

(* The roots are created by the stage. *)
MCCreator == [a \in MCActors |-> IF a = child THEN parent1 ELSE NoActor]

(* The caller that creates the second actor may name the parent, at any time. *)
MCNamed == [a \in MCActors |-> IF a = second THEN {parent1} ELSE {}]

MCSupervisorName == [a \in MCActors |->
    CASE a = child -> "parent"
      [] a \in {PrivateRoot, PublicRoot} -> "privateRoot"
      [] OTHER -> "publicRoot"]

(* Two buckets: close() finds the child before the parent, and the second    *)
(* actor after it.                                                           *)
MCHashCode == [a \in MCActors |-> IF a = child THEN 2 ELSE 3]

(* A child that may fail, and may be stopped with a timeout. *)
MCFallible == {child}
MCCalls == {<<child, TimedStop>>}

(* The premise of a theorem about FailuresAreHeard holds here. *)
ASSUME SupervisorsExist

(* Nothing fails and there is no timeout: clients stop parent and child. *)
MCTwoStops == {<<parent1, Request>>, <<parent1, ClientStop>>,
               <<child, ClientStop>>}
=============================================================================
