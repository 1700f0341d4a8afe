----------------------------- MODULE ActorLives -----------------------------
(***************************************************************************)
(* What the stage promises about the lives of its actors, with no mailbox, *)
(* directory, supervisor or stop sequence in sight: an actor is created    *)
(* once, under a parent that it keeps, and that is alive unless the caller *)
(* has named another one; it ends once, for good, and not before the       *)
(* children that it has to stop are closed.                                *)
(***************************************************************************)
CONSTANTS Actors, NoActor, PrivateRoot, PublicRoot,
          Named    \* the parents that callers may name for each actor

VARIABLES created,
          parent,
          stopping,    \* those that take no account of new children any more
          closed,      \* those that handle nothing any more
          late,        \* those created under a parent that was stopping
          finished     \* those whose life has ended

vars == <<created, parent, stopping, closed, late, finished>>

Alive == created \ finished

Init ==
    /\ created = {PrivateRoot, PublicRoot}
    /\ parent = [a \in Actors |-> IF a = PublicRoot THEN PrivateRoot ELSE NoActor]
    /\ stopping = {} /\ closed = {} /\ late = {} /\ finished = {}

(* Without a parent only once there is no PublicRoot to be the default; that *)
(* all actors have a parent, as Actor.ts:136 says, is not so then.           *)
Create(a) ==
    /\ a \notin created
    /\ created' = created \cup {a}
    /\ \E p \in Alive \cup {NoActor} \cup (Named[a] \cap created) :
          /\ p = NoActor => PublicRoot \in finished
          /\ parent' = [parent EXCEPT ![a] = p]
          /\ late' = IF p \in stopping THEN late \cup {a} ELSE late
    /\ UNCHANGED <<stopping, closed, finished>>

BeginToStop(a) ==
    /\ a \in Alive \ stopping
    /\ stopping' = stopping \cup {a}
    /\ UNCHANGED <<created, parent, closed, late, finished>>

(* A timeout closes the actor whatever its children do. *)
TimeOut(a) ==
    /\ a \in Alive \ closed
    /\ stopping' = stopping \cup {a}
    /\ closed' = closed \cup {a}
    /\ UNCHANGED <<created, parent, late, finished>>

End(a) ==
    /\ a \in Alive
    /\ \A b \in Alive : parent[b] = a => b \in closed \cup late
    /\ stopping' = stopping \cup {a}
    /\ closed' = closed \cup {a}
    /\ finished' = finished \cup {a}
    /\ UNCHANGED <<created, parent, late>>

Next == \E a \in Actors : Create(a) \/ BeginToStop(a) \/ TimeOut(a) \/ End(a)

Spec == Init /\ [][Next]_vars
=============================================================================
