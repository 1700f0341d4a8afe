----------------------------- MODULE Directory -----------------------------
(***************************************************************************)
(* The directory of a stage: an array of buckets, each a Map from address  *)
(* to actor that keeps the order of insertion, and an index with one actor *)
(* for each type.  An actor stands for its address too, of which the       *)
(* directory uses the hash code.                                           *)
(***************************************************************************)
EXTENDS Integers, Sequences, FiniteSets, SequencesExt

CONSTANTS Actors,
          NoActor,       \* undefined
          Types, Type,   \* type() of an actor
          BucketCount

ASSUME DirectoryAssumption ==
    /\ NoActor \notin Actors
    /\ Type \in [Actors -> Types]
    /\ BucketCount \in Nat \ {0}

Buckets == 0 .. BucketCount - 1

Directories == [buckets : [Buckets -> Seq(Actors)],
                typeIndex : [Types -> Actors \cup {NoActor}]]

EmptyDirectory == [buckets |-> [i \in Buckets |-> <<>>],
                   typeIndex |-> [t \in Types |-> NoActor]]

(* Uuid7Address yields codes that are not negative; an Address of another    *)
(* kind may yield any integer.                                                *)
BucketFor(code) == (IF code < 0 THEN -code ELSE code) % BucketCount

(* Mutation of SetIn: the type is not indexed. *)
SetInUnindexed(d, a, code) ==
    [d EXCEPT !.buckets[BucketFor(code)] = Append(@, a)]

(* Every address is new, so that set() adds to the end of the bucket. *)
SetIn(d, a, code) ==
    [buckets |-> [d.buckets EXCEPT ![BucketFor(code)] = Append(@, a)],
     typeIndex |-> [d.typeIndex EXCEPT ![Type[a]] = a]]

GetFrom(d, a, code) ==
    IF Contains(d.buckets[BucketFor(code)], a) THEN a ELSE NoActor

(* Mutation of RemoveFrom: the entry of the type goes although the bucket    *)
(* does not hold the actor any more.                                         *)
RemoveTwiceFrom(d, a, code) ==
    [buckets |-> [d.buckets EXCEPT ![BucketFor(code)] = RemoveFirst(@, a)],
     typeIndex |-> [d.typeIndex EXCEPT ![Type[a]] = NoActor]]

(* The entry of the type goes, whichever actor of the type it stands for. *)
RemoveFrom(d, a, code) ==
    [buckets |-> [d.buckets EXCEPT ![BucketFor(code)] = RemoveFirst(@, a)],
     typeIndex |-> IF GetFrom(d, a, code) = NoActor THEN d.typeIndex
                   ELSE [d.typeIndex EXCEPT ![Type[a]] = NoActor]]

(* The entries of all buckets, each named by its bucket and its place there. *)
Entries(d) == UNION {{i} \X DOMAIN d.buckets[i] : i \in Buckets}
SizeOf(d) == Cardinality(Entries(d))

FindByType(d, t) == d.typeIndex[t]

(* Bucket by bucket. *)
AllOf(d) == FlattenSeq([i \in 1 .. BucketCount |-> d.buckets[i - 1]])
=============================================================================
