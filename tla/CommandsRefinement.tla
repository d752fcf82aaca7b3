------------------------- MODULE CommandsRefinement -------------------------
(* The transactions of Commands implement the atomic register of Lifecycle. *)
EXTENDS CommandsProperties, Sequences

\* What an event says, as the register records it.
Entry(e) ==
  [type |-> e.type, actorId |-> e.actorId, to |-> e.to, ref |-> e.ref,
   visibility |-> e.visibility]

\* The events of a trail in the order of their seq.
InOrder(trail) ==
  [i \in 1 .. Cardinality(trail) |-> Entry(CHOOSE e \in trail : e.seq = i)]

\* A trail has an event for every seq from 1 to its length, and no other: the
\* strengthening that makes the mapping below a step of the register per commit.
IsDense(trail) ==
  /\ IsFiniteSet(trail) /\ trail # {}
  /\ \A e \in trail : e.seq \in 1 .. Cardinality(trail)
  /\ \A i \in 1 .. Cardinality(trail) : \E e \in trail : e.seq = i

LifecycleInv == RowsInv /\ \A g \in Existing : IsDense(EventsOf(g))

\* The refinement mapping: the committed row and its committed trail.
CaseOf(row, trail) ==
  [submittedById |-> row.submittedById,
   isAnonymous |-> row.isAnonymous,
   track |-> row.track,
   appealOfId |-> row.appealOfId,
   status |-> row.status,
   assignedToId |-> row.assignedToId,
   history |-> InOrder(trail)]

CaseRegister ==
  [g \in 1 .. Cardinality(Existing) |-> CaseOf(grievances[g], EventsOf(g))]

Abstract == INSTANCE Lifecycle WITH cases <- CaseRegister

\* Every committed transaction is one step of the register, whatever ran beside it,
\* and every other step of a transaction is invisible: the commands are atomic and
\* each acts on the current status of its case, not on the one it read.
ImplementsLifecycle == Abstract!Spec

=============================================================================
