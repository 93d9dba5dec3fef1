---------------------------- MODULE Reservations ----------------------------
(***************************************************************************)
(* Sums of memory reservations.  The server keeps running totals (doubles  *)
(* of GiB); the specifications count in whole units of memory and need the *)
(* sum of a reservation over a set of workers.  The sum is the number of   *)
(* memory units the workers of the set occupy, so that its laws follow     *)
(* from the laws of Cardinality and can be proved.                         *)
(***************************************************************************)
EXTENDS Integers, FiniteSets

\* The units 1..amount[s] of every s in S.  No amount exceeds max.
Units(amount, S, max) == {u \in S \X (1..max) : u[2] <= amount[u[1]]}

\* The sum of amount[s] over S.
Total(amount, S, max) == Cardinality(Units(amount, S, max))

=============================================================================
