--------------------------- MODULE MCReservation ----------------------------
(***************************************************************************)
(* Reservation for TLC: two reservations of one user.                      *)
(***************************************************************************)
EXTENDS Reservation, TLC

MCUserOf == [r \in Reservations |-> CHOOSE u \in Users : TRUE]

\* In holds, a failure is followed only with the client the code is written for
\* and where there is one unit for two reservations.
BoundHolds == faults > 0 => client = "typed" /\ \A l \in Lines : capacity[l] <= 1

Symmetry == Permutations(Reservations) \cup Permutations(Handlers)
              \cup Permutations(Lines)
=============================================================================
