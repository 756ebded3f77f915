------------------------------ MODULE MCMx6xTx ------------------------------
(* Mx6xTx for TLC: mbufs are interchangeable.                              *)
EXTENDS Mx6xTx, TLC

MbufSymmetry == Permutations(Mbufs)

\* Nothing is said of what follows a stop that gave up on the NIC or left it
\* descriptors of freed packets: hung and torn are never reset, so no state
\* the properties speak of lies beyond one that has them set.
CleanStops == ~hung /\ ~torn
=============================================================================
