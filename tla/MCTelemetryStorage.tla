------------------------- MODULE MCTelemetryStorage -------------------------
(* Instances of TelemetryStorage for TLC. *)
EXTENDS TelemetryStorage, TLC

\* Threads, names and values are interchangeable; dates are not.
DataSymmetry == Permutations(Threads) \union Permutations(Names) \union Permutations(Values)

=============================================================================
