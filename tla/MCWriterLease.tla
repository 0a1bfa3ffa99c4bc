--------------------------- MODULE MCWriterLease ---------------------------
\* Instance of WriterLease for TLC; the constants are in the configuration.
EXTENDS WriterLease, TLC

\* Leases and instances are interchangeable in every definition and property.
Symmetry == {f @@ g : f \in Permutations(Leases), g \in Permutations(Instances)}
=============================================================================
