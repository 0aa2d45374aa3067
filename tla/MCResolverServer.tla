--------------------------- MODULE MCResolverServer --------------------------
EXTENDS ResolverServer, TLC

ClientSymmetry == Permutations(Clients)

=============================================================================
