----------------------- MODULE MCClusterOperations -----------------------
(* Model-checking instance of ClusterOperations: cluster ids and group     *)
(* names are model values given in each cfg.                               *)
EXTENDS ClusterOperations

NoFaults == {}

MagnumFaults == {"magnum_error"}

=============================================================================
