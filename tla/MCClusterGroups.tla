------------------------- MODULE MCClusterGroups -------------------------
(* Model-checking instance of ClusterGroups: group and cluster ids are     *)
(* model values given in each cfg.                                          *)
EXTENDS ClusterGroups

NoFaults == {}

MagnumFaults == {"magnum_error"}

=============================================================================
