--------------------------- MODULE MCLoadBalancer ---------------------------
(* Instances of LoadBalancer for TLC.                                       *)
EXTENDS LoadBalancer

\* A source needs a device and then a profile of it, two changes of the
\* configuration; the worst case is one that adds a source with each change.
FitsNext(c, d) == d <= c + 1
=============================================================================
