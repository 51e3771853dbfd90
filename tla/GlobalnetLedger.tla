--------------------------- MODULE GlobalnetLedger ---------------------------
(***************************************************************************)
(* What the globalnet ConfigMap promises the clusters of a broker: a       *)
(* ledger of CIDR grants.  A grant is given once, overlaps with no other   *)
(* grant, and is taken back only when the whole ledger is emptied, which   *)
(* is what a deployment of the broker does to it.                          *)
(***************************************************************************)
EXTENDS GlobalCIDR

CONSTANT Clusters

VARIABLE grants     \* the CIDR of every cluster, NoBlock when it has none

Empty == [c \in Clusters |-> NoBlock]

Init == grants = Empty

Grant(c, b) ==
    /\ grants[c] = NoBlock
    /\ \A d \in Clusters \ {c} : Disjoint(grants[d], b)
    /\ grants' = [grants EXCEPT ![c] = b]

Reset == grants' = Empty

Next == Reset \/ \E c \in Clusters, b \in Block : Grant(c, b)

Spec == Init /\ [][Next]_grants

-----------------------------------------------------------------------------
TypeOK == grants \in [Clusters -> Block \cup {NoBlock}]

\* No address is granted to two clusters.
GrantsDisjoint ==
    \A c, d \in Clusters : c # d => Disjoint(grants[c], grants[d])
=============================================================================
