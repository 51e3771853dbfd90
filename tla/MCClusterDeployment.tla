------------------------ MODULE MCClusterDeployment ------------------------
(***************************************************************************)
(* Instances of ClusterDeployment.                                         *)
(***************************************************************************)
EXTENDS ClusterDeployment

Config(valid, gateway, images) == [valid |-> valid, gateway |-> gateway, images |-> images]

Gateway == Config(TRUE, TRUE, "known")
NoGateway == Config(TRUE, FALSE, "known")
BadClusterID == Config(FALSE, TRUE, "known")
NoSuchImage == Config(TRUE, FALSE, "unknown")
ImageWithoutValue == Config(TRUE, FALSE, "bare")

MCWishes == {Gateway, BadClusterID, NoSuchImage, ImageWithoutValue}
WithAndWithoutGateway == {Gateway, NoGateway}

AnyComponents == {"connectivity", "discovery", "neither"}
ConnectivityOnly == {"connectivity"}

LabelOnly == {"label"}

\* A failure of "info", "operator" or "account" ends a reconcile as one of "token"
\* does: before it has changed a CR.
Failing == {"label", "token", "submariner", "discovery", "status"}
=============================================================================
