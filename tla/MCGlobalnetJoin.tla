--------------------------- MODULE MCGlobalnetJoin ---------------------------
(***************************************************************************)
(* Instances of GlobalnetJoin: a space of 32 addresses, a globalnet range  *)
(* of 16 of them, 4 addresses for a cluster that does not ask otherwise.   *)
(***************************************************************************)
EXTENDS GlobalnetJoin

CONSTANTS c1, c2, c3

MCSpace == 32

MCSizes == {1, 2, 4, 8, 16, 32}

TwoClusters == {c1, c2}
ThreeClusters == {c1, c2, c3}

MCRange == [ip |-> 16, size |-> 16]

\* spec.brokerConfig of the broker.
Enabled == [enabled |-> TRUE, range |-> MCRange, size |-> 4]
Disabled == [enabled |-> FALSE, range |-> MCRange, size |-> 4]
TooSmall == [enabled |-> TRUE, range |-> [ip |-> 16, size |-> 4], size |-> 4]

\* A default size that is rounded up to half of the range.
HalfEach == [enabled |-> TRUE, range |-> MCRange, size |-> 5]

OneConfig == {Enabled}
ConfigsOnOff == {Enabled, HalfEach, Disabled, TooSmall}

\* Broker infos.  The fields of the globalnet range and size are optional.
Globalnet == {"connectivity", "globalnet"}

Info(components, range, size) ==
    [components |-> components, range |-> range, size |-> size]

\* A size, no wish at all, no globalnet, and more than the range holds.
WithSmallSize == Info(Globalnet, NoBlock, 2)
Plain == Info(Globalnet, NoBlock, 0)
DiscoveryOnly == Info({"service-discovery"}, NoBlock, 0)
TooLarge == Info(Globalnet, NoBlock, 9)

\* A CIDR of the cluster's own: the upper half of the range.
RangeOnly == Info(Globalnet, [ip |-> 24, size |-> 8], 0)

\* What the broker's own deployment writes; and the same with the components
\* a user would want.
AsDeployed == Info({}, MCRange, 4)
AsDeployedGlobalnet == Info(Globalnet, MCRange, 4)

PlainInfos == {Plain}
SizeInfos == {Plain, WithSmallSize}
AllInfos ==
    {Plain, WithSmallSize, TooLarge, DiscoveryOnly, RangeOnly, AsDeployedGlobalnet}
DeployedInfos == {AsDeployed}
=============================================================================
