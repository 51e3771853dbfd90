---------------------------- MODULE GlobalnetInfo ----------------------------
(***************************************************************************)
(* The ConfigMap submariner-globalnet-info, and the configuration of a     *)
(* broker it is made from.  NoBlock is the empty CIDR string and 0 the     *)
(* unset size, in both.                                                    *)
(***************************************************************************)
EXTENDS GlobalCIDR

\* The globalnet fields of spec.brokerConfig.
BrokerConfig == [enabled : BOOLEAN, range : Block, size : Nat]

\* isValidGlobalnetConfig
IsValidGlobalnetConfig(config) ==
    config.enabled => GetValidClusterSize(config.range, config.size) # 0

\* The ConfigMap of a broker, with the CIDRs recorded for its clusters.
ConfigMapData(config, recorded) ==
    [exists   |-> TRUE,
     enabled  |-> config.enabled,
     range    |-> IF config.enabled THEN config.range ELSE NoBlock,
     size     |-> IF config.enabled THEN config.size ELSE 0,
     clusters |-> recorded]

NoConfigMapData(recorded) ==
    [exists |-> FALSE, enabled |-> FALSE, range |-> NoBlock, size |-> 0,
     clusters |-> recorded]

\* Faulty variant: no ConfigMap may exist.
ValidGlobalNetworksOnce(map) == ~ map.exists

\* ValidateExistingGlobalNetworks: no ConfigMap yet, or one with a range.  The
\* range of a ConfigMap written with globalnet disabled is the empty string,
\* which does not parse; 0.0.0.0 is "unspecified".
ValidGlobalNetworks(map) == map.exists => map.range.ip # 0
=============================================================================
