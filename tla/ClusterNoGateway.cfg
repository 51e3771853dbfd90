SPECIFICATION Spec
CONSTANTS
    Wishes <- WithAndWithoutGateway
    Components <- ConnectivityOnly
    FailingSteps <- LabelOnly
    MaxEdits = 1
    MaxFaults = 1
INVARIANT
    GatewaySettled
