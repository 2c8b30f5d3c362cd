SPECIFICATION Spec
CONSTANTS
    n1 = n1
    n2 = n2
    web = web
    Nodes <- NodesMC
    Services <- ServicesMC
    Order <- OrderMC
    Gateways <- GatewaysMC
    TaskIds <- TaskIdsMC
    Scenarios <- StopFirstMC
INVARIANTS OneSlotAtATime
