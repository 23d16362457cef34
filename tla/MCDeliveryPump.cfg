SPECIFICATION FairDelivery
CONSTANTS
    EventType = {"heartbeat", "action_resolved", "terminal"}
    Capacity = 2
    MaxRetries = 1
    MaxOffers = 4
INVARIANTS DeliveryTypeOK NeverStranded InOrder StopDrainsAll
PROPERTIES LossPolicy AcceptedSettles
CHECK_DEADLOCK FALSE
