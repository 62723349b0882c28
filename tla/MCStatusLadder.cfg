CONSTANTS
  out1 = out1
  in1 = in1
  p1 = p1
  p2 = p2
  Outbound <- MCOutbound
  Inbound <- MCInbound
  Phones <- MCPhones
  PhoneOf <- MCPhoneOf
  SeedPhones <- MCSeedPhones
  ReadAuto = TRUE
  MaxAnnounced = 4
  MaxDisruptions = 3

SPECIFICATION FairSpec

INVARIANT TimerIsNextRung
INVARIANT ConsumerToldInOrder
PROPERTY ForwardOnly
PROPERTY ReachesDelivered
