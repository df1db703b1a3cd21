SPECIFICATION StreamSpec
CONSTANTS
  Streams = {s1, s2}
  Slow = {s2}
  Capacity = 2
  MaxSample = 4
  InCapacity = 2
  OutCapacity = 2
  MaxTyped = 2
PROPERTIES StreamsAdvance NobodyHeldUp SubscribersLeave SessionsEnd
