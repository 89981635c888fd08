\* A radio thread and two threads that configure the path and change its sinks.
SPECIFICATION FairSpec
CONSTANTS
  c1 = c1
  c2 = c2
  radio_thread = radio_thread
  nobody = nobody
  Controllers = {c1, c2}
  Owners = {c1}
  Radio = radio_thread
  Nobody = nobody
  Options <- TwoOptions
  BatchSizes = {1, 13}
  FullVolume = 1
  MaxAdds = 2
INVARIANTS
  OneConfiguration
  SinksAsTheirOwnersLeftThem
  OutputFits
PROPERTIES
  StartsQuiet
  MutexReleased
