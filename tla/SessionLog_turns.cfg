CONSTANTS
  Turns = {t1, t2}
  Hosts = {h1, h2, h3}
  Readers = {}
  Tears = {"part"}
  MaxEvents = 5
  MaxFaults = 3
  None = None
SPECIFICATION MCSpec
INVARIANTS
  TypeOK
  AcknowledgedReadable
  LiveIsDurable
  LiveKnowsAcknowledged
