CONSTANTS
  Turns = {t1}
  Hosts = {}
  Readers = {r1}
  Tears = {}
  MaxEvents = 3
  MaxFaults = 0
  None = None
SPECIFICATION Spec
INVARIANT AcknowledgedReadable
