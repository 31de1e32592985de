CONSTANTS
  Turns = {t1}
  Hosts = {}
  Readers = {}
  Tears = {"line"}
  MaxEvents = 3
  MaxFaults = 1
  None = None
SPECIFICATION Spec
INVARIANT AcknowledgedReadable
