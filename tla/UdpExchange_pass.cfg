CONSTANTS
  Tries = 2
  Quota = 3
  MaxFlight = 2
SPECIFICATION Spec
INVARIANTS TypeOK InStep QuotaSpent
PROPERTIES AnswerComes
\* A client whose datagram or answer is lost waits for ever in Labs 1.4, 1.5.
CHECK_DEADLOCK FALSE
