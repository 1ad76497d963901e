\* Batches of up to three rows, sunk up to three times, with Avro errors.
SPECIFICATION Spec
CONSTANTS
  MaxRows = 3
  MaxAttempts = 3
  AvroFailures = TRUE
INVARIANT InOrderPerAttempt BatchDelivered TypeOK
CHECK_DEADLOCK FALSE
