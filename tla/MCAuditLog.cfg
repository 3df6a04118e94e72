SPECIFICATION Spec
CONSTANTS
    e1 = e1
    e2 = e2
    Payload <- MCPayload
    Timestamp <- MCTimestamp
    MaxEntries = 5
INVARIANTS TypeOK ChainIntact AckedDurable AnchorsSound AnchorsLeaveNoGap TamperDetected
PROPERTIES LedgerImplemented
