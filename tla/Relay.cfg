\* The local application writes while connections break twice; the VM writes,
\* enough for an ACK, the relay answers, repeats itself and sends frames the
\* decoder refuses.
SPECIFICATION FairSpec
CONSTANTS
    MaxFrame = 1
    MaxReconnects = 2
    MaxOut = 2
    MaxIn = 3
    MaxFlight = 4
    OddFrames = {"unknown", "oversized"}
INVARIANTS OutboundInOrder UndeliveredIsBuffered AckedWasDelivered
PROPERTIES RecordedReachesVM CloseEndsSession PipeSpec
CHECK_DEADLOCK FALSE
