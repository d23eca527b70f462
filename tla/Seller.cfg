\* Two jobs, one of which does not carry our quote.
CONSTANTS
  Job = {j1, j2}
  Signed = {j1}
  Timeouts = TRUE
  MaxNotifies = 2
  MaxFaults = 1
SPECIFICATION FairSpec
INVARIANTS TypeOK SoleDelivery ClaimedWhileAwaited SuccessIsFinal OnlySignedIsWorked DeliveredAsStored
PROPERTIES BusyEnds
\* The system stops when the notifications have been used up and the jobs are done.
CHECK_DEADLOCK FALSE
