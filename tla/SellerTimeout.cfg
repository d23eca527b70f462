\* One job, and a delivery that reaches its time limit while the submit runs.
CONSTANTS
  Job = {j1}
  Signed = {j1}
  Timeouts = TRUE
  MaxNotifies = 2
  MaxFaults = 0
SPECIFICATION Spec
INVARIANTS ServedAsSubmitted
\* The system stops when the notifications have been used up and the jobs are done.
CHECK_DEADLOCK FALSE
