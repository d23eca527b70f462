\* The agent runs the loop, and POST /activate can start a second one in the service.
CONSTANTS
  Loop = {agent, service}
  Local = {service}
  Boot = {agent}
  Request = {r1}
  Nobody = Nobody
  Poll = 1
  MaxBackoff = 3
  Gap = 2
  Keep = 2
  Day = 2
  Horizon = 3
  MaxFailures = 2
  MaxDelay = 1
  Timed = agent
  MaxFaults = 1
SPECIFICATION Spec
INVARIANTS TypeOK SamplesSpaced SamplesBounded DayCovered
PROPERTIES PausedOnlyFinishes BackoffSpacesRebalances
