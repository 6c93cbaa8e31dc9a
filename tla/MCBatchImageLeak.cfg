\* Once the job has ended and the queue is empty nothing is left to do.
CHECK_DEADLOCK FALSE
SPECIFICATION FairSpec
CONSTANTS
  Amount = 2
  Opening = 2
  Others = 2
  Costs = {1, 3}
  Workers = {w1}
  NoOne = NoOne
  Ghost = Ghost
  Cancels = {c1}
  MaxRetries = 2
  MaxFaults = 0
PROPERTY
  HoldNeverLeaks
