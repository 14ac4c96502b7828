\* parallel_quick_sort of a list of one element with two cores to spare.
SPECIFICATION FairSpec
CONSTANTS
  w1 = w1
  w2 = w2
  Worker <- Workers
  Main = Main
  MaxItems = 1
  Cores = {3}
  UIntMod = 16
  Lost = Lost
PROPERTIES
  LowerArrives
\* A sorter whose threads all wait, or have ended, takes no step.
CHECK_DEADLOCK FALSE
