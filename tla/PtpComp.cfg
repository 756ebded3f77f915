SPECIFICATION Spec
CONSTANTS
  W = 65536
  Freqs = {4, 10, 16, 25}
  Periods = {1, 2, 3, 4, 5, 8}
  Comps = {0,1,2,3,4,5,6,7,8,9,10,11,12,13,14,15,16,17,18,19,20,21,22,23,24}
INVARIANT BestCompensation
CHECK_DEADLOCK FALSE
