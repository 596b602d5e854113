\* The interval of the code; the base thread is at most ten seconds late.
CONSTANTS
  Interval = 10000
  MaxLate = 10
SPECIFICATION Spec
INVARIANT HeartbeatEveryTen
