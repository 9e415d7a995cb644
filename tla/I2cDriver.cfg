SPECIFICATION DriverSpec
CONSTANTS
  MaxTx = 3
  MaxRx = 3
  RxBytes = {b0, b1}
  StatusValues = 256
INVARIANTS Released NeverIllegal OkMeansDone StatusTellsByte
