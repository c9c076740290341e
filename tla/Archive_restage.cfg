\* Build a is staged again while another run boots it.
SPECIFICATION Spec
CONSTANTS
  s1 = s1
  s2 = s2
  s3 = s3
  k = k
  a = a
  b = b
  Jobs = {s1, s2, k}
  Ids = {a}
  IdOf <- IdsRestaged
  Skippers = {k}
  Promoters = {s1}
  Retries <- OneRetry
  None = None
  Torn = Torn
INVARIANT BootsOneBuild
CHECK_DEADLOCK FALSE
