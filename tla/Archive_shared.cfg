\* Two attempts stage build a, one run stages build b, another boots b.
SPECIFICATION Spec
CONSTANTS
  s1 = s1
  s2 = s2
  s3 = s3
  k = k
  a = a
  b = b
  Jobs = {s1, s2, s3, k}
  Ids = {a, b}
  IdOf <- IdsApart
  Skippers = {k}
  Promoters = {s1, s2, s3, k}
  Retries <- OneRetry
  None = None
  Torn = Torn
INVARIANTS TypeOK BootsOneBuild BootsOwnBuild LabelIsVerified
CHECK_DEADLOCK FALSE
