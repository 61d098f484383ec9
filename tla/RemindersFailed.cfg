\* An SMTP session that fails after the server accepted the message: QUIT is
\* answered by another code than 221 and smtplib raises SMTPResponseException.
SPECIFICATION Spec
CONSTANTS
  Offsets = {0}
  Starts = {1}
  Scanners = {s1}
  Workers = {w1}
  Grace = 1
  Lease = 1
  UnknownAfter = 0
  Retention = 1
  BatchLimit = 1
  Skew = 0
  MaxTime = 3
  MaxCycle = 1
  MaxClaims = 3
  MaxEdits = 2
INVARIANTS
  FailedIsNotMailed
