\* Two replicas, so that a deposed leader and its successor are at work at once.
\* A leaf made at time 0 is looked at again at time 4, when the CA found in the
\* secret has expired; a second is left to a busy controller.  Nothing depends on
\* the time before the CA secret is there.
CONSTANTS
  Replicas = {r1, r2}
  Secrets = {s1}
  Labels = {"data-plane-user", "control-plane"}
  FirstLabel = "data-plane-user"
  None = None
  caExpirationInterval = 8
  expirationInterval = 6
  rotationThreshold = 3
  ResyncPeriod = 2
  InstalledCAs = {None, 4}
  MaxTime = 6
  MaxInstall = 0
  MaxLate = 1
  MaxEvents = 1
SPECIFICATION MCSpec
INVARIANTS RenewedInTime CANeverExpires CaughtUpIsCurrent
PROPERTIES ValidCAIsKept
SYMMETRY ReplicasAlike
