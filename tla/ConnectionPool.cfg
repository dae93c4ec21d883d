\* Two hosts, so that a reconcile can fail half way and add one host while it
\* drops another; three dials, so that a dropped host is dialed
\* again, and a host listed twice can be dropped after it was dialed twice.
CONSTANTS
  Keys = {k1, k2}
  Hosts = {h1, h2}
  None = None
  MaxListed = 2
  MaxDials = 3
  MaxCloses = 1
SPECIFICATION Spec
INVARIANTS NoLeak PooledIsLive Converges Announced
SYMMETRY KeysAndHostsAlike
