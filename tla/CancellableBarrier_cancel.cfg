\* A team of up to three threads, one of which may be about to wait when another cancels.
CONSTANT Worker = {b1, b2, b3}
SPECIFICATION BarFairSpec
PROPERTY CancelReleases
