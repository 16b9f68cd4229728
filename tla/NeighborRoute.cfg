CONSTANTS
    MaxSilence = 24
    MaxMissed = 3
SPECIFICATION Spec
PROPERTIES BeaconAddsRoute
