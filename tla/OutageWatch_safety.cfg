\* One node for long enough to go down twice, with a restart and a failing write.
CONSTANTS
  Last = 1
  Grace = 1
  FLAP_WINDOW = 4
  FLAP_GRACE = 4
  MaxTime = 9
  MaxPeriod = 2
  MaxFaults = 1
SPECIFICATION Spec
INVARIANT TypeOK
PROPERTIES AnnouncementsAlternate GraceRespected FlappingIsQuiet StepsOnce
