\* A page says "Live updates connected" and never shows the last change.
SPECIFICATION CockpitFairSpec
CONSTANT LastChange = 2
PROPERTY LiveCatchesUp
\* A page that has been left stops.
CHECK_DEADLOCK FALSE
