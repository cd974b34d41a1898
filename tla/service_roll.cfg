\* The hours after the last window.
SPECIFICATION DaySpec
CONSTANTS
  Windows = {6, 9, 12, 15}
  Booked = 6
  ReadyHour = 6
  LatestHour = 16
  CutoffHour = 18
  Transit = 2
  Skies <- MCSkies
  Horizons = {24}
  Days = 3
  Attentive = TRUE
PROPERTY WithdrawnForCause
