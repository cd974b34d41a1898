\* Three days, an observation in every hour, six forecasts in any order.
SPECIFICATION DaySpec
CONSTANTS
  Windows = {6, 9, 12, 15}
  Booked = 6
  ReadyHour = 6
  LatestHour = 16
  CutoffHour = 18
  Transit = 2
  Skies <- MCSkies
  Horizons = {9, 24}
  Days = 3
  Attentive = TRUE
INVARIANTS
  NoPassedMissionStands
  TodaysMissionIsRead
PROPERTY OnlyABlockedDayIsGivenUp
