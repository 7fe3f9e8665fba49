\* two cameras, an inbox of two events
SPECIFICATION Spec
CONSTANTS
  Channels = {1, 2}
  Keep = 2
  MaxAlerts = 3
  InsertsFail = TRUE
  Filters <- MCFilters
  Sites = {"reolink", "frigate"}
  Gap = 4
  Spacing = {2}
  MaxHappens = 3
INVARIANTS InboxIsDatabase ThumbnailsMatch NothingIsMissed
