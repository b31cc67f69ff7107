SPECIFICATION FairSpec
CONSTANTS
  Null = Null
  Stations = {1, 2}
  Deep = {2}
  Broken = {1}
  REFRESH_INTERVAL = 4
  ERROR_RETRY = 2
  BACKFILL_INTERVAL = 2
  MAX_CONSECUTIVE_ERRORS = 2
  MAX_STATIONS_PER_RUN = 2
  MaxRun = 1
  MaxBack = 1
  MaxEvents = 2
  CanBlank = FALSE
INVARIANTS CleanStatusHasStations
PROPERTIES PoliteScrape ScrapesResume HistoryBuilds
