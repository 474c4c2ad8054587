SPECIFICATION FairSpec
CONSTANTS
  c1 = c1
  c2 = c2
  Command <- MCCommand
  NoCommand = NoCommand
  MaxAttempts = 3
  LateWindow = TRUE
  Happenings = {"absence", "replay", "failure", "restart", "colour"}
INVARIANTS TypeOK QuietWhileOff SyncOnlyIsQuiet DebtIsTheJobs OffOwesOnlyMissed
PROPERTIES StaleRendersStop DebtsAreHeld ComesToRest
