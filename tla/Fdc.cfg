SPECIFICATION FairSpec
CONSTANTS
  CountRange = 16
  LastDrive = 1
  LastTrack = 1
  Sectors = 2
  SectorSize = 2
  IntDelay = 2
  DiskDelay = 1
  WaitLimit = 1
  Setups <- Guests
INVARIANTS TypeOK SectorsInOrder RequestInDataPhase PendingIsAnnounced SeekIsReported
PROPERTIES WaitMeansDone Settles
