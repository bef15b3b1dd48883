\* Two clicks, one payment to the supporter, one change of the listing elsewhere.
SPECIFICATION FairSpec
CONSTANTS
  Runs <- MCRuns
  FirstPublic <- MCFirstPublic
  Units = 1
  Attempts = 2
  MaxIncomes = 1
  MaxToggles = 1
INVARIANTS
  ReadableUnlessOvertaken
  DoneMeansRecorded
  
PROPERTY EveryWaitEnds
