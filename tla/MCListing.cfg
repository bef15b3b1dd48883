\* A listing changed on another screen between two visits.
SPECIFICATION Spec
CONSTANTS
  Runs <- MCRuns
  FirstPublic <- MCFirstPublic
  Units = 1
  Attempts = 1
  MaxIncomes = 0
  MaxToggles = 1
PROPERTY UnchangedFormKeepsListing
