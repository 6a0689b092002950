SPECIFICATION FairSpec
CONSTANTS
  Clients = {c1, c2, c3}
  Limit = 2
  Seconds = 2
  MaxCount = 5
PROPERTIES AlwaysUsableAgain
