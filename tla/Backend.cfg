\* Five requests at most; one viewer's app; quotas of three bytes and two entries.
SPECIFICATION MCSpec
CONSTANTS
  ann = ann
  bob = bob
  cat = cat
  bot = bot
  pet = pet
  r0 = r0
  r1 = r1
  r2 = r2
  r3 = r3
  r4 = r4
  coll = coll
  Nothing = Nothing
  Users = {ann, bob, cat}
  Requests = {r0, r1, r2, r3, r4}
  Jobs <- MCJobs
  Starts <- MCStarts
  Packages <- MCPackages
  MaxBytes = 5
  Word = 8
  Colls = {coll}
  Keys = {1, 2}
  Sizes = {1, 2}
  AppBytes = 3
  AppEntries = 2
  MyBytes = 2
  MyEntries = 2
  MaxValueBytes = 2
  PageSize = 1
  FirstRows <- MCFirstRows
  Viewers = {bob}
  FirstRooms <- MCFirstRooms
  FirstFriends <- MCFirstFriends
  FirstAgents <- MCFirstAgents
  MaxSubKeys = 1
  FirstAccounts <- MCFirstAccounts
INVARIANTS TypeOK StoredFits OneKey PublishedAsReviewed OneRowPerSharedKey QuotaHolds ListingIsComplete
  OneRelation DecidedOnce OneOwner OneDm SessionIsWhole AppFollows
  CredentialOnce HandedToItsUser KeyLimit DeadKeysStayDead
  PasswordKept EndedTokensStayOut
PROPERTIES ReplacesWhatWasRead
CHECK_DEADLOCK FALSE
