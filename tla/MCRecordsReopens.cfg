SPECIFICATION RecordsSpec
CONSTANTS
  p1 = p1
  p2 = p2
  p3 = p3
  slot1 = slot1
  slot2 = slot2
  editor1 = editor1
  editor2 = editor2
  tag1 = tag1
  tag2 = tag2
  request1 = request1
  request2 = request2
  browser1 = browser1
  browser2 = browser2
  People <- AllPeople
  AccountSlots = {}
  Roles <- SomeRoles
  Admin = "ADMIN"
  DefaultRole = "READ_ONLY"
  Unsent = Unsent
  Founders <- FirstPeople
  MaxAccountWrites = 0
  Conditions = {"psp-down"}
  Statuses <- AllStatuses
  Editors = {}
  MaxLines = 1
  Slugs <- TagNames
  Starters <- Starting
  Taggers = {}
  Browsers <- Operators
  MaxEdits = 3
  Tables = {"cases"}
  loader1 = loader1
  loader2 = loader2
  key1 = key1
  key2 = key2
  Keys <- PaymentKeys
  Uploaders <- Loaders
  MaxUploads = 0
PROPERTIES NeverReopened
CHECK_DEADLOCK FALSE
