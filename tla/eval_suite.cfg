SPECIFICATION Spec
CONSTANTS
  Fixtures <- TwoFixtures
  Prices <- SomePrices
  Unit = 4
  Messages <- SomeMessages
  Plain <- PlainMessage
  RepairRounds = 1
  TestRepairRounds = 1
  Thresholds <- SomeThresholds
  MaxSuites = 2
  MaxChanges = 1
  MaxTrouble = 2
  Selections <- SomeSelections
  Edited = {"coder", "repair", "reviewer"}
  Parameters = {"{id}", "{book_id}"}
  Verbs = {"track"}
  Skips = {"the"}
  Joins = {"and"}
  Nouns = {"members", "book", "services"}
  Plurals = {"members", "services"}
  NotEntities = {"services"}
  Singular <- SingularWords
  KnownFields <- SomeKnownFields
  KnownRelations <- SomeKnownRelations
  Wordless = {"- -", "_ _"}
  MaxEntities = 2
  EntityLists <- SomeEntityLists
  Projects <- SomeProjects
  Texts <- SomeTexts
  Hints <- SomeHints
  DeclarationLists <- SomeDeclarationLists
\* The last suite has ended.
CHECK_DEADLOCK FALSE
INVARIANTS
  ReplayHonest
  ReportsHonest
  CallsAccounted
  ReadingsUsable
