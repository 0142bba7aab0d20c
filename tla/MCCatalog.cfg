SPECIFICATION CatalogSpec
CONSTANTS
  Editions <- MCEditions
  Repositories <- MCRepositories
  Known <- MCKnown
  Variants <- MCVariants
  Seeded <- MCSeeded
  Reports <- MCReports
  OlderTrees <- MCOlderTrees
  Switched <- MCSwitched
  RunIds <- MCRunIds
  MaxInserts = 3
  FamilyRows <- MCFamilyRows
  ModelRows <- MCModelRows
  Files <- MCFiles
  Held <- MCHeld
  Contributions <- MCContributions
  Reach <- MCReach
INVARIANTS HeadlineIsNotFlattering ShownWasPublished TableSupportsHeadline ModelPagesAgree
CHECK_DEADLOCK FALSE
