SPECIFICATION Behaviour
CONSTANTS
  Letters <- MCLetters
  Bytes <- MCBytes
  BadRegex <- MCBadRegex
  Registry <- MCRegistry
  Profiles <- MCProfiles
  Dimensions <- MCDimensions
  RateMetrics <- MCRates
  HasMetric <- InRegistry
  HasDimension <- IsDimension
  KnownProfile <- IsProfile
  IsRateField <- IsRate
  EntityFields <- AllowedEntityFields
  FieldsOf <- Fields
  Layers <- MCLayers
  Texts <- MCTexts
  Trees <- MCTrees
  Envs <- MCEnvs
  Snapshots <- MCSnapshots
  FlagSets <- MCFlags
  Raws <- MCRaws
  Settings <- MCSettings
  Lookups <- MCLookups
  HostMetrics <- MCHostMetrics
  Catalog <- MCCatalog
  Spelling <- MCSpelling
  HelpLines = 6
  Sittings <- MCSittings
  Sortable <- SortableColumns
  Filterable <- FilterableColumns
  Groupable <- GroupableColumns
  Numeric <- NumericFields
  Folded <- IsCollapsed
  RowsToSee <- Unfolded
  PidsBelow <- PidsUnder
  Compiles <- Accepted
  RefusesFlags <- Refuses
  Queried <- Found
CHECK_DEADLOCK FALSE
INVARIANTS
  TextReadsBack FieldsSuffice CollectedSuffices
  GroupsHoldEverything HavingKeepsMatches TopRowsShown ListingOrderIrrelevant
  ConvertReloads PresetCyclesRefused SilentFileUnheard
  AlwaysAWayOut KeysMakeGoodQueries
PROPERTIES
  ActsOnWhatWasAsked CursorsOnScreen
