CONSTANTS
  NoKey = NoKey
  MinSeed <- MCMinSeed
  Invalid = 99
  Core = "core"
  Alloc = "alloc"
  Cached = "alloc"
  Keys <- MCKeys
  Tables <- MCTables
  Hashes <- MCHashes
  Crates <- MCCrates
  Traits <- MCTraits
  Impls <- MCImpls
  Universe <- MCUniverse
  Home <- MCHome
  Inherent <- MCInherent
  Queries <- MCQueries
SPECIFICATION LookupSpec
INVARIANT GetFindsItsKey
INVARIANT ImplIsRusts
CHECK_DEADLOCK FALSE
