CONSTANTS
  Characters <- MCCharacters
  Slash <- MCSlash
  Listings <- MCListings
SPECIFICATION Spec
INVARIANTS
  OneSidedEntriesAreReported
  ListAgreesWithHashes
  ChangedEntriesAreReported
