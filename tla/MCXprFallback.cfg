SPECIFICATION Spec
CONSTANTS
  Addresses <- MCAddresses
  Listed <- MCListed
  MaxList = 3
INVARIANTS
  NeverLeftToSigner
