CONSTANTS
  Created = {c1}
  Known = {k}
  Foreign = {}
  Bad = {}
  Pasted = {k}
  Passphrases = {good, short}
  Short = {short}
  None = None
  Slots = {s}
  MaxSends = 1
  MaxFaults = 1
SPECIFICATION Spec
INVARIANTS
  WalletInv
  AddressSpendable
  SignsForKeystore
  ShownTransferOfKey
  ChecksOneWallet
PROPERTIES
  KeystoreKept
CHECK_DEADLOCK FALSE
