CONSTANTS
  backup = backup
  other = other
  secret = secret
  Programs = {cli, app}
  Writers = {cli}
  Names = {alice, bob}
  PrivateKeys = {k1, k2}
  Passphrases = {secret, guess}
  ImportFiles <- MCImportFiles
  NoFile = NoFile
  Torn = Torn
  None = None
SPECIFICATION Spec
INVARIANTS
  StoredUsable
  SignerOwnsAddress
PROPERTIES
  NoSilentOverwrite
