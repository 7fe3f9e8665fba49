\* an NVR with two channels that goes away and comes back; the theorems cover a failing keyring
SPECIFICATION FairSpec
CONSTANTS
  Channels = {0, 1}
  Passwords = {1, 2}
  MaxUser = 2
  MaxWorld = 2
  KeyringFails = FALSE
  PasswordChanges = TRUE
  CamerasVary = TRUE
  PartialReplies = TRUE
INVARIANTS NoHostForgotten OneValidation OneGuess
PROPERTIES ComesBack
