SPECIFICATION Spec
CONSTANTS
  Numbers <- MCNumbers
  Words <- MCWords
  Profiles <- MCProfiles
  Edits <- MCEdits
  SecretTexts <- MCSecretTexts
  Menus <- MCMenus
  Offers <- MCOffers
  MaxSteps = 4
CHECK_DEADLOCK FALSE
INVARIANT EditorsAreInterchangeable
