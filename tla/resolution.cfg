\* A small SDK, its headers listed in every order.
SPECIFICATION Spec
CONSTANTS
  None = None
  Headers <- TheHeaders
  Lines <- TheLines
  About <- TheAbout
  Facts <- TheFacts
  SdkHeader = "sdk.h"
  FirstHeaders <- TheFirst
  Unlisted <- TheUnlisted
  ClassOf <- TheClasses
  HandleOf <- TheHandleOf
  SpecialHandle <- TheSpecial
  GlobalEnums <- TheGlobalEnums
  GlobalConstants <- TheGlobalConstants
  Cheats <- TheCheats
  Words <- TheWords
  Copies <- TheCopies
  PresetHandles <- ThePreset
  Eos = "EOS"
  Platform = "HPlatform"
INVARIANTS
  TypeOK
  ReadAsDeclared
  OwnedOnce
  NeverFails
  DocsAtHandles
PROPERTIES
  Owned
