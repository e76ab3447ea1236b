CONSTANTS
  Kai = Kai
  Ora = Ora
  Zed = Zed
  NoAccount = NoAccount
  NoConfig = NoConfig
  Account <- MCAccount
  KeySym <- MCKeySym
  Keycode <- MCKeycode
  Modifier <- MCModifier
  Configs <- MCConfigs
  Garbage <- MCGarbage
  MaxReloads = 4
SPECIFICATION Spec
CHECK_DEADLOCK FALSE
INVARIANTS BoundKeysGrabbed RoutedAsConfigured AutofireAimed
