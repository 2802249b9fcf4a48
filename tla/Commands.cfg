SPECIFICATION FairSpec
CONSTANTS
  c1 = c1
  c2 = c2
  c3 = c3
  reboot = reboot
  config = config
  NoMsg = NoMsg
  Command <- MCCommand
  Reboot <- MCReboot
  Nameless <- MCReboot
  Windowed <- MCWindowed
  Config <- MCConfig
  Slots = 2
  Pollers = {cloud}
  MaxFault = 1
INVARIANTS
  Consistent
  RunAgainOnlyIfUnacked
PROPERTIES
  MessageHandled
  ImplementsMailbox
CHECK_DEADLOCK FALSE
