CONSTANTS
  Items = {"h1", "h2", "h3", "h4"}
  Null = "null"
  TypeOf <- HandlerTypes
  Senders = {"KEY", "UART"}
  Slots = 2
  MaxEvents = 2
  Keys = {"k1", "k2"}
  Blocks = {"h1", "h2"}
  Numbers = {0, 3}
  Room = 2
  Allowed = {1, 2}
  Default = 5
  MaxBlob = 2
  AppDevices <- DeviceNames
  Kind <- DeviceKind
  Needs <- DeviceNeeds
  Parts <- NameParts
  MayFail = {"port", "keyboard", "mqtt", "seven"}
  Hidden = {"mqtt"}
  NoObject = "none"
  Sentences <- SomeSentences
  MaxSentences = 2
  Outs = {"h1", "h2"}
  Writers = {"a", "b"}
  IrqOut = "e9"
  Levels = {1, 2}
  Number <- Numerals
  Gpios = {"led"}
  Channels = {1}
  Verboses = {"other"}
  MaxArgs = 2
  Extent = 4
  Modulus = 8
  MaxAdds = 9
SPECIFICATION MCSpec
INVARIANTS LinksFollowItems HandlersOnce  NeedsAreFound   LinesAreWhole RingsAreKept
PROPERTIES ErrorsChangeNothing
CHECK_DEADLOCK FALSE
