SPECIFICATION Spec
CONSTANTS
  Segment <- MCSegment
  Size <- MCSize
  Broken <- BrokenText
  Upper <- MCUpper
  Callsigns <- Names
  Ranges <- MCRanges
  Int32 <- MCInt32
  Unsigned <- MCUnsigned
  Decimal <- MCDecimal
  Squawk <- MCSquawk
  FirstChar <- MCFirstChar
  HexIds = {"69d7"}
  UniqueNumbers = {"-123456789"}
  Own = "BAW1"
  Secrets = {"secret"}
  Limit <- MCLimit
  Accounts <- MCAccounts
  Latitudes <- MCLatitudes
  Longitudes <- MCLongitudes
  Rounded <- MCRounded
  Reports = {"EGLL 121200Z", "text800"}
  Profile <- MCProfile
  Notices = {"welcome"}
  Inbound <- MCInbound
INVARIANTS RelayReadsBack EnvelopeRoundTrip ClassicRelayFits NoPasswordOnWire LoginErrorPolicy
