SPECIFICATION HwSpec
CONSTANT PossibleForeign = {{"tx0", "rx0"}, {"tx0", "rx0", "tx1"}, {"tx0", "rx0", "rx1"}}
INVARIANT ForeignChannelsUntouched
CHECK_DEADLOCK FALSE
