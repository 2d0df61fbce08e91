\* A speaker whose session number has two bytes and who attaches a position, and one
\* with the last number an int holds.
CONSTANTS
    Speakers = {300, 2147483647}
    Positional = {300}
    PayloadOf <- Payloads
    Targets = {0, 3}
    Bursts <- Silences
    Codecs <- OtherCodecs
    Stale <- Leftovers
    Timestamps <- Clocks
    MaxSaid = 2
    MaxPauses = 1
    MaxBursts = 1
SPECIFICATION Spec
INVARIANTS
    TypeOK
    HeardAsSaid
    RefusedOnlyPositional
    PingEchoed
    SpurtOrdered
