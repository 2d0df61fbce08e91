---------------------------- MODULE MCTransport -----------------------------
EXTENDS Transport

\* Everything the code has a path for.
AnyMessage == {"CONTROL", "NONCE", "UNKNOWN", "OVERSIZED"}

Voice == {"audio"}
AnyDatagram == {"audio", "repeat", "undecodable", "stray", "error"}

NoMessages == {}
=============================================================================
