---------------------- MODULE MC_MixConnectionHandler ----------------------
(* Small instances of the mix connection handler for TLC.                  *)
EXTENDS MixConnectionHandler

\* Two ticks per interval: a pop, a tick, and a second poll fall inside one
\* interval, so an early pop is reachable.
MC_Interval == 2
\* Three payloads: enough for one to be lost between two that are sent.
MC_MaxPayload == 3
MC_MaxPeerFrames == 2
MC_WireCap == 2
MC_MaxFaults == 2
MC_DialErrors == {"NegotiationFailed", "Io", "Timeout"}
MC_NoDialErrors == {}
=============================================================================
