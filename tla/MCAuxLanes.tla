----------------------------- MODULE MCAuxLanes -----------------------------
(* Instances of AuxLanes for TLC. *)
EXTENDS AuxLanes, TLC

CONSTANTS m1, m2, v1, w1, w2

VoiceHost == v1 :> m1
TwoWriterHosts == w1 :> m1 @@ w2 :> m2
BothLanes == {"transcription", "chat"}
=============================================================================
