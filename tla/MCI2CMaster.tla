---------------------------- MODULE MCI2CMaster ----------------------------
(* Two channels of the sixteen, two signals of the nine.  The compiled in  *)
(* configuration enables channel 0 only, as the real one does; the host's  *)
(* enables the other one, so that channel 0 is sampled for itself only.    *)
EXTENDS I2CMaster

CONSTANTS default, hostA, sigS, sigT

MC_Enbl == [k \in Configs |-> IF k = default THEN {0} ELSE {1}]
MC_Name == [k \in Configs |-> [c \in Chans |->
  CASE k = default -> NoSignal
    [] c = 0 -> sigT
    [] OTHER -> sigS]]
=============================================================================
