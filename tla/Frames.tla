-------------------------------- MODULE Frames --------------------------------
(***************************************************************************)
(* The bytes of a frame on the serial line between the host and the        *)
(* Controls, the same in both directions but for the two start bytes:      *)
(*                                                                         *)
(*      start1 start2 seqn len cmd data[0] .. data[len-1] csum             *)
(*                                                                         *)
(* serial_send.c composes them on the host, the receive thread and         *)
(* PacketSendDriver.c on the Controls.                                     *)
(***************************************************************************)
EXTENDS Naturals, Sequences

CONSTANTS
  BYTE,         \* how many values a byte has (256)
  AB, F5,       \* the start bytes of the host's frames (0xAB, 0x5F)
  CC, F57       \* the start bytes of the Controls' frames (0xCC, 0x57)

ASSUME ByteAssumption == /\ BYTE \in Nat \ {0}
                         /\ {AB, F5, CC, F57} \subseteq 0 .. BYTE - 1
                         /\ AB # F5 /\ CC # F57

Bytes == 0 .. BYTE - 1

(* The checksum: a sum in a u8, over length, command and data.             *)
SumOf(bytes) ==
  LET sum[n \in 0 .. Len(bytes)] ==
        IF n = 0 THEN 0 ELSE (sum[n - 1] + bytes[n]) % BYTE
  IN  sum[Len(bytes)]

Summed(cmd, data) == <<Len(data), cmd>> \o data

HostFrame(seqn, cmd, data) ==
  <<AB, F5, seqn>> \o Summed(cmd, data) \o <<SumOf(Summed(cmd, data))>>

ControlsFrame(seqn, cmd, data) ==
  <<CC, F57, seqn>> \o Summed(cmd, data) \o <<SumOf(Summed(cmd, data))>>

(* A packet without its frame is the command followed by the data.         *)
None == <<>>
=============================================================================
