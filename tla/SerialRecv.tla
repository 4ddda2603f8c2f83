------------------------------ MODULE SerialRecv ------------------------------
(***************************************************************************)
(* How the host finds a packet among the bytes of the line:                *)
(* Get_Input_Packet (serial_recv.c), one read of one byte at a time.       *)
(*                                                                         *)
(* The kernel keeps the bytes until they are read.  A read that finds none *)
(* comes back after 0.4 seconds, three such reads in a row are a character *)
(* timeout: it happens only when the line has fallen silent, because the   *)
(* bytes of a frame follow each other within milliseconds.                 *)
(*                                                                         *)
(* The sequence number is compared (Verify_Seqn_Tag) and the result        *)
(* dropped; it is left out.                                                *)
(***************************************************************************)
EXTENDS Frames

VARIABLES
  toHost,     \* bytes on the line to the host and in its serial port
  rx,         \* where Get_Input_Packet stands
  dbuf,       \* Globals.dbuf, which keeps what earlier packets left in it
  i, k,       \* bytes stored, bytes counted
  Lcsum, Tch, \* sum, last character read into it
  published   \* what ProcessPacket has sent on

serialVars == <<toHost, rx, dbuf, i, k, Lcsum, Tch, published>>

SR_Init ==
  /\ toHost = <<>> /\ rx = "HUNT"
  /\ dbuf = [n \in 0 .. BYTE + 1 |-> 0]
  /\ i = 0 /\ k = 0 /\ Lcsum = 0 /\ Tch = 0
  /\ published = None

Read(state, byte) ==
  /\ published = None
  /\ rx = state /\ toHost # <<>>
  /\ byte = Head(toHost)
  /\ toHost' = Tail(toHost)

Hunt(byte) ==
  /\ Read("HUNT", byte)
  /\ rx' = IF byte = CC THEN "START2" ELSE "HUNT"
  /\ UNCHANGED <<dbuf, i, k, Lcsum, Tch, published>>

(* Anything but the second start byte, a first one included, sends the     *)
(* receiver back to hunt for the first one.                                *)
Start2(byte) ==
  /\ Read("START2", byte)
  /\ Tch' = byte
  /\ rx' = IF byte = F57 THEN "TAG" ELSE "HUNT"
  /\ UNCHANGED <<dbuf, i, k, Lcsum, published>>

Tag(byte) ==
  /\ Read("TAG", byte)
  /\ rx' = "LEN"
  /\ UNCHANGED <<dbuf, i, k, Lcsum, Tch, published>>

GetLength(byte) ==
  /\ Read("LEN", byte)
  /\ dbuf' = [dbuf EXCEPT ![0] = byte]
  /\ rx' = "CMD"
  /\ UNCHANGED <<i, k, Lcsum, Tch, published>>

(* Mutant: the index is not reset.                                         *)
GetCmd_KeepsIndex(byte) ==
  /\ Read("CMD", byte)
  /\ dbuf' = [dbuf EXCEPT ![1] = byte]
  /\ k' = 0
  /\ Lcsum' = (byte + dbuf[0]) % BYTE
  /\ rx' = "DATA"
  /\ UNCHANGED <<i, Tch, published>>

(* The index starts over for each packet (the code sets it to 0 before it  *)
(* hunts, :163, and counts length and command).                            *)
GetCmd(byte) ==
  /\ Read("CMD", byte)
  /\ dbuf' = [dbuf EXCEPT ![1] = byte]
  /\ i' = 2 /\ k' = 0
  /\ Lcsum' = (byte + dbuf[0]) % BYTE
  /\ rx' = "DATA"
  /\ UNCHANGED <<Tch, published>>

(* The data and the checksum.                                              *)
More == k < dbuf[0] + 1
GetData(byte) ==
  /\ More /\ Read("DATA", byte)
  /\ dbuf' = [dbuf EXCEPT ![i] = byte]
  /\ i' = i + 1 /\ k' = k + 1
  /\ Lcsum' = (Lcsum + byte) % BYTE
  /\ Tch' = byte
  /\ UNCHANGED <<rx, published>>

(* A character timeout: in the header the hunt starts again; in the data   *)
(* the `continue' is that of the loop over the data, which counts a byte   *)
(* that it has not got.                                                    *)
CharTimeout ==
  /\ published = None
  /\ toHost = <<>>
  /\ \/ rx \in {"START2", "TAG", "LEN", "CMD"} /\ rx' = "HUNT" /\ UNCHANGED k
     \/ rx = "DATA" /\ More /\ k' = k + 1 /\ UNCHANGED rx
  /\ UNCHANGED <<toHost, dbuf, i, Lcsum, Tch, published>>

(* Mutant: the last byte is left in the sum.                               *)
EndOfPacket_SumsAll ==
  /\ rx = "DATA" /\ ~More
  /\ published' = IF Lcsum = dbuf[dbuf[0] + 2]
                    THEN [n \in 1 .. dbuf[0] + 1 |-> dbuf[n]] ELSE None
  /\ rx' = "HUNT"
  /\ UNCHANGED <<toHost, dbuf, i, k, Lcsum, Tch>>

(* The last character read is taken out of the sum again, and the sum      *)
(* compared with the byte where the checksum belongs.  If they are the     *)
(* same, ProcessPacket publishes command and data.                         *)
EndOfPacket ==
  /\ rx = "DATA" /\ ~More
  /\ published' = IF (Lcsum + BYTE - Tch) % BYTE = dbuf[dbuf[0] + 2]
                    THEN [n \in 1 .. dbuf[0] + 1 |-> dbuf[n]] ELSE None
  /\ rx' = "HUNT"
  /\ UNCHANGED <<toHost, dbuf, i, k, Lcsum, Tch>>

Get_Input_Packet ==
  \/ \E byte \in Bytes : Hunt(byte) \/ Start2(byte) \/ Tag(byte)
       \/ GetLength(byte) \/ GetCmd(byte) \/ GetData(byte)
  \/ CharTimeout \/ EndOfPacket

(* A byte is stored by its index, but counted by k against the length byte *)
(* of the line: the index never leaves the buffer.                         *)
StaysInBuffer == rx = "DATA" /\ More => i \in DOMAIN dbuf

(* The comment above Get_Input_Packet: it returns true if checksums match  *)
(* -- so a packet is published only if its checksum has been received.     *)
TrueMeansChecksum == published # None => i = dbuf[0] + 3
=============================================================================
