--------------------------- MODULE Console_proofs ---------------------------
(***************************************************************************)
(* Proofs about Console, for any size of the queue and of the line buffer, *)
(* and any dump and command that the queue has room for.                   *)
(***************************************************************************)
EXTENDS Console, SequenceTheorems, TLAPS

USE DEF vars, inpVars, cmdVars

(* The line that is part of the type invariant.                            *)
LineOK == line \in Seq(Texts) /\ Len(line) <= SERO_SQENTRYS

(* UD_Send keeps the texts that wait, and adds the given ones as far as    *)
(* there is room.                                                          *)
LEMMA PutLine ==
  ASSUME LineOK, NEW texts \in Seq(Texts), Put(texts)
  PROVE  /\ LineOK'
         /\ Len(line') = Len(line) + (IF Len(texts) <= Room THEN Len(texts) ELSE Room)
         /\ \A i \in 1 .. Len(line') :
              line'[i] = IF i <= Len(line) THEN line[i] ELSE texts[i - Len(line)]
<1> DEFINE n == IF Len(texts) <= Room THEN Len(texts) ELSE Room
           part == SubSeq(texts, 1, n)
<1>1. /\ line \in Seq(Texts) /\ Len(line) \in Nat /\ Len(texts) \in Nat
      /\ Room \in Nat /\ n \in 0 .. Len(texts) /\ Len(line) + n <= SERO_SQENTRYS
  BY SizeAssumption, LenProperties DEF LineOK, Room
<1>2. \A i \in 1 .. n : texts[i] \in Texts
  BY <1>1, LenProperties
<1>3. /\ part \in Seq(Texts)
      /\ Len(part) = n
      /\ \A i \in 1 .. n : part[i] = texts[i]
  BY <1>1, <1>2, SubSeqProperties
<1>4. line' = line \o part
  BY DEF Put
<1> HIDE DEF part, n
<1>5. /\ line' \in Seq(Texts)
      /\ Len(line') = Len(line) + n
      /\ \A i \in 1 .. Len(line) + n :
           line'[i] = IF i <= Len(line) THEN line[i] ELSE part[i - Len(line)]
  BY <1>1, <1>3, <1>4, ConcatProperties
<1>6. \A i \in 1 .. Len(line') :
        line'[i] = IF i <= Len(line) THEN line[i] ELSE texts[i - Len(line)]
  BY <1>1, <1>3, <1>5
<1> QED BY <1>1, <1>5, <1>6 DEF LineOK, n

(* Texts that end no row leave the rows' ends where they are.              *)
LEMMA PutTexts ==
  ASSUME LineOK, NEW texts \in Seq({"text"}), Put(texts)
  PROVE  LineOK' /\ Len(line') <= Len(line) + Len(texts) /\ RowEnds' = RowEnds
<1>1. texts \in Seq(Texts) /\ Len(texts) \in Nat
      /\ \A i \in 1 .. Len(texts) : texts[i] = "text"
  BY DEF Texts
<1>2. /\ LineOK'
      /\ Len(line') = Len(line) + (IF Len(texts) <= Room THEN Len(texts) ELSE Room)
      /\ \A i \in 1 .. Len(line') :
           line'[i] = IF i <= Len(line) THEN line[i] ELSE texts[i - Len(line)]
  BY <1>1, PutLine
<1>3. Len(line) \in Nat /\ Room \in Nat
  BY SizeAssumption DEF LineOK, Room
<1>4. Len(line) <= Len(line') /\ Len(line') <= Len(line) + Len(texts)
  BY <1>1, <1>2, <1>3
<1>5. \A i \in 1 .. Len(line') : i > Len(line) => line'[i] = "text"
  BY <1>1, <1>2, <1>3
<1>6. RowEnds' = RowEnds
  BY <1>2, <1>3, <1>4, <1>5 DEF RowEnds
<1> QED BY <1>2, <1>4, <1>6

(* A row's end comes last, or is tossed.                                   *)
LEMMA PutRow ==
  ASSUME LineOK, Put(Append(Copies(ROW - 1), "rowend"))
  PROVE  /\ LineOK'
         /\ IF ROW <= Room
              THEN Len(line') = Len(line) + ROW /\ RowEnds' = RowEnds \union {Len(line')}
              ELSE RowEnds' = RowEnds
<1> DEFINE texts == Append(Copies(ROW - 1), "rowend")
<1>1. /\ texts \in Seq(Texts) /\ Len(texts) = ROW
      /\ \A i \in 1 .. ROW : texts[i] = IF i = ROW THEN "rowend" ELSE "text"
  BY SizeAssumption DEF Copies, Texts
<1> HIDE DEF texts
<1>2. Put(texts)
  BY DEF texts
<1>3. /\ LineOK'
      /\ Len(line') = Len(line) + (IF ROW <= Room THEN ROW ELSE Room)
      /\ \A i \in 1 .. Len(line') :
           line'[i] = IF i <= Len(line) THEN line[i] ELSE texts[i - Len(line)]
  BY <1>1, <1>2, PutLine
<1>4. Len(line) \in Nat /\ Room \in Nat /\ ROW \in Nat \ {0}
  BY SizeAssumption DEF LineOK, Room
<1>5. \A i \in 1 .. Len(line') : i > Len(line) =>
        line'[i] = IF i = Len(line) + ROW THEN "rowend" ELSE "text"
  BY <1>1, <1>3, <1>4
<1>6. CASE ROW <= Room
  <2>1. Len(line') = Len(line) + ROW
    BY <1>3, <1>6
  <2>2. RowEnds' = RowEnds \union {Len(line')}
    BY <1>3, <1>4, <1>5, <2>1 DEF RowEnds
  <2> QED BY <1>3, <1>6, <2>1, <2>2
<1>7. CASE ~(ROW <= Room)
  <2>1. Len(line') = Len(line) + Room /\ Room < ROW
    BY <1>3, <1>4, <1>7
  <2>2. RowEnds' = RowEnds
    BY <1>3, <1>4, <1>5, <2>1 DEF RowEnds
  <2> QED BY <1>3, <1>7, <2>2
<1> QED BY <1>6, <1>7

(* The first text leaves the line.                                         *)
LEMMA TakeFirst ==
  ASSUME LineOK, line # <<>>, line' = Tail(line)
  PROVE  /\ LineOK' /\ Len(line') = Len(line) - 1
         /\ RowEnds' = {i - 1 : i \in RowEnds \ {1}}
<1>1. /\ line' \in Seq(Texts) /\ Len(line') = Len(line) - 1
      /\ \A i \in 1 .. Len(line') : line'[i] = line[i + 1]
  BY HeadTailProperties DEF LineOK
<1>2. Len(line) \in Nat
  BY DEF LineOK
<1>3. RowEnds' = {i - 1 : i \in RowEnds \ {1}}
  <2>1. ASSUME NEW i \in RowEnds' PROVE i + 1 \in RowEnds \ {1} /\ i = (i + 1) - 1
    BY <1>1, <1>2, <2>1 DEF RowEnds
  <2>2. ASSUME NEW i \in RowEnds \ {1} PROVE i - 1 \in RowEnds'
    BY <1>1, <1>2, <2>2 DEF RowEnds
  <2> QED BY <2>1, <2>2
<1> QED BY <1>1, <1>2, <1>3, SizeAssumption DEF LineOK

-----------------------------------------------------------------------------
LEMMA Parts ==
  IInv <=> /\ LineOK /\ TypeOK /\ LineStable /\ Rows /\ Lengths
  BY DEF IInv, TypeOK, LineOK

LEMMA Literals ==
  /\ <<"text">> \in Seq({"text"}) /\ Len(<<"text">>) = 1
  /\ <<"text", "text">> \in Seq({"text"}) /\ Len(<<"text", "text">>) = 2
  /\ Copies(ATONCE) \in Seq({"text"}) /\ Len(Copies(ATONCE)) = ATONCE
  BY SizeAssumption DEF Copies

(* Initially only the first prompt waits.                                  *)
LEMMA IInvInit == Init => IInv
<1> SUFFICES ASSUME Init PROVE IInv
  OBVIOUS
<1>1. line = Copies(ATONCE)
  BY DEF Init, Copies
<1>2. line \in Seq({"text"}) /\ Len(line) = ATONCE
  BY <1>1, Literals
<1>3. LineOK
  BY <1>2, SizeAssumption, RoomAssumption DEF LineOK, Texts
<1>4. TypeOK
  <2>1. /\ patient \in BOOLEAN /\ noisy \in BOOLEAN /\ CmdDone \in BOOLEAN
        /\ input_ready \in BOOLEAN /\ mine \in BOOLEAN
    BY Zenon DEF Init
  <2>2. /\ turn = "UD" /\ seri_state = "GETCHARS" /\ seri_cnt = 0 /\ first = "z"
        /\ cmds_state = "WAITFORLINE" /\ count1 = 0 /\ completion = 0
    BY DEF Init
  <2>3. seri_cnt \in 0 .. SERI_MAX_CHARS - 1 /\ count1 \in 0 .. ROWS
    BY <2>2, SizeAssumption
  <2> QED BY <1>3, <2>1, <2>2, <2>3 DEF TypeOK, LineOK, Letters
<1> QED BY <1>3, <1>4, Parts DEF Init, LineStable, Rows, Lengths

(* A text is printed: the end of a row that is waited for is the last one. *)
LEMMA PrintStep == IInv /\ UNCHANGED <<patient, noisy>> /\ UD_Finish => IInv'
<1> SUFFICES ASSUME IInv, UNCHANGED <<patient, noisy>>, UD_Finish PROVE IInv'
  OBVIOUS
<1>1. LineOK /\ TypeOK /\ LineStable /\ Rows /\ Lengths
  BY Parts
<1>2. /\ LineOK' /\ Len(line') = Len(line) - 1
      /\ RowEnds' = {i - 1 : i \in RowEnds \ {1}}
  BY <1>1, TakeFirst DEF UD_Finish
<1>3. Len(line) \in Nat \ {0} /\ RowEnds \subseteq 1 .. Len(line)
  BY <1>1, EmptySeq DEF LineOK, UD_Finish, RowEnds
<1>4. line[1] = "rowend" <=> 1 \in RowEnds
  BY <1>3 DEF RowEnds
<1>5. /\ turn' = "INP" /\ seri_state' = seri_state /\ CmdDone' = CmdDone
      /\ seri_cnt' = seri_cnt /\ first' = first /\ input_ready' = input_ready
      /\ cmds_state' = cmds_state /\ count1' = count1
  BY DEF UD_Finish
<1>6. IF 1 \in RowEnds
        THEN /\ completion' = 1
             /\ mine' = (mine /\ \E i \in 2 .. Len(line) : line[i] = "rowend")
        ELSE completion' = completion /\ mine' = mine
  BY <1>4 DEF UD_Finish
<1>7. completion' \in {0, 1}
  BY <1>1, <1>6 DEF TypeOK
<1>8. mine' \in BOOLEAN
  BY <1>1, <1>6, Zenon DEF TypeOK
<1>9. TypeOK'
  BY <1>1, <1>2, <1>5, <1>7, <1>8 DEF TypeOK, LineOK
<1>10. LineStable'
  BY <1>1, <1>5 DEF LineStable
<1>11. Rows'
  <2>1. (input_ready => cmds_state = "WAITFORLINE")'
        /\ (cmds_state = "MEMDUMP" => count1 < ROWS)'
    BY <1>1, <1>5 DEF Rows
  <2>2. RowEnds = {} => RowEnds' = {}
    BY <1>2
  <2>3. (patient /\ input_ready => RowEnds = {})'
    BY <1>1, <1>5, <2>2 DEF Rows
  <2>4. ASSUME patient, cmds_state = "MEMDUMP"
        PROVE  (/\ completion = 1 => RowEnds = {} /\ ~mine
                /\ \A i, j \in RowEnds : i = j)'
    <3>1. \A i, j \in RowEnds : i = j
      BY <1>1, <2>4 DEF Rows
    <3>2. CASE 1 \in RowEnds
      <4>1. RowEnds = {1}
        BY <3>1, <3>2
      <4>2. ~\E i \in 2 .. Len(line) : line[i] = "rowend"
        BY <1>3, <4>1 DEF RowEnds
      <4> QED BY <1>2, <1>6, <3>2, <4>1, <4>2
    <3>3. CASE 1 \notin RowEnds
      <4>1. completion' = 1 => RowEnds = {} /\ ~mine'
        BY <1>1, <1>6, <2>4, <3>3 DEF Rows
      <4>2. \A i, j \in RowEnds' : i = j
        BY <1>2, <3>1
      <4> QED BY <2>2, <4>1, <4>2
    <3> QED BY <3>2, <3>3
  <2> QED BY <1>5, <2>1, <2>3, <2>4 DEF Rows
<1>12. Lengths'
  <2> SUFFICES ASSUME patient, ~noisy
               PROVE  (/\ input_ready => Len(line) <= 1
                       /\ cmds_state = "MEMDUMP" =>
                            IF completion = 1 THEN line = <<>> ELSE RowEnds = {Len(line)}
                       /\ seri_state = "WAITDONE" /\ CmdDone =>
                            Len(line) + 2 <= SERO_SQENTRYS)'
    BY DEF Lengths
  <2>1. (input_ready => Len(line) <= 1)'
    BY <1>1, <1>2, <1>3, <1>5 DEF Lengths
  <2>2. (seri_state = "WAITDONE" /\ CmdDone => Len(line) + 2 <= SERO_SQENTRYS)'
    BY <1>1, <1>2, <1>3, <1>5, SizeAssumption DEF Lengths
  <2>3. ASSUME cmds_state = "MEMDUMP"
        PROVE  (IF completion = 1 THEN line = <<>> ELSE RowEnds = {Len(line)})'
    <3>1. completion # 1 /\ RowEnds = {Len(line)}
      BY <1>1, <1>3, <2>3, EmptySeq DEF Lengths
    <3>2. CASE Len(line) = 1
      <4>1. completion' = 1 /\ Len(line') = 0
        BY <1>2, <1>6, <3>1, <3>2
      <4> QED BY <1>2, <4>1, EmptySeq DEF LineOK
    <3>3. CASE Len(line) # 1
      BY <1>2, <1>3, <1>6, <3>1, <3>3
    <3> QED BY <3>2, <3>3
  <2> QED BY <1>5, <2>1, <2>2, <2>3
<1> QED BY <1>2, <1>9, <1>10, <1>11, <1>12, Parts, PTL

(* What the editor and the commands print at once leaves the rows' ends    *)
(* where they are.                                                         *)
LEMMA PutFew ==
  ASSUME LineOK, NEW texts \in {<<"text">>, <<"text", "text">>, Copies(ATONCE)},
         Put(texts)
  PROVE  LineOK' /\ Len(line') <= Len(line) + Len(texts) /\ RowEnds' = RowEnds
<1>1. texts \in Seq({"text"})
  BY Literals
<1> QED BY <1>1, PutTexts

(* The editor: a patient operator types only when nothing waits.           *)
LEMMA EditStep == IInv /\ UNCHANGED <<patient, noisy>> /\ UDInp_Process => IInv'
<1> SUFFICES ASSUME IInv, UNCHANGED <<patient, noisy>>, UDInp_Process PROVE IInv'
  OBVIOUS
<1> USE SizeAssumption
<1>1. LineOK /\ TypeOK /\ LineStable /\ Rows /\ Lengths
  BY Parts
<1>2. Len(line) \in Nat
  BY <1>1 DEF LineOK
<1>3. line = <<>> => Len(line) = 0 /\ RowEnds = {}
  BY EmptySeq DEF RowEnds
<1>4. CASE UDInp_NoKey
  <2>1. UNCHANGED <<patient, noisy, line, inpVars, cmdVars>> /\ turn' = "CMDS"
    BY <1>4 DEF UDInp_NoKey
  <2> QED BY <1>1, <2>1 DEF IInv, TypeOK, LineStable, Rows, Lengths, RowEnds
<1>5. CASE UDInp_Return
  <2>1. /\ seri_state = "GETCHARS" /\ turn' = "CMDS" /\ (patient => line = <<>>)
        /\ first' = first /\ cmds_state' = cmds_state /\ count1' = count1
        /\ completion' = completion /\ mine' = mine
    BY <1>5 DEF UDInp_Return, Key
  <2>2. cmds_state # "MEMDUMP" /\ ~input_ready
    BY <1>1, <2>1 DEF LineStable
  <2>3. CASE seri_cnt > 0
    <3>1. /\ Put(<<"text">>) /\ seri_cnt' = 0 /\ CmdDone' = FALSE
          /\ seri_state' = "WAITDONE" /\ input_ready' = TRUE
      BY <1>5, <2>3 DEF UDInp_Return
    <3>2. LineOK' /\ Len(line') <= Len(line) + 1 /\ RowEnds' = RowEnds
      BY <1>1, <3>1, PutFew, Literals
    <3>a. CmdDone' \in BOOLEAN /\ input_ready' \in BOOLEAN
      BY <3>1, Zenon
    <3>b. seri_cnt' \in 0 .. SERI_MAX_CHARS - 1
      BY <3>1
    <3>3. TypeOK'
      BY <1>1, <2>1, <3>1, <3>2, <3>a, <3>b DEF TypeOK, LineOK
    <3>4. Rows'
      BY <1>1, <1>3, <2>1, <2>2, <3>1, <3>2 DEF Rows, TypeOK
    <3>5. Lengths'
      BY <1>1, <1>3, <2>1, <2>2, <3>1, <3>2 DEF Lengths
    <3>6. LineStable'
      BY <3>1 DEF LineStable
    <3> QED BY <3>2, <3>3, <3>4, <3>5, <3>6, Parts, PTL
  <2>4. CASE ~(seri_cnt > 0)
    <3>1. /\ Put(<<"text", "text">>) /\ seri_cnt' = seri_cnt /\ CmdDone' = CmdDone
          /\ seri_state' = seri_state /\ input_ready' = input_ready
      BY <1>5, <2>4 DEF UDInp_Return
    <3>2. LineOK' /\ RowEnds' = RowEnds
      BY <1>1, <3>1, PutFew
    <3>3. TypeOK'
      BY <1>1, <2>1, <3>1, <3>2 DEF TypeOK, LineOK
    <3>4. Rows'
      BY <2>1, <2>2, <3>1, <3>2 DEF Rows
    <3>5. Lengths'
      BY <2>1, <2>2, <3>1, <3>2 DEF Lengths
    <3>6. LineStable'
      BY <2>1, <2>2, <3>1 DEF LineStable
    <3> QED BY <3>2, <3>3, <3>4, <3>5, <3>6, Parts, PTL
  <2> QED BY <2>3, <2>4
<1>6. ASSUME UDInp_Backspace \/ \E ch \in Letters : UDInp_Letter(ch) PROVE IInv'
  <2>1. /\ seri_state = "GETCHARS" /\ turn' = "CMDS"
        /\ seri_state' = seri_state /\ CmdDone' = CmdDone
        /\ input_ready' = input_ready /\ cmds_state' = cmds_state
        /\ count1' = count1 /\ completion' = completion /\ mine' = mine
        /\ Put(<<"text">>) \/ line' = line
    BY <1>6 DEF UDInp_Backspace, UDInp_Letter, Key
  <2>2. cmds_state # "MEMDUMP" /\ ~input_ready
    BY <1>1, <2>1 DEF LineStable
  <2>3. seri_cnt' \in 0 .. SERI_MAX_CHARS - 1 /\ first' \in Letters
    BY <1>1, <1>6 DEF UDInp_Backspace, UDInp_Letter, TypeOK
  <2>4. LineOK'
    BY <1>1, <2>1, PutFew DEF LineOK
  <2>5. TypeOK'
    BY <1>1, <2>1, <2>3, <2>4 DEF TypeOK, LineOK
  <2>6. LineStable' /\ Rows' /\ Lengths'
    BY <2>1, <2>2 DEF LineStable, Rows, Lengths
  <2> QED BY <2>4, <2>5, <2>6, Parts, PTL
<1>7. CASE UDInp_WaitDone
  <2>1. /\ seri_state = "WAITDONE" /\ turn' = "CMDS"
        /\ CmdDone' = CmdDone /\ seri_cnt' = seri_cnt /\ first' = first
        /\ input_ready' = input_ready /\ cmds_state' = cmds_state
        /\ count1' = count1 /\ completion' = completion /\ mine' = mine
    BY <1>7 DEF UDInp_WaitDone
  <2>2. CASE CmdDone
    <3>1. Put(<<"text", "text">>) /\ seri_state' = "GETCHARS"
      BY <1>7, <2>2 DEF UDInp_WaitDone
    <3>2. cmds_state # "MEMDUMP" /\ ~input_ready
      BY <1>1, <2>2 DEF LineStable
    <3>3. LineOK'
      BY <1>1, <3>1, PutFew
    <3>4. TypeOK'
      BY <1>1, <2>1, <3>1, <3>3 DEF TypeOK, LineOK
    <3>5. LineStable' /\ Rows' /\ Lengths'
      BY <2>1, <3>1, <3>2 DEF LineStable, Rows, Lengths
    <3> QED BY <3>3, <3>4, <3>5, Parts, PTL
  <2>3. CASE ~CmdDone
    <3>1. UNCHANGED <<patient, noisy, line, inpVars, cmdVars>>
      BY <1>7, <2>1, <2>3 DEF UDInp_WaitDone
    <3> QED BY <1>1, <2>1, <3>1 DEF IInv, TypeOK, LineStable, Rows, Lengths, RowEnds
  <2> QED BY <2>2, <2>3
<1> QED BY <1>4, <1>5, <1>6, <1>7 DEF UDInp_Process

(* A row: it is complete in a line that had no row's end.                  *)
LEMMA RowStep ==
  ASSUME IInv, UNCHANGED <<patient, noisy, seri_state, seri_cnt, first>>,
         turn' = "UD", input_ready' = FALSE,
         seri_state = "WAITDONE", ~CmdDone,
         patient => RowEnds = {},
         NEW row \in 1 .. ROWS, cmds_MD_Row(row),
         patient /\ ~noisy => Len(line) <= 1 /\ (row = 1 \/ Len(line) = 0)
  PROVE  IInv'
<1> USE SizeAssumption, RoomAssumption
<1>1. LineOK /\ TypeOK /\ LineStable /\ Rows /\ Lengths
  BY Parts
<1>2. /\ LineOK'
      /\ IF ROW <= Room
           THEN Len(line') = Len(line) + ROW /\ RowEnds' = RowEnds \union {Len(line')}
           ELSE RowEnds' = RowEnds
  BY <1>1, PutRow DEF cmds_MD_Row
<1>3. /\ IF ROW <= Room THEN completion' = 0 /\ mine' = TRUE
                        ELSE completion' = 1 /\ mine' = FALSE
      /\ count1' = row
      /\ IF row = ROWS THEN cmds_state' = "WAITFORLINE" /\ CmdDone' = TRUE
                       ELSE cmds_state' = "MEMDUMP" /\ CmdDone' = CmdDone
  BY DEF cmds_MD_Row
<1>4. mine' \in BOOLEAN
  BY <1>3, Zenon
<1>5. CmdDone' \in BOOLEAN /\ input_ready' \in BOOLEAN
  BY <1>1, <1>3, Zenon DEF TypeOK
<1>6. completion' \in {0, 1} /\ count1' \in 0 .. ROWS
      /\ cmds_state' \in {"WAITFORLINE", "MEMDUMP"}
  BY <1>3
<1>7. TypeOK'
  BY <1>1, <1>2, <1>4, <1>5, <1>6 DEF TypeOK, LineOK
<1>8. LineStable'
  BY <1>3 DEF LineStable
<1>9. Rows'
  <2>1. cmds_state' = "MEMDUMP" => count1' < ROWS
    BY <1>3
  <2>2. patient => \A i, j \in RowEnds' : i = j
    BY <1>2
  <2>3. patient /\ completion' = 1 => RowEnds' = {} /\ ~mine'
    BY <1>2, <1>3
  <2> QED BY <2>1, <2>2, <2>3 DEF Rows
<1>10. Lengths'
  <2> SUFFICES ASSUME patient, ~noisy
               PROVE  (/\ input_ready => Len(line) <= 1
                       /\ cmds_state = "MEMDUMP" =>
                            IF completion = 1 THEN line = <<>> ELSE RowEnds = {Len(line)}
                       /\ seri_state = "WAITDONE" /\ CmdDone =>
                            Len(line) + 2 <= SERO_SQENTRYS)'
    BY DEF Lengths
  <2>1. ROW <= Room
    BY <1>1 DEF Room, LineOK
  <2>2. Len(line') = Len(line) + ROW /\ RowEnds' = {Len(line')} /\ completion' = 0
    BY <1>2, <1>3, <2>1
  <2>a. CmdDone' => row = ROWS
    BY <1>3, Zenon
  <2>b. row = 1 \/ Len(line) = 0
    OBVIOUS
  <2>3. CmdDone' => Len(line) = 0
    BY <2>a, <2>b
  <2>4. CmdDone' => Len(line') + 2 <= SERO_SQENTRYS
    BY <2>2, <2>3
  <2> QED BY <2>2, <2>4
<1> QED BY <1>2, <1>7, <1>8, <1>9, <1>10, Parts, PTL

(* The commands.                                                           *)
LEMMA CommandStep == IInv /\ UNCHANGED <<patient, noisy>> /\ CMDS_Process => IInv'
<1> SUFFICES ASSUME IInv, UNCHANGED <<patient, noisy>>, CMDS_Process PROVE IInv'
  OBVIOUS
<1> USE SizeAssumption, RoomAssumption
<1>1. LineOK /\ TypeOK /\ LineStable /\ Rows /\ Lengths
  BY Parts
<1>2. CASE CMDS_Idle
  <2>1. UNCHANGED <<patient, noisy, line, inpVars, cmdVars>> /\ turn' = "UD"
    BY <1>2 DEF CMDS_Idle
  <2> QED BY <1>1, <2>1 DEF IInv, TypeOK, LineStable, Rows, Lengths, RowEnds
<1>3. CASE CMDS_AtOnce
  <2>1. /\ turn' = "UD" /\ input_ready /\ input_ready' = FALSE /\ CmdDone' = TRUE
        /\ seri_state' = seri_state /\ seri_cnt' = seri_cnt /\ first' = first
        /\ cmds_state = "WAITFORLINE" /\ cmds_state' = cmds_state
        /\ count1' = count1 /\ completion' = completion /\ mine' = mine
        /\ Put(Copies(ATONCE)) \/ line' = line
    BY <1>3 DEF CMDS_AtOnce
  <2>2. LineOK' /\ Len(line') <= Len(line) + ATONCE
    BY <1>1, <2>1, PutFew, Literals DEF LineOK
  <2>3. CmdDone' \in BOOLEAN /\ input_ready' \in BOOLEAN
    BY <2>1, Zenon
  <2>4. TypeOK'
    BY <1>1, <2>1, <2>2, <2>3 DEF TypeOK, LineOK
  <2>5. LineStable' /\ Rows'
    BY <2>1 DEF LineStable, Rows
  <2>6. Lengths'
    <3>1. patient /\ ~noisy => Len(line) <= 1 /\ Len(line) \in Nat
      BY <1>1, <2>1 DEF Lengths, LineOK
    <3>2. patient /\ ~noisy => Len(line') + 2 <= SERO_SQENTRYS
      BY <2>2, <3>1 DEF LineOK
    <3> QED BY <2>1, <3>2 DEF Lengths
  <2> QED BY <2>2, <2>4, <2>5, <2>6, Parts, PTL
<1>4. CASE cmds_MD_Init
  <2>1. /\ turn' = "UD" /\ input_ready /\ input_ready' = FALSE /\ cmds_MD_Row(1)
        /\ UNCHANGED <<seri_state, seri_cnt, first>>
    BY <1>4 DEF cmds_MD_Init
  <2>2. seri_state = "WAITDONE" /\ ~CmdDone /\ (patient => RowEnds = {})
        /\ (patient /\ ~noisy => Len(line) <= 1)
    BY <1>1, <2>1 DEF LineStable, Rows, Lengths
  <2>3. 1 \in 1 .. ROWS
    OBVIOUS
  <2> QED BY <2>1, <2>2, <2>3, RowStep
<1>5. CASE cmds_MD_Process
  <2>1. /\ turn' = "UD" /\ cmds_state = "MEMDUMP" /\ input_ready' = input_ready
        /\ UNCHANGED <<seri_state, seri_cnt, first>>
    BY <1>5 DEF cmds_MD_Process
  <2>2. seri_state = "WAITDONE" /\ ~CmdDone /\ ~input_ready /\ count1 + 1 \in 1 .. ROWS
    BY <1>1, <2>1 DEF LineStable, Rows, TypeOK
  <2>3. CASE completion = 1
    <3>1. cmds_MD_Row(count1 + 1)
      BY <1>5, <2>3 DEF cmds_MD_Process
    <3>2. /\ patient => RowEnds = {}
          /\ patient /\ ~noisy => Len(line) <= 1 /\ Len(line) = 0
      BY <1>1, <2>1, <2>3, EmptySeq DEF Rows, Lengths
    <3>3. input_ready' = FALSE
      BY <1>1, <2>1, <2>2 DEF TypeOK
    <3> QED BY <2>1, <2>2, <3>1, <3>2, <3>3, RowStep
  <2>4. CASE completion # 1
    <3>1. UNCHANGED <<patient, noisy, line, inpVars, cmdVars>>
      BY <1>5, <2>1, <2>4 DEF cmds_MD_Process
    <3> QED BY <1>1, <2>1, <3>1 DEF IInv, TypeOK, LineStable, Rows, Lengths, RowEnds
  <2> QED BY <2>3, <2>4
<1> QED BY <1>2, <1>3, <1>4, <1>5 DEF CMDS_Process

(* What others print only lengthens the line.                              *)
LEMMA OthersStep == IInv /\ UNCHANGED <<patient, noisy>> /\ Others => IInv'
<1> SUFFICES ASSUME IInv, UNCHANGED <<patient, noisy>>, Others PROVE IInv'
  OBVIOUS
<1>1. LineOK /\ TypeOK /\ LineStable /\ Rows /\ Lengths
  BY Parts
<1>2. noisy /\ Put(<<"text">>) /\ UNCHANGED <<turn, inpVars, cmdVars>>
  BY DEF Others
<1>3. LineOK' /\ RowEnds' = RowEnds
  BY <1>1, <1>2, PutFew
<1>4. TypeOK'
  BY <1>1, <1>2, <1>3 DEF TypeOK, LineOK
<1>5. LineStable' /\ Rows' /\ Lengths'
  BY <1>1, <1>2, <1>3 DEF LineStable, Rows, Lengths
<1> QED BY <1>3, <1>4, <1>5, Parts, PTL

(* The invariant holds in every state.                                     *)
LEMMA Invariant == Spec => []IInv
<1>1. IInv /\ [Next]_vars => IInv'
  <2> SUFFICES ASSUME IInv, [Next]_vars PROVE IInv'
    OBVIOUS
  <2>1. CASE Next
    <3>1. UNCHANGED <<patient, noisy>>
      BY <2>1 DEF Next
    <3>2. CASE UD_Char
      <4>1. UNCHANGED <<patient, noisy, line, inpVars, cmdVars>> /\ turn' = "INP"
        BY <3>1, <3>2 DEF UD_Char
      <4> QED BY <4>1 DEF IInv, TypeOK, LineStable, Rows, Lengths, RowEnds
    <3> QED
      BY <2>1, <3>1, <3>2, PrintStep, EditStep, CommandStep, OthersStep
      DEF Next, IdleHook, UD_Process
  <2>2. CASE UNCHANGED vars
    BY <2>2 DEF IInv, TypeOK, LineStable, Rows, Lengths, RowEnds
  <2> QED BY <2>1, <2>2
<1> QED BY IInvInit, <1>1, PTL DEF Spec

-----------------------------------------------------------------------------
(* Every variable keeps its type; the line and its terminator fit into the *)
(* buffer (Uart2_Inp.c:98-103).                                            *)
THEOREM TypeCorrect == Spec => []TypeOK
<1>1. IInv => TypeOK
  BY DEF IInv
<1> QED BY Invariant, <1>1, PTL

(* The line is not edited while a command works on it (Uart2_Inp.c:83).    *)
THEOREM LineIsStable == Spec => []LineStable
<1>1. IInv => LineStable
  BY DEF IInv
<1> QED BY Invariant, <1>1, PTL

(* When nothing else prints, the console's pacing leaves room for all that *)
(* it prints, if the queue holds one command (Cmds.c:339-360).             *)
THEOREM RoomIsThere == Spec => []RoomForAll
<1>1. IInv => RoomForAll
  <2> SUFFICES ASSUME IInv PROVE RoomForAll
    OBVIOUS
  <2>1. LineOK /\ Lengths
    BY Parts
  <2> USE SizeAssumption, RoomAssumption
  <2>2. Len(line) \in Nat /\ (line = <<>> => Len(line) = 0)
    BY <2>1, EmptySeq DEF LineOK
  <2> QED BY <2>1, <2>2 DEF Lengths, RoomForAll, Room
<1> QED BY Invariant, <1>1, PTL

(* A dump waits for its own row, although all share one completion word,   *)
(* when the operator does not type ahead (Cmds.c:345-353) and the tick     *)
(* prints between the calls of UD_Send.                                    *)
THEOREM DumpsRowByRow == Spec => RowByRow
<1>1. IInv /\ [Next]_vars => [patient /\ cmds_MD_Process /\ count1' # count1 => ~mine]_vars
  <2> SUFFICES ASSUME IInv, patient, cmds_MD_Process, count1' # count1
               PROVE  ~mine
    OBVIOUS
  <2>1. cmds_state = "MEMDUMP" /\ completion = 1
    BY DEF cmds_MD_Process
  <2> QED BY <2>1, Parts DEF Rows
<1> QED BY Invariant, <1>1, PTL DEF Spec, RowByRow
=============================================================================
