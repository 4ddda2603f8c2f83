------------------------------ MODULE Console ------------------------------
(***************************************************************************)
(* The operator's console of the Controls processor: the line editor       *)
(* (Uart2_Inp.c), the commands (Cmds.c) and the output line between them   *)
(* and USART1, which is that of ConsoleLine (UartOut implements it).       *)
(*                                                                         *)
(* The idle hook calls UD_Process, UDInp_Process and CMDS_Process in turn, *)
(* and each call is one step.  Of a typed line only the first letter and   *)
(* the length matter: `m' stands for the memory dump, which prints some    *)
(* rows and waits for each to be out before it prints the next, `v' for    *)
(* all commands that print at once, the other letters for those that       *)
(* print nothing.                                                          *)
(*                                                                         *)
(* The line is a perfect queue, as UartOut is when the tick prints between *)
(* the calls of UD_Send only.  A tick that prints inside such a call may   *)
(* undo the count of a text (Uart2_Outp.c:100); then the end of a row may  *)
(* never be signalled and the dump that waits for it never ends.  That is  *)
(* UartOut with Racing; all that is said here is said of a line to which   *)
(* it does not happen.                                                     *)
(***************************************************************************)
EXTENDS Naturals, Sequences

CONSTANTS
  SERO_SQENTRYS,   \* slots of the output queue (100)
  SERI_MAX_CHARS,  \* size of the line buffer (21)
  ROW,             \* texts of one row of a dump (18)
  ROWS,            \* rows of a dump (4)
  ATONCE           \* texts of a command that prints at once (1 .. 12)

ASSUME SizeAssumption ==
  {SERO_SQENTRYS, SERI_MAX_CHARS, ROW, ROWS, ATONCE} \subseteq Nat \ {0}

(* The queue is larger than what one command prints before it waits: the   *)
(* echo of the return, a command's texts and the prompt fit together.      *)
ASSUME RoomAssumption ==
  ROWS > 1 /\ ROW + 2 <= SERO_SQENTRYS /\ ATONCE + 3 <= SERO_SQENTRYS

Letters == {"m", "v", "z"}

(* What waits to be printed: a text, or the one that ends a row and sets   *)
(* cmds_completion when it is out.                                         *)
Texts == {"text", "rowend"}

VARIABLES
  patient,       \* the operator types a key only when all is on the screen
  noisy,         \* the packet threads and the monitor print as well, and
                 \* the tick, the latter between calls of UD_Send only
  turn,                                  \* whose call comes next
  line,                                  \* the output line
  seri_state, CmdDone, seri_cnt, first,  \* Uart2_Inp.c; first: seri_dat[0]
  input_ready, cmds_state, count1, completion,  \* Cmds.c
  mine           \* the last row of the command under way is still in line

inpVars == <<seri_state, CmdDone, seri_cnt, first>>
cmdVars == <<input_ready, cmds_state, count1, completion, mine>>
vars == <<patient, noisy, turn, line, inpVars, cmdVars>>

Init ==
  /\ patient \in BOOLEAN /\ noisy \in BOOLEAN
  /\ turn = "UD" /\ line = [i \in 1 .. ATONCE |-> "text"]
  /\ seri_state = "GETCHARS" /\ CmdDone = FALSE /\ seri_cnt = 0 /\ first = "z"
  /\ input_ready = FALSE /\ cmds_state = "WAITFORLINE"
  /\ count1 = 0 /\ completion = 0 /\ mine = FALSE

-----------------------------------------------------------------------------
(* UD_Send for each of the texts: those for which there is no room are     *)
(* tossed.                                                                 *)
Room == SERO_SQENTRYS - Len(line)
Put(texts) == line' = line \o SubSeq(texts, 1, IF Len(texts) <= Room THEN Len(texts) ELSE Room)
Copies(n) == [i \in 1 .. n |-> "text"]

(* UD_Process: not the last character of a text ...                        *)
UD_Char == /\ turn = "UD" /\ turn' = "INP"
           /\ UNCHANGED <<line, inpVars, cmdVars>>

(* ... or the last one.                                                    *)
UD_Finish ==
  /\ turn = "UD" /\ turn' = "INP"
  /\ line # <<>>
  /\ line' = Tail(line)
  /\ IF line[1] = "rowend"
       THEN completion' = 1 /\ mine' = (mine /\ \E i \in 2 .. Len(line) : line[i] = "rowend")
       ELSE UNCHANGED <<completion, mine>>
  /\ UNCHANGED <<inpVars, input_ready, cmds_state, count1>>

-----------------------------------------------------------------------------
(* UDInp_Process.                                                          *)

(* No key, or one that is neither printed nor edits. *)
UDInp_NoKey == /\ turn = "INP" /\ seri_state = "GETCHARS" /\ turn' = "CMDS"
               /\ UNCHANGED <<line, inpVars, cmdVars>>

Key == /\ turn = "INP" /\ seri_state = "GETCHARS" /\ turn' = "CMDS"
       /\ patient => line = <<>>

(* A line is handed to the commands by its address.                        *)
UDInp_Return ==
  /\ Key
  /\ IF seri_cnt > 0
       THEN /\ Put(<<"text">>)
            /\ seri_cnt' = 0 /\ CmdDone' = FALSE /\ seri_state' = "WAITDONE"
            /\ input_ready' = TRUE
       ELSE Put(<<"text", "text">>) /\ UNCHANGED <<seri_cnt, CmdDone, seri_state, input_ready>>
  /\ UNCHANGED <<first, cmds_state, count1, completion, mine>>

UDInp_Backspace ==
  /\ Key
  /\ IF seri_cnt > 0 THEN Put(<<"text">>) /\ seri_cnt' = seri_cnt - 1
                     ELSE UNCHANGED <<line, seri_cnt>>
  /\ UNCHANGED <<seri_state, CmdDone, first, cmdVars>>

(* Mutant: the length is compared with > instead of >=.                    *)
UDInp_Letter_Overflow(ch) ==
  /\ Key
  /\ Put(<<"text">>)
  /\ first' = IF seri_cnt = 0 THEN ch ELSE first
  /\ seri_cnt' = IF seri_cnt + 1 > SERI_MAX_CHARS THEN seri_cnt ELSE seri_cnt + 1
  /\ UNCHANGED <<seri_state, CmdDone, cmdVars>>

UDInp_Letter(ch) ==
  /\ Key
  /\ Put(<<"text">>)
  /\ first' = IF seri_cnt = 0 THEN ch ELSE first
  /\ seri_cnt' = IF seri_cnt + 1 >= SERI_MAX_CHARS THEN seri_cnt ELSE seri_cnt + 1
  /\ UNCHANGED <<seri_state, CmdDone, cmdVars>>

UDInp_WaitDone ==
  /\ turn = "INP" /\ seri_state = "WAITDONE" /\ turn' = "CMDS"
  /\ IF CmdDone THEN Put(<<"text", "text">>) /\ seri_state' = "GETCHARS"
                ELSE UNCHANGED <<line, seri_state>>
  /\ UNCHANGED <<CmdDone, seri_cnt, first, cmdVars>>

-----------------------------------------------------------------------------
(* CMDS_Process.                                                           *)

CMDS_Idle == /\ turn = "CMDS" /\ cmds_state = "WAITFORLINE" /\ ~input_ready
             /\ turn' = "UD"
             /\ UNCHANGED <<line, inpVars, cmdVars>>

CMDS_AtOnce ==
  /\ turn = "CMDS" /\ cmds_state = "WAITFORLINE" /\ input_ready /\ first # "m"
  /\ turn' = "UD"
  /\ input_ready' = FALSE
  /\ IF first = "v" THEN Put(Copies(ATONCE)) ELSE UNCHANGED line
  /\ CmdDone' = TRUE
  /\ UNCHANGED <<seri_state, seri_cnt, first, cmds_state, count1, completion, mine>>

(* Mutant: the completion is cleared by the command itself.                *)
cmds_MD_Row_ClearsFirst(row) ==
  /\ Put(Append(Copies(ROW - 1), "rowend"))
  /\ completion' = 0
  /\ mine' = (ROW <= Room)
  /\ count1' = row
  /\ IF row = ROWS THEN cmds_state' = "WAITFORLINE" /\ CmdDone' = TRUE
                   ELSE cmds_state' = "MEMDUMP" /\ UNCHANGED CmdDone

(* Mutant: a dump reports that it is done when it has begun.               *)
cmds_MD_Row_DoneEarly(row) ==
  /\ Put(Append(Copies(ROW - 1), "rowend"))
  /\ IF ROW <= Room THEN completion' = 0 /\ mine' = TRUE
                    ELSE completion' = 1 /\ mine' = FALSE
  /\ count1' = row
  /\ IF row = ROWS THEN cmds_state' = "WAITFORLINE" ELSE cmds_state' = "MEMDUMP"
  /\ CmdDone' = TRUE

(* Mutant: the rows are not waited for.                                    *)
cmds_MD_Row_NoWait(row) ==
  /\ Put(Append(Copies(ROW - 1), "rowend"))
  /\ completion' = 1 /\ mine' = (ROW <= Room)
  /\ count1' = row
  /\ IF row = ROWS THEN cmds_state' = "WAITFORLINE" /\ CmdDone' = TRUE
                   ELSE cmds_state' = "MEMDUMP" /\ UNCHANGED CmdDone

(* A row is printed; the completion is cleared by UD_Send, when the row's  *)
(* end is not tossed, and is 1 otherwise.                                  *)
cmds_MD_Row(row) ==
  /\ Put(Append(Copies(ROW - 1), "rowend"))
  /\ IF ROW <= Room THEN completion' = 0 /\ mine' = TRUE
                    ELSE completion' = 1 /\ mine' = FALSE
  /\ count1' = row
  /\ IF row = ROWS THEN cmds_state' = "WAITFORLINE" /\ CmdDone' = TRUE
                   ELSE cmds_state' = "MEMDUMP" /\ UNCHANGED CmdDone

cmds_MD_Init ==
  /\ turn = "CMDS" /\ cmds_state = "WAITFORLINE" /\ input_ready /\ first = "m"
  /\ turn' = "UD"
  /\ input_ready' = FALSE
  /\ cmds_MD_Row(1)
  /\ UNCHANGED <<seri_state, seri_cnt, first>>

cmds_MD_Process ==
  /\ turn = "CMDS" /\ cmds_state = "MEMDUMP"
  /\ turn' = "UD"
  /\ IF completion = 1
       THEN cmds_MD_Row(count1 + 1)
       ELSE UNCHANGED <<line, CmdDone, cmds_state, count1, completion, mine>>
  /\ UNCHANGED <<seri_state, seri_cnt, first, input_ready>>

(* The receive thread and the monitor print, too, and so does the A/D      *)
(* state machine, in a tick that falls between two calls of UD_Send: one   *)
(* within a call is left out here.                                         *)
Others == /\ noisy /\ Put(<<"text">>)
          /\ UNCHANGED <<turn, inpVars, cmdVars>>

UD_Process == UD_Char \/ UD_Finish
UDInp_Process == \/ UDInp_NoKey \/ UDInp_Return \/ UDInp_Backspace
                 \/ \E ch \in Letters : UDInp_Letter(ch)
                 \/ UDInp_WaitDone
CMDS_Process == CMDS_Idle \/ CMDS_AtOnce \/ cmds_MD_Init \/ cmds_MD_Process
IdleHook == UD_Process \/ UDInp_Process \/ CMDS_Process

Next == (IdleHook \/ Others) /\ UNCHANGED <<patient, noisy>>
Spec == Init /\ [][Next]_vars

(* The idle hook is called over and over, and the USART gets to the end of *)
(* every text.                                                             *)
FairSpec == /\ Spec
            /\ WF_vars(IdleHook /\ UNCHANGED <<patient, noisy>>)
            /\ SF_vars(UD_Finish /\ UNCHANGED <<patient, noisy>>)

-----------------------------------------------------------------------------
(* Every variable has its type; the line and its terminator fit into the   *)
(* buffer.                                                                 *)
TypeOK ==
  /\ patient \in BOOLEAN /\ noisy \in BOOLEAN
  /\ turn \in {"UD", "INP", "CMDS"}
  /\ line \in Seq(Texts) /\ Len(line) <= SERO_SQENTRYS
  /\ seri_state \in {"GETCHARS", "WAITDONE"} /\ CmdDone \in BOOLEAN
  /\ seri_cnt \in 0 .. SERI_MAX_CHARS - 1 /\ first \in Letters
  /\ input_ready \in BOOLEAN /\ cmds_state \in {"WAITFORLINE", "MEMDUMP"}
  /\ count1 \in 0 .. ROWS /\ completion \in {0, 1} /\ mine \in BOOLEAN

(* The command works in the editor's buffer, whose address it was given:   *)
(* the editor does not take keys before the command is done with it.       *)
LineStable ==
  input_ready \/ cmds_state = "MEMDUMP" => seri_state = "WAITDONE" /\ ~CmdDone

(* When the operator waits for the output of one command before typing the *)
(* next, a dump prints a row when the one before it is out and no sooner.  *)
(* (Typed ahead, a second dump takes the end of the first one's last row,  *)
(* which shares the completion word, for that of its own first row.)       *)
RowByRow ==
  [][ patient /\ cmds_MD_Process /\ count1' # count1 => ~mine ]_vars

(* When besides nothing else prints, there is room for all that the        *)
(* console is about to print: UD_Send tosses nothing of it.                *)
RoomForAll == patient /\ ~noisy =>
  /\ turn = "INP" /\ seri_state = "WAITDONE" /\ CmdDone => Room >= 2
  /\ turn = "CMDS" /\ input_ready => Room >= IF first = "m" THEN ROW ELSE ATONCE
  /\ turn = "CMDS" /\ cmds_state = "MEMDUMP" /\ completion = 1 => Room >= ROW

(* The inductive invariant behind the four above.  With a patient operator *)
(* the line holds at most the end of the row that is waited for, and none  *)
(* before the first; when nothing else prints, that end is also its last   *)
(* text, so that the next row starts with an empty line.                   *)
RowEnds == {i \in 1 .. Len(line) : line[i] = "rowend"}

Rows ==
  /\ input_ready => cmds_state = "WAITFORLINE"
  /\ cmds_state = "MEMDUMP" => count1 < ROWS
  /\ patient /\ input_ready => RowEnds = {}
  /\ patient /\ cmds_state = "MEMDUMP" =>
       /\ completion = 1 => RowEnds = {} /\ ~mine
       /\ \A i, j \in RowEnds : i = j

Lengths == patient /\ ~noisy =>
  /\ input_ready => Len(line) <= 1
  /\ cmds_state = "MEMDUMP" =>
       IF completion = 1 THEN line = <<>> ELSE RowEnds = {Len(line)}
  /\ seri_state = "WAITDONE" /\ CmdDone => Len(line) + 2 <= SERO_SQENTRYS

IInv == TypeOK /\ LineStable /\ Rows /\ Lengths

(* Every line that was typed is answered with a new prompt, however much   *)
(* is tossed because the queue is full and whoever else prints, as long as *)
(* the tick prints between the calls of UD_Send only.  If it prints inside *)
(* one, a row's end can be lost from the count of items (Uart2_Outp.c:100) *)
(* and the line stay unanswered, which is Completes of UartOut with Racing.*)
Answered == seri_state = "WAITDONE" ~> seri_state = "GETCHARS"
=============================================================================
