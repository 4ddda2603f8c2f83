----------------------------- MODULE MCUartOut -----------------------------
(* Two strings and three values; the console waits for the completion of   *)
(* one of its jobs, as cmds_MD does.                                       *)
EXTENDS UartOut

CONSTANTS str1, str2, flag

Job(t, s, v, f) == [otype |-> t, sptr |-> s, dval |-> v, comp |-> f]
MC_TaskJobs == {Job("STR", str1, 0, flag), Job("ONECHAR", BUF, 2, NoFlag)}
MC_TickJobs == {Job("NUM", str2, 1, NoFlag)}
=============================================================================
