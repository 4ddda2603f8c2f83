---------------------------- MODULE LoopBack_proofs ----------------------------
(***************************************************************************)
(* Proofs about loop-backs byte by byte: for bytes of any number of values *)
(* and data of any length, what the checksum tells, that no receiver       *)
(* stores more than its buffer holds, that a changed byte is never taken   *)
(* for a packet, and that on an undisturbed line loop-backs succeed.       *)
(***************************************************************************)
EXTENDS LoopBack, WellFoundedInduction, TLAPS

USE DEF vars, framerVars, serialVars, hostVars, ghosts

-----------------------------------------------------------------------------
(* The checksum.  SumOf is defined by recursion over the length; that it   *)
(* is what its equation says needs induction, in the form that a set of    *)
(* numbers with 0 and all successors has them all.                         *)
LEMMA Induction ==
  ASSUME NEW S, 0 \in S, \A n \in Nat : n \in S => n + 1 \in S
  PROVE  \A n \in Nat : n \in S
<1> DEFINE T == Nat \ S
<1> SUFFICES ASSUME T # {} PROVE FALSE
  OBVIOUS
<1>1. PICK d \in T : \A e \in T : ~(<<e, d>> \in OpToRel(<, Nat))
  BY NatLessThanWellFounded, WFMin
<1>2. d \in Nat /\ d # 0
  OBVIOUS
<1>3. d - 1 \in Nat /\ d - 1 < d
  BY <1>2
<1>4. d - 1 \notin T
  BY <1>1, <1>2, <1>3 DEF OpToRel
<1>5. d - 1 + 1 \in S
  BY <1>3, <1>4
<1> QED BY <1>2, <1>5

LEMMA ByteIs ==
  BYTE \in Nat \ {0} /\ \A b \in Bytes : b \in Nat /\ b < BYTE
BY ByteAssumption DEF Bytes

(* Adding a byte modulo BYTE can be undone.                                *)
LEMMA Modulo ==
  ASSUME NEW u \in Bytes, NEW v \in Bytes, NEW c \in Bytes
  PROVE  /\ (u + c) % BYTE \in Bytes
         /\ (u + c) % BYTE = (v + c) % BYTE => u = v
         /\ (c + u) % BYTE = (c + v) % BYTE => u = v
         /\ (((u + c) % BYTE) + BYTE - c) % BYTE = u
<1>1. (u + c) % BYTE = IF u + c < BYTE THEN u + c ELSE u + c - BYTE
  BY ByteAssumption DEF Bytes
<1>2. (v + c) % BYTE = IF v + c < BYTE THEN v + c ELSE v + c - BYTE
  BY ByteAssumption DEF Bytes
<1>3. u = IF u + BYTE < BYTE THEN u + BYTE ELSE u + BYTE - BYTE
  BY ByteAssumption DEF Bytes
<1>4. u % BYTE = u /\ (u + BYTE) % BYTE = u
  BY ByteAssumption DEF Bytes
<1>5. \/ ((u + c) % BYTE) + BYTE - c = u
      \/ ((u + c) % BYTE) + BYTE - c = u + BYTE
  BY <1>1, ByteAssumption DEF Bytes
<1>6. (((u + c) % BYTE) + BYTE - c) % BYTE = u
  BY <1>4, <1>5
<1>7. (u + c) % BYTE \in Bytes
  BY <1>1, ByteAssumption DEF Bytes
<1>8. (u + c) % BYTE = (v + c) % BYTE => u = v
  BY <1>1, <1>2, ByteAssumption DEF Bytes
<1>9. c + u = u + c /\ c + v = v + c
  BY ByteAssumption DEF Bytes
<1> QED BY <1>6, <1>7, <1>8, <1>9

LEMMA Cancel ==
  \A u, v, c \in Bytes : /\ (u + c) % BYTE = (v + c) % BYTE => u = v
                         /\ (c + u) % BYTE = (c + v) % BYTE => u = v
<1> TAKE u, v, c \in Bytes
<1> QED BY Modulo

LEMMA SumIsByte == \A u, c \in Bytes : (u + c) % BYTE \in Bytes
<1> TAKE u, c \in Bytes
<1> QED BY Modulo

(* f holds the sums of the beginnings of s, up to n bytes.                 *)
Sums(f, s, n) ==
  /\ f \in [0 .. n -> Bytes] /\ f[0] = 0
  /\ \A m \in 1 .. n : f[m] = (f[m - 1] + s[m]) % BYTE

LEMMA SumsExist ==
  ASSUME NEW s \in Seq(Bytes)
  PROVE  \E f : Sums(f, s, Len(s))
<1> DEFINE Ok == {n \in Nat : n <= Len(s) => \E f : Sums(f, s, n)}
<1>1. 0 \in Ok
  <2>1. Sums([m \in 0 .. 0 |-> 0], s, 0)
    BY ByteAssumption DEF Sums, Bytes
  <2> QED BY <2>1
<1>2. ASSUME NEW n \in Nat, n \in Ok PROVE n + 1 \in Ok
  <2> SUFFICES ASSUME n + 1 <= Len(s) PROVE \E f : Sums(f, s, n + 1)
    OBVIOUS
  <2>1. PICK f : Sums(f, s, n)
    BY <1>2
  <2> DEFINE x == (f[n] + s[n + 1]) % BYTE
             g == [m \in 0 .. n + 1 |-> IF m = n + 1 THEN x ELSE f[m]]
  <2>2. f[n] \in Bytes /\ s[n + 1] \in Bytes
    BY <2>1 DEF Sums
  <2>3. x \in Bytes
    BY <2>2, SumIsByte, Zenon
  <2>4. g \in [0 .. n + 1 -> Bytes] /\ g[0] = 0
    BY <2>1, <2>3 DEF Sums
  <2>5. ASSUME NEW m \in 1 .. n + 1 PROVE g[m] = (g[m - 1] + s[m]) % BYTE
    <3>1. CASE m = n + 1
      BY <3>1
    <3>2. CASE m # n + 1
      <4>1. m \in 1 .. n /\ g[m] = f[m] /\ g[m - 1] = f[m - 1]
        BY <3>2
      <4> QED BY <4>1, <2>1 DEF Sums
    <3> QED BY <3>1, <3>2
  <2>6. Sums(g, s, n + 1)
    BY <2>4, <2>5 DEF Sums
  <2> QED BY <2>6
<1> HIDE DEF Ok
<1>3. Len(s) \in Ok
  BY <1>1, <1>2, Induction
<1> QED BY <1>3 DEF Ok

(* Which is how SumOf comes by its value.                                  *)
LEMMA SumOfIs ==
  ASSUME NEW s \in Seq(Bytes)
  PROVE  \E f : Sums(f, s, Len(s)) /\ SumOf(s) = f[Len(s)]
<1> DEFINE Eq(f) == f = [n \in 0 .. Len(s) |->
                          IF n = 0 THEN 0 ELSE (f[n - 1] + s[n]) % BYTE]
           c == CHOOSE f : Eq(f)
<1>1. PICK f : Sums(f, s, Len(s))
  BY SumsExist
<1>2. Eq(f)
  BY <1>1 DEF Sums
<1>3. Eq(c)
  <2> HIDE DEF Eq
  <2> QED BY <1>2
<1>4. SumOf(s) = c[Len(s)]
  BY DEF SumOf
<1> HIDE DEF c
<1>5. Len(s) \in Nat
  OBVIOUS
<1> DEFINE Ok == {n \in Nat : n <= Len(s) => c[n] \in Bytes}
<1>6. 0 \in Ok
  BY <1>3, ByteAssumption DEF Bytes
<1>7. ASSUME NEW n \in Nat, n \in Ok PROVE n + 1 \in Ok
  <2> SUFFICES ASSUME n + 1 <= Len(s) PROVE c[n + 1] \in Bytes
    OBVIOUS
  <2>1. c[n] \in Bytes /\ s[n + 1] \in Bytes
    BY <1>7
  <2>2. n + 1 \in 0 .. Len(s) /\ n + 1 # 0 /\ n + 1 - 1 = n
    BY <1>5
  <2>3. c[n + 1] = (c[n] + s[n + 1]) % BYTE
    BY <1>3, <2>2
  <2>4. (c[n] + s[n + 1]) % BYTE \in Bytes
    BY <2>1, SumIsByte, Zenon
  <2> QED BY <2>3, <2>4
<1>8. \A n \in Nat : n \in Ok
  <2> HIDE DEF Ok
  <2> QED BY <1>6, <1>7, Induction
<1>9. Sums(c, s, Len(s))
  <2>1. c \in [0 .. Len(s) -> Bytes]
    <3>1. \A n \in 0 .. Len(s) : c[n] \in Bytes
      BY <1>5, <1>8
    <3>2. c = [n \in 0 .. Len(s) |-> c[n]]
      BY <1>3
    <3> QED BY <3>1, <3>2
  <2>2. c[0] = 0
    BY <1>3, <1>5
  <2>3. ASSUME NEW m \in 1 .. Len(s) PROVE c[m] = (c[m - 1] + s[m]) % BYTE
    <3>1. m \in 0 .. Len(s) /\ m # 0
      BY <1>5
    <3> QED BY <1>3, <3>1
  <2> QED BY <2>1, <2>2, <2>3 DEF Sums
<1> QED BY <1>4, <1>9

(* Sums of the same bytes are the same.                                    *)
LEMMA SumsAgree ==
  ASSUME NEW s \in Seq(Bytes), NEW t \in Seq(Bytes), NEW f, NEW g,
         Sums(f, s, Len(s)), Sums(g, t, Len(t)),
         NEW n \in Nat, n <= Len(s), n <= Len(t),
         \A m \in 1 .. n : s[m] = t[m]
  PROVE  f[n] = g[n]
<1> DEFINE Ok == {l \in Nat : l <= n => f[l] = g[l]}
<1>1. 0 \in Ok
  BY DEF Sums
<1>2. ASSUME NEW l \in Nat, l \in Ok PROVE l + 1 \in Ok
  <2> SUFFICES ASSUME l + 1 <= n PROVE f[l + 1] = g[l + 1]
    OBVIOUS
  <2>1. /\ l + 1 \in 1 .. Len(s) /\ l + 1 \in 1 .. Len(t) /\ l + 1 - 1 = l
        /\ l + 1 \in 1 .. n
    OBVIOUS
  <2>2. /\ f[l + 1] = (f[l] + s[l + 1]) % BYTE
        /\ g[l + 1] = (g[l] + t[l + 1]) % BYTE
    BY <2>1 DEF Sums
  <2>3. f[l] = g[l] /\ s[l + 1] = t[l + 1]
    BY <1>2, <2>1
  <2> QED BY <2>2, <2>3
<1> HIDE DEF Ok
<1>3. n \in Ok
  BY <1>1, <1>2, Induction
<1> QED BY <1>3 DEF Ok

(* The sum of one byte more.                                               *)
LEMMA SumAppend ==
  ASSUME NEW s \in Seq(Bytes), NEW x \in Bytes
  PROVE  /\ SumOf(s) \in Bytes
         /\ SumOf(<<>>) = 0
         /\ SumOf(Append(s, x)) = (SumOf(s) + x) % BYTE
<1> DEFINE t == Append(s, x)
<1>1. PICK f : Sums(f, s, Len(s)) /\ SumOf(s) = f[Len(s)]
  BY SumOfIs
<1>2. t \in Seq(Bytes) /\ Len(t) = Len(s) + 1 /\ t[Len(s) + 1] = x
      /\ \A m \in 1 .. Len(s) : s[m] = t[m]
  OBVIOUS
<1>3. PICK g : Sums(g, t, Len(t)) /\ SumOf(t) = g[Len(t)]
  BY <1>2, SumOfIs
<1>4. Len(s) \in Nat /\ Len(s) <= Len(s) /\ Len(s) <= Len(t)
  BY <1>2
<1> HIDE DEF t
<1>5. f[Len(s)] = g[Len(s)]
  BY <1>1, <1>2, <1>3, <1>4, SumsAgree
<1>6. g[Len(s) + 1] = (g[Len(s)] + x) % BYTE
  <2>1. Len(s) + 1 \in 1 .. Len(t) /\ Len(s) + 1 - 1 = Len(s)
    BY <1>2, <1>4
  <2> QED BY <1>2, <1>3, <2>1 DEF Sums
<1>7. SumOf(s) \in Bytes
  BY <1>1, <1>4 DEF Sums
<1>8. SumOf(<<>>) = 0
  <2>1. <<>> \in Seq(Bytes) /\ Len(<<>>) = 0
    OBVIOUS
  <2>2. PICK h : Sums(h, <<>>, 0) /\ SumOf(<<>>) = h[0]
    BY <2>1, SumOfIs
  <2> QED BY <2>2 DEF Sums
<1> QED BY <1>1, <1>2, <1>3, <1>5, <1>6, <1>7, <1>8 DEF t

(* The checksum tells two packets of the same length apart that differ in  *)
(* one byte, whatever the number of values of a byte.                      *)
THEOREM OneChangeIsSeen ==
  ASSUME NEW s \in Seq(Bytes), NEW t \in Seq(Bytes), Len(s) = Len(t),
         NEW j \in 1 .. Len(s), s[j] # t[j],
         \A m \in 1 .. Len(s) : m # j => s[m] = t[m]
  PROVE  SumOf(s) # SumOf(t)
<1>1. PICK f : Sums(f, s, Len(s)) /\ SumOf(s) = f[Len(s)]
  BY SumOfIs
<1>2. PICK g : Sums(g, t, Len(t)) /\ SumOf(t) = g[Len(t)]
  BY SumOfIs
<1>3. Len(s) \in Nat /\ j - 1 \in Nat /\ j - 1 <= Len(s)
  OBVIOUS
<1>4. \A m \in 1 .. j - 1 : s[m] = t[m]
  BY <1>3
<1>5. f[j - 1] = g[j - 1]
  BY <1>1, <1>2, <1>3, <1>4, SumsAgree
<1> DEFINE Ok == {n \in Nat : j + n <= Len(s) => f[j + n] # g[j + n]}
<1>6. ASSUME NEW m \in 1 .. Len(s)
      PROVE  /\ f[m] = (f[m - 1] + s[m]) % BYTE /\ g[m] = (g[m - 1] + t[m]) % BYTE
             /\ f[m - 1] \in Bytes /\ g[m - 1] \in Bytes
             /\ s[m] \in Bytes /\ t[m] \in Bytes
  <2>1. m - 1 \in 0 .. Len(s) /\ m \in 1 .. Len(t)
    BY <1>3
  <2>2. f[m] = (f[m - 1] + s[m]) % BYTE /\ f[m - 1] \in Bytes
    BY <1>1, <2>1 DEF Sums
  <2>3. g[m] = (g[m - 1] + t[m]) % BYTE /\ g[m - 1] \in Bytes
    BY <1>2, <2>1 DEF Sums
  <2>4. s[m] \in Bytes /\ t[m] \in Bytes
    BY <2>1
  <2> QED BY <2>2, <2>3, <2>4
<1>7. 0 \in Ok
  <2>1. f[j] # g[j]
    <3>1. f[j - 1] \in Bytes /\ s[j] \in Bytes /\ t[j] \in Bytes
      BY <1>6
    <3>2. (f[j - 1] + s[j]) % BYTE = (f[j - 1] + t[j]) % BYTE => s[j] = t[j]
      BY <3>1, Cancel, Zenon
    <3> QED BY <3>2, <1>5, <1>6
  <2> QED BY <2>1, <1>3
<1>8. ASSUME NEW n \in Nat, n \in Ok PROVE n + 1 \in Ok
  <2> SUFFICES ASSUME j + (n + 1) <= Len(s) PROVE f[j + (n + 1)] # g[j + (n + 1)]
    OBVIOUS
  <2> DEFINE m == j + (n + 1)
  <2>1. m \in 1 .. Len(s) /\ m # j /\ m - 1 = j + n
    BY <1>3
  <2>2. f[m - 1] # g[m - 1] /\ s[m] = t[m]
    BY <1>8, <2>1
  <2> HIDE DEF m
  <2>3. f[m] # g[m]
    <3>1. f[m - 1] \in Bytes /\ g[m - 1] \in Bytes /\ s[m] \in Bytes
      BY <1>6, <2>1
    <3> DEFINE u == f[m - 1]
               v == g[m - 1]
               c == s[m]
    <3>2. (u + c) % BYTE = (v + c) % BYTE => u = v
      <4> HIDE DEF u, v, c
      <4> QED BY <3>1, Cancel DEF u, v, c
    <3> QED BY <3>2, <1>6, <2>1, <2>2
  <2> QED BY <2>3 DEF m
<1> HIDE DEF Ok
<1>9. Len(s) - j \in Nat /\ j + (Len(s) - j) = Len(s)
  BY <1>3
<1>10. Len(s) - j \in Ok
  BY <1>7, <1>8, <1>9, Induction
<1> QED BY <1>1, <1>2, <1>3, <1>9, <1>10 DEF Ok

-----------------------------------------------------------------------------
(* The types of the Controls' driver, of the host's receiver and of the    *)
(* rest, each with what it rests on.                                       *)
FramerOK ==
  /\ toCtrl \in Seq(Bytes)
  /\ DR \in {<<>>} \union {<<b>> : b \in Bytes}
  /\ rdrv \in {"LOOKING_FOR_AB", "LOOKING_FOR_5F", "GET_SEQN", "GET_LEN",
               "WAIT_THEN_GO", "WAITCOMPLETE"}
  /\ at \in {"OUT", "LOOKING_FOR_AB", "LOOKING_FOR_5F", "GET_SEQN", "GET_LEN",
             "WAIT_THEN_GO", "WAITCOMPLETE"}
  /\ during \in BOOLEAN
  /\ bufbase \in Seq(Bytes)
  /\ rdrv = "WAIT_THEN_GO" => Len(bufbase) = 1
  /\ rdrv = "WAITCOMPLETE" => Len(bufbase) \in 2 .. bufbase[1] + 3
  /\ at = "WAIT_THEN_GO" => rdrv = "WAIT_THEN_GO"
  /\ packet \in Seq(Bytes) /\ Len(packet) <= BYTE

SerialOK ==
  /\ toHost \in Seq(Bytes)
  /\ rx \in {"HUNT", "START2", "TAG", "LEN", "CMD", "DATA"}
  /\ dbuf \in [0 .. BYTE + 1 -> Bytes]
  /\ i \in 0 .. BYTE + 2 /\ k \in 0 .. BYTE /\ Lcsum \in Bytes /\ Tch \in Bytes
  /\ rx = "DATA" => i \in 2 .. k + 2 /\ k <= dbuf[0] + 1
  /\ published \in Seq(Bytes)

LoopOK ==
  /\ host \in {"IDLE", "WAIT"} /\ req \in Datas \union {<<>>}
  /\ faults \in 0 .. MaxFaults /\ damage \in {"NONE", "BYTE", "MORE"}
  /\ done \in BOOLEAN

Typed == FramerOK /\ SerialOK /\ LoopOK

(* A frame around the data that the host sent last, as far as it has       *)
(* arrived and as it will: undamaged, or with a checksum that is wrong.    *)
Csum(h) == SumOf(SubSeq(h, 4, Len(h) - 1))
Arriving(h, start1, start2) ==
  /\ Len(h) = Len(req) + 6
  /\ h[1] = start1 /\ h[2] = start2 /\ h[4] = Len(req)
  /\ damage = "NONE" => /\ h[Len(h)] = Csum(h) /\ h[5] = DLOOP
                        /\ \A n \in 1 .. Len(req) : h[n + 5] = req[n]
  /\ damage # "NONE" => h[Len(h)] # Csum(h)

(* The driver has read, or had the DMA read, c bytes of it.                *)
DriverAt(h, c) ==
  /\ \/ DR = <<>> /\ toCtrl = SubSeq(h, c + 1, Len(h))
     \/ /\ c < 5 /\ DR = <<h[c + 1]>>
        /\ toCtrl = SubSeq(h, c + 2, Len(h))
  /\ at \in {"OUT", rdrv}
  /\ c = 0 => rdrv = "LOOKING_FOR_AB"
  /\ c = 1 => rdrv = "LOOKING_FOR_5F"
  /\ c = 2 => rdrv = "GET_SEQN"
  /\ c = 3 => rdrv = "GET_LEN"
  /\ c = 4 => rdrv = "WAIT_THEN_GO" /\ bufbase = <<h[4]>>
  /\ c > 4 => rdrv = "WAITCOMPLETE" /\ bufbase = SubSeq(h, 4, c)

(* The host has read p bytes of it.                                        *)
HostAt(h, p) ==
  /\ toHost = SubSeq(h, p + 1, Len(h))
  /\ p = 0 => rx = "HUNT"
  /\ p = 1 => rx = "START2"
  /\ p = 2 => rx = "TAG"
  /\ p = 3 => rx = "LEN"
  /\ p = 4 => rx = "CMD" /\ dbuf[0] = h[4]
  /\ p > 4 => /\ rx = "DATA" /\ i = p - 3 /\ k = p - 5
              /\ \A n \in 0 .. p - 4 : dbuf[n] = h[n + 4]
              /\ Lcsum = SumOf(SubSeq(h, 4, p))
  /\ p > 5 => Tch = h[p]

(* Where a loop-back stands, as long as no more than one byte of it has    *)
(* been changed.                                                           *)
CtrlIdle == /\ toCtrl = <<>> /\ DR = <<>> /\ rdrv = "LOOKING_FOR_AB" /\ at = "OUT"
HostIdle == toHost = <<>> /\ rx = "HUNT"

Quiet      == /\ CtrlIdle /\ HostIdle /\ packet = None /\ published = None
              /\ host = "WAIT" => damage = "BYTE"
ToControls == /\ host = "WAIT" /\ HostIdle /\ packet = None /\ published = None
              /\ \E h \in Seq(Bytes) : /\ Arriving(h, AB, F5)
                                       /\ \E c \in 0 .. Len(h) : DriverAt(h, c)
AtControls == /\ host = "WAIT" /\ damage = "NONE" /\ CtrlIdle /\ HostIdle
              /\ packet = <<DLOOP>> \o req /\ published = None
ToHost     == /\ host = "WAIT" /\ CtrlIdle /\ packet = None /\ published = None
              /\ \E h \in Seq(Bytes) : /\ Arriving(h, CC, F57)
                                       /\ \E p \in 0 .. Len(h) : HostAt(h, p)
AtHost     == /\ host = "WAIT" /\ damage = "NONE" /\ CtrlIdle /\ HostIdle
              /\ packet = None /\ published = <<DLOOP>> \o req

Progress == \/ damage = "MORE"
            \/ Quiet \/ ToControls \/ AtControls \/ ToHost \/ AtHost

-----------------------------------------------------------------------------
(* Sequences of bytes.                                                     *)
LEMMA Rest ==
  ASSUME NEW S, NEW h \in Seq(S), NEW n \in 0 .. Len(h)
  PROVE  /\ SubSeq(h, n + 1, Len(h)) \in Seq(S)
         /\ Len(SubSeq(h, n + 1, Len(h))) = Len(h) - n
         /\ n = Len(h) <=> SubSeq(h, n + 1, Len(h)) = <<>>
         /\ n < Len(h) => /\ Head(SubSeq(h, n + 1, Len(h))) = h[n + 1]
                          /\ Tail(SubSeq(h, n + 1, Len(h))) = SubSeq(h, n + 2, Len(h))
OBVIOUS

LEMMA Part ==
  ASSUME NEW S, NEW h \in Seq(S), NEW a \in Nat \ {0}, NEW b \in Nat, b <= Len(h), a <= b + 1
  PROVE  /\ SubSeq(h, a, b) \in Seq(S)
         /\ Len(SubSeq(h, a, b)) = b - a + 1
         /\ \A n \in 1 .. b - a + 1 : SubSeq(h, a, b)[n] = h[a + n - 1]
OBVIOUS

LEMMA SameSeq ==
  ASSUME NEW S, NEW s \in Seq(S), NEW t \in Seq(S), Len(s) = Len(t),
         \A n \in 1 .. Len(s) : s[n] = t[n]
  PROVE  s = t
OBVIOUS

LEMMA AppendIs ==
  ASSUME NEW S, NEW s \in Seq(S), NEW x \in S
  PROVE  /\ s \o <<x>> = Append(s, x)
         /\ s \o <<x>> \in Seq(S) /\ Len(s \o <<x>>) = Len(s) + 1
         /\ (s \o <<x>>)[Len(s) + 1] = x
         /\ \A n \in 1 .. Len(s) : (s \o <<x>>)[n] = s[n]
<1>1. s \o <<x>> \in Seq(S) /\ Append(s, x) \in Seq(S)
  OBVIOUS
<1>2. Len(s \o <<x>>) = Len(s) + 1 /\ Len(Append(s, x)) = Len(s) + 1
  OBVIOUS
<1>3. ASSUME NEW n \in 1 .. Len(s) + 1
      PROVE  /\ (s \o <<x>>)[n] = IF n = Len(s) + 1 THEN x ELSE s[n]
             /\ Append(s, x)[n] = IF n = Len(s) + 1 THEN x ELSE s[n]
  OBVIOUS
<1>4. s \o <<x>> = Append(s, x)
  BY <1>1, <1>2, <1>3, SameSeq
<1> QED BY <1>1, <1>2, <1>3, <1>4

LEMMA Grow ==
  ASSUME NEW S, NEW h \in Seq(S), NEW b \in Nat, 4 <= b, b < Len(h)
  PROVE  /\ Append(SubSeq(h, 4, b), h[b + 1]) = SubSeq(h, 4, b + 1)
         /\ SubSeq(h, 4, b) \o <<h[b + 1]>> = SubSeq(h, 4, b + 1)
         /\ SubSeq(h, 4, 4) = <<h[4]>>
<1> DEFINE s == SubSeq(h, 4, b)
           t == SubSeq(h, 4, b + 1)
           x == h[b + 1]
<1>1. /\ s \in Seq(S) /\ Len(s) = b - 3 /\ \A n \in 1 .. b - 3 : s[n] = h[n + 3]
      /\ t \in Seq(S) /\ Len(t) = b - 2 /\ \A n \in 1 .. b - 2 : t[n] = h[n + 3]
      /\ x \in S
  OBVIOUS
<1>2. t[b - 2] = x
  BY <1>1
<1> HIDE DEF s, t, x
<1>3. /\ Append(s, x) \in Seq(S) /\ Len(Append(s, x)) = b - 2
      /\ \A n \in 1 .. b - 2 : Append(s, x)[n] = t[n]
  <2>1. /\ s \o <<x>> = Append(s, x)
        /\ s \o <<x>> \in Seq(S) /\ Len(s \o <<x>>) = Len(s) + 1
        /\ (s \o <<x>>)[Len(s) + 1] = x
        /\ \A n \in 1 .. Len(s) : (s \o <<x>>)[n] = s[n]
    BY <1>1, AppendIs
  <2> DEFINE u == Append(s, x)
  <2>2. /\ u \in Seq(S) /\ Len(u) = Len(s) + 1 /\ u[Len(s) + 1] = x
        /\ \A n \in 1 .. Len(s) : u[n] = s[n]
    BY <2>1, Zenon
  <2> HIDE DEF u
  <2>3. ASSUME NEW n \in 1 .. b - 2 PROVE u[n] = t[n]
    <3>1. CASE n = b - 2
      <4>1. n = Len(s) + 1
        BY <3>1, <1>1
      <4> QED BY <4>1, <3>1, <2>2, <1>2
    <3>2. CASE n # b - 2
      <4>1. n \in 1 .. Len(s) /\ n \in 1 .. b - 3
        BY <3>2, <1>1
      <4> QED BY <4>1, <2>2, <1>1
    <3> QED BY <3>1, <3>2
  <2>4. Len(u) = b - 2
    BY <1>1, <2>2
  <2> QED BY <2>2, <2>3, <2>4 DEF u
<1>4. Append(s, x) = t
  BY <1>1, <1>3, SameSeq
<1>5. s \o <<x>> = Append(s, x)
  BY <1>1, AppendIs
<1>6. SubSeq(h, 4, 4) = <<h[4]>>
  <2>1. SubSeq(h, 4, 4) \in Seq(S) /\ Len(SubSeq(h, 4, 4)) = 1 /\ SubSeq(h, 4, 4)[1] = h[4]
        /\ h[4] \in S
    OBVIOUS
  <2>2. <<h[4]>> \in Seq(S) /\ Len(<<h[4]>>) = 1 /\ <<h[4]>>[1] = h[4]
    BY <2>1
  <2>3. \A n \in 1 .. 1 : SubSeq(h, 4, 4)[n] = <<h[4]>>[n]
    BY <2>1, <2>2
  <2> QED BY <2>1, <2>2, <2>3, SameSeq
<1> QED BY <1>4, <1>5, <1>6 DEF s, t, x

LEMMA Concat ==
  ASSUME NEW S, NEW s \in Seq(S), NEW t \in Seq(S)
  PROVE  /\ s \o t \in Seq(S) /\ Len(s \o t) = Len(s) + Len(t)
         /\ \A n \in 1 .. Len(s) : (s \o t)[n] = s[n]
         /\ \A n \in 1 .. Len(t) : (s \o t)[Len(s) + n] = t[n]
OBVIOUS

(* What a frame around data is made of.                                    *)
IsFrame(h, start1, start2, d) ==
  /\ h \in Seq(Bytes) /\ Len(h) = Len(d) + 6
  /\ h[1] = start1 /\ h[2] = start2 /\ h[4] = Len(d) /\ h[5] = DLOOP
  /\ \A n \in 1 .. Len(d) : h[n + 5] = d[n]
  /\ h[Len(h)] = Csum(h)

Parts(h, start, s, x) ==
  /\ h \in Seq(Bytes) /\ Len(h) = Len(s) + 4
  /\ h[1] = start[1] /\ h[2] = start[2]
  /\ \A n \in 1 .. Len(s) : h[n + 3] = s[n]
  /\ h[Len(s) + 4] = x

LEMMA FrameParts ==
  ASSUME NEW start \in Seq(Bytes), NEW s \in Seq(Bytes), NEW x \in Bytes
  PROVE  Len(start) = 3 => Parts(start \o s \o <<x>>, start, s, x)
<1> DEFINE t == start \o s
<1>1. /\ t \in Seq(Bytes) /\ Len(t) = Len(start) + Len(s)
      /\ \A n \in 1 .. Len(start) : t[n] = start[n]
      /\ \A n \in 1 .. Len(s) : t[Len(start) + n] = s[n]
  BY Concat
<1> HIDE DEF t
<1> DEFINE h == t \o <<x>>
<1>2. /\ h \in Seq(Bytes) /\ Len(h) = Len(t) + 1 /\ h[Len(t) + 1] = x
      /\ \A n \in 1 .. Len(t) : h[n] = t[n]
  BY <1>1, AppendIs
<1>3. h = start \o s \o <<x>>
  BY DEF t
<1> HIDE DEF h
<1> SUFFICES ASSUME Len(start) = 3 PROVE Parts(h, start, s, x)
  BY <1>3
<1>4. Len(s) \in Nat /\ Len(t) = Len(s) + 3 /\ Len(h) = Len(s) + 4
  BY <1>1, <1>2
<1>5. h[1] = start[1] /\ h[2] = start[2]
  BY <1>1, <1>2, <1>4
<1>6. ASSUME NEW n \in 1 .. Len(s) PROVE h[n + 3] = s[n]
  <2>1. n + 3 \in 1 .. Len(t) /\ n + 3 = Len(start) + n
    BY <1>4
  <2> QED BY <2>1, <1>1, <1>2
<1>7. h[Len(s) + 4] = x
  BY <1>2, <1>4
<1> QED BY <1>2, <1>4, <1>5, <1>6, <1>7 DEF Parts

LEMMA FrameIs ==
  ASSUME NEW d \in Seq(Bytes), NEW start, NEW h, NEW s \in Seq(Bytes),
         Len(s) = Len(d) + 2, s[1] = Len(d), s[2] = DLOOP,
         \A n \in 1 .. Len(d) : s[n + 2] = d[n],
         Parts(h, start, s, SumOf(s))
  PROVE  IsFrame(h, start[1], start[2], d)
<1> USE DEF Parts
<1>1. Len(d) \in Nat /\ h \in Seq(Bytes) /\ Len(h) = Len(d) + 6
  OBVIOUS
<1>2. \A n \in 4 .. Len(s) + 3 : h[n] = s[n - 3]
  <2> TAKE n \in 4 .. Len(s) + 3
  <2>1. n - 3 \in 1 .. Len(s) /\ n - 3 + 3 = n
    BY <1>1
  <2> QED BY <2>1
<1>3. h[4] = Len(d) /\ h[5] = DLOOP
  BY <1>1, <1>2
<1>4. ASSUME NEW n \in 1 .. Len(d) PROVE h[n + 5] = d[n]
  <2>1. n + 5 \in 4 .. Len(s) + 3 /\ n + 5 - 3 = n + 2
    BY <1>1
  <2>2. h[n + 5] = s[n + 5 - 3]
    BY <2>1, <1>2
  <2>3. s[n + 2] = d[n]
    OBVIOUS
  <2> QED BY <2>1, <2>2, <2>3
<1>5. SubSeq(h, 4, Len(h) - 1) = s
  <2> DEFINE e == Len(h) - 1
  <2>1. e \in Nat /\ e <= Len(h) /\ 4 <= e + 1 /\ e - 4 + 1 = Len(s)
    BY <1>1
  <2> HIDE DEF e
  <2>2. /\ SubSeq(h, 4, e) \in Seq(Bytes) /\ Len(SubSeq(h, 4, e)) = e - 4 + 1
        /\ \A n \in 1 .. e - 4 + 1 : SubSeq(h, 4, e)[n] = h[4 + n - 1]
    BY <1>1, <2>1, Part
  <2>3. ASSUME NEW n \in 1 .. Len(s) PROVE SubSeq(h, 4, e)[n] = s[n]
    <3>1. SubSeq(h, 4, e)[n] = h[4 + n - 1] /\ 4 + n - 1 = n + 3
      BY <1>1, <2>1, <2>2
    <3> QED BY <3>1
  <2>4. SubSeq(h, 4, e) = s
    BY <2>1, <2>2, <2>3, SameSeq
  <2> QED BY <2>4 DEF e
<1>6. h[Len(h)] = Csum(h)
  BY <1>1, <1>5 DEF Csum
<1> QED BY <1>1, <1>3, <1>4, <1>6 DEF IsFrame

LEMMA SummedIs ==
  ASSUME NEW d \in Seq(Bytes), Len(d) < BYTE, NEW s, s = Summed(DLOOP, d)
  PROVE  /\ s \in Seq(Bytes) /\ Len(s) = Len(d) + 2 /\ s[1] = Len(d) /\ s[2] = DLOOP
         /\ \A n \in 1 .. Len(d) : s[n + 2] = d[n]
         /\ SumOf(s) \in Bytes
<1>1. Len(d) \in Bytes /\ 0 \in Bytes
  BY ByteAssumption DEF Bytes
<1>2. /\ s \in Seq(Bytes) /\ Len(s) = Len(d) + 2
      /\ s[1] = Len(d) /\ s[2] = DLOOP /\ \A n \in 1 .. Len(d) : s[n + 2] = d[n]
  BY <1>1, LoopAssumption DEF Summed
<1> QED BY <1>1, <1>2, SumAppend

-----------------------------------------------------------------------------
(* Types.  First the frames that both sides send.                          *)
LEMMA HostFrameIs ==
  ASSUME NEW d \in Seq(Bytes), Len(d) < BYTE, NEW seqn \in Bytes
  PROVE  IsFrame(HostFrame(seqn, DLOOP, d), AB, F5, d)
<1> DEFINE start == <<AB, F5, seqn>>
           s == Summed(DLOOP, d)
           h == HostFrame(seqn, DLOOP, d)
<1>1. start \in Seq(Bytes) /\ Len(start) = 3 /\ start[1] = AB /\ start[2] = F5
  BY ByteAssumption DEF Bytes
<1>2. h = start \o s \o <<SumOf(s)>>
  BY DEF HostFrame
<1>3. /\ s \in Seq(Bytes) /\ Len(s) = Len(d) + 2 /\ s[1] = Len(d) /\ s[2] = DLOOP
      /\ \A n \in 1 .. Len(d) : s[n + 2] = d[n]
      /\ SumOf(s) \in Bytes
  BY SummedIs
<1> HIDE DEF start, s, h
<1>4. Parts(h, start, s, SumOf(s))
  BY <1>1, <1>2, <1>3, FrameParts
<1>5. IsFrame(h, start[1], start[2], d)
  BY <1>3, <1>4, FrameIs
<1> QED BY <1>1, <1>5 DEF h

LEMMA ControlsFrameIs ==
  ASSUME NEW d \in Seq(Bytes), Len(d) < BYTE, NEW seqn \in Bytes
  PROVE  IsFrame(ControlsFrame(seqn, DLOOP, d), CC, F57, d)
<1> DEFINE start == <<CC, F57, seqn>>
           s == Summed(DLOOP, d)
           h == ControlsFrame(seqn, DLOOP, d)
<1>1. start \in Seq(Bytes) /\ Len(start) = 3 /\ start[1] = CC /\ start[2] = F57
  BY ByteAssumption DEF Bytes
<1>2. h = start \o s \o <<SumOf(s)>>
  BY DEF ControlsFrame
<1>3. /\ s \in Seq(Bytes) /\ Len(s) = Len(d) + 2 /\ s[1] = Len(d) /\ s[2] = DLOOP
      /\ \A n \in 1 .. Len(d) : s[n + 2] = d[n]
      /\ SumOf(s) \in Bytes
  BY SummedIs
<1> HIDE DEF start, s, h
<1>4. Parts(h, start, s, SumOf(s))
  BY <1>1, <1>2, <1>3, FrameParts
<1>5. IsFrame(h, start[1], start[2], d)
  BY <1>3, <1>4, FrameIs
<1> QED BY <1>1, <1>5 DEF h

LEMMA DataIs ==
  ASSUME NEW d \in Datas
  PROVE  d \in Seq(Bytes) /\ Len(d) < BYTE
BY LoopAssumption, ByteAssumption

LEMMA InitTyped == Init => Typed
<1> SUFFICES ASSUME Init PROVE Typed
  OBVIOUS
<1>1. 0 \in Bytes /\ <<>> \in Seq(Bytes) /\ Len(<<>>) = 0 /\ BYTE \in Nat /\ MaxFaults \in Nat
  BY ByteAssumption, LoopAssumption DEF Bytes
<1>2. FramerOK
  <2>1. DR \in {<<>>} \union {<<b>> : b \in Bytes}
    BY DEF Init, RF_Init, RF_Reset
  <2>2. toCtrl \in Seq(Bytes) /\ bufbase \in Seq(Bytes) /\ packet \in Seq(Bytes)
    BY <1>1 DEF Init, RF_Init, RF_Reset, None
  <2>3. rdrv = "LOOKING_FOR_AB" /\ at = "OUT" /\ during \in BOOLEAN /\ packet = <<>>
    BY DEF Init, RF_Init, RF_Reset, None
  <2>4. Len(packet) <= BYTE
    BY <1>1, <2>3
  <2> QED BY <2>1, <2>2, <2>3, <2>4 DEF FramerOK
<1>3. SerialOK
  BY <1>1 DEF Init, SR_Init, SerialOK, None
<1>4. LoopOK
  <2>1. req \in Datas \union {<<>>}
    BY DEF Init
  <2>2. faults \in 0 .. MaxFaults
    BY <1>1 DEF Init
  <2>3. damage \in {"NONE", "BYTE", "MORE"} /\ host \in {"IDLE", "WAIT"}
    BY DEF Init
  <2>4. done \in BOOLEAN
    BY DEF Init
  <2> QED BY <2>1, <2>2, <2>3, <2>4 DEF LoopOK
<1> QED BY <1>2, <1>3, <1>4 DEF Typed

(* A byte read off the front of a sequence.                                *)
LEMMA FrontByte ==
  ASSUME NEW q \in Seq(Bytes), q # <<>>
  PROVE  Head(q) \in Bytes /\ Tail(q) \in Seq(Bytes) /\ Len(Tail(q)) = Len(q) - 1
OBVIOUS

LEMMA FramerStep ==
  ASSUME FramerOK, RecvDriver \/ Line_Byte
  PROVE  FramerOK'
<1> USE ByteAssumption DEF FramerOK
<1>1. CASE PacketRecvDriver_Process
  BY <1>1 DEF PacketRecvDriver_Process
<1>2. CASE Return
  BY <1>2 DEF Return
<1>3. CASE LookingForAB \/ LookingFor5F \/ GetSeqn
  <2>1. /\ at' \in {"LOOKING_FOR_5F", "GET_SEQN", "GET_LEN"} /\ DR' = <<>>
        /\ UNCHANGED <<toCtrl, during, packet, bufbase>>
        /\ rdrv' \in {rdrv, "LOOKING_FOR_5F", "LOOKING_FOR_AB", "GET_SEQN", "GET_LEN"}
    BY <1>3 DEF LookingForAB, LookingFor5F, GetSeqn, Case
  <2> QED BY <2>1
<1>4. CASE GetLen
  <2>1. PICK b \in Bytes : DR = <<b>>
    BY <1>4 DEF GetLen, Case
  <2>2. /\ bufbase' = <<b>> /\ rdrv' = "WAIT_THEN_GO" /\ at' = "WAIT_THEN_GO"
        /\ DR' = <<>> /\ UNCHANGED <<toCtrl, during, packet>>
    BY <1>4, <2>1 DEF GetLen, Case
  <2> QED BY <2>2
<1>5. CASE WaitThenGo
  <2>1. PICK b \in Bytes : DR = <<b>>
    BY <1>5 DEF WaitThenGo, Case
  <2>2. /\ bufbase' = bufbase \o <<b>> /\ Len(bufbase) = 1
        /\ rdrv' = "WAITCOMPLETE" /\ at' = "WAITCOMPLETE" /\ DR' = <<>>
        /\ UNCHANGED <<toCtrl, during, packet>>
    BY <1>5, <2>1 DEF WaitThenGo, Case
  <2>3. /\ bufbase' \in Seq(Bytes) /\ Len(bufbase') = 2 /\ bufbase'[1] = bufbase[1]
        /\ bufbase[1] \in Bytes
    <3>1. /\ bufbase \o <<b>> \in Seq(Bytes) /\ Len(bufbase \o <<b>>) = Len(bufbase) + 1
          /\ \A n \in 1 .. Len(bufbase) : (bufbase \o <<b>>)[n] = bufbase[n]
      BY AppendIs
    <3>2. 1 \in 1 .. Len(bufbase) /\ Len(bufbase) = 1
      BY <2>2
    <3> QED BY <2>2, <3>1, <3>2
  <2>4. Len(bufbase') \in 2 .. bufbase'[1] + 3
    BY <2>3 DEF Bytes
  <2> QED BY <2>2, <2>3, <2>4
<1>6. CASE WaitComplete
  <2>1. /\ at' = "OUT" /\ during' = FALSE /\ UNCHANGED <<toCtrl, DR>>
    BY <1>6 DEF WaitComplete, Complete
  <2>2. CASE DmaDone
    <3>1. /\ rdrv' = "LOOKING_FOR_AB" /\ bufbase' = <<>>
          /\ packet' = None \/ packet' = SubSeq(bufbase, 2, bufbase[1] + 2)
      BY <1>6, <2>2 DEF WaitComplete, Complete
    <3>2. bufbase[1] \in Bytes /\ Len(bufbase) = bufbase[1] + 3
      BY <2>2 DEF DmaDone
    <3>3. /\ SubSeq(bufbase, 2, bufbase[1] + 2) \in Seq(Bytes)
          /\ Len(SubSeq(bufbase, 2, bufbase[1] + 2)) = bufbase[1] + 1
      <4> DEFINE l == bufbase[1]
      <4>1. l \in Nat /\ Len(bufbase) = l + 3
        <5>1. l \in Nat
          BY <3>2, ByteIs, Zenon
        <5>2. Len(bufbase) = l + 3
          BY <3>2, Zenon
        <5> QED BY <5>1, <5>2
      <4> HIDE DEF l
      <4> DEFINE b == l + 2
      <4>2. /\ b \in Nat /\ b <= Len(bufbase) /\ 2 <= b + 1 /\ b - 2 + 1 = l + 1
            /\ 2 \in Nat \ {0}
        BY <4>1
      <4>3. bufbase \in Seq(Bytes)
        OBVIOUS
      <4> HIDE DEF b
      <4>4. SubSeq(bufbase, 2, b) \in Seq(Bytes) /\ Len(SubSeq(bufbase, 2, b)) = b - 2 + 1
        BY <4>2, <4>3, Part
      <4>5. SubSeq(bufbase, 2, b) \in Seq(Bytes) /\ Len(SubSeq(bufbase, 2, b)) = l + 1
        BY <4>2, <4>4
      <4> QED BY <4>5 DEF b, l
    <3>4. bufbase[1] + 1 <= BYTE
      BY <3>2 DEF Bytes
    <3>5. packet' \in Seq(Bytes) /\ Len(packet') <= BYTE
      <4>1. CASE packet' = None
        BY <4>1 DEF None
      <4>2. CASE packet' = SubSeq(bufbase, 2, bufbase[1] + 2)
        BY <4>2, <3>3, <3>4
      <4> QED BY <3>1, <4>1, <4>2
    <3>6. bufbase' \in Seq(Bytes)
      BY <3>1
    <3> QED BY <2>1, <3>1, <3>5, <3>6
  <2>3. CASE ~DmaDone
    BY <1>6, <2>1, <2>3 DEF WaitComplete, Complete
  <2> QED BY <2>2, <2>3
<1>7. CASE Line_Byte
  <2>1. /\ toCtrl # <<>> /\ toCtrl' = Tail(toCtrl) /\ UNCHANGED <<rdrv, at, packet>>
        /\ during' \in BOOLEAN
    BY <1>7 DEF Line_Byte
  <2>2. Head(toCtrl) \in Bytes /\ toCtrl' \in Seq(Bytes)
    BY <2>1, FrontByte
  <2>3. CASE DmaActive
    <3>1. bufbase' = Append(bufbase, Head(toCtrl)) /\ UNCHANGED DR
      BY <1>7, <2>3 DEF Line_Byte
    <3>2. /\ rdrv = "WAITCOMPLETE" /\ Len(bufbase) # bufbase[1] + 3
          /\ bufbase[1] \in Bytes
      BY <2>3 DEF DmaActive, DmaDone
    <3>3. /\ bufbase' \in Seq(Bytes) /\ Len(bufbase') = Len(bufbase) + 1
          /\ bufbase'[1] = bufbase[1]
      BY <2>2, <3>1, <3>2
    <3>4. Len(bufbase') \in 2 .. bufbase'[1] + 3
      <4>1. Len(bufbase) \in 2 .. bufbase[1] + 3
        BY <3>2
      <4>2. bufbase[1] \in Nat
        BY <3>2, ByteIs, Zenon
      <4>3. Len(bufbase) + 1 \in 2 .. bufbase[1] + 3
        <5> DEFINE l == Len(bufbase)
                   b == bufbase[1]
        <5>1. l \in 2 .. b + 3 /\ l # b + 3 /\ b \in Nat
          BY <3>2, <4>1, <4>2
        <5> HIDE DEF l, b
        <5>2. l + 1 \in 2 .. b + 3
          BY <5>1
        <5> QED BY <5>2 DEF l, b
      <4> QED BY <3>3, <4>3
    <3> QED BY <2>1, <2>2, <3>1, <3>2, <3>3, <3>4
  <2>4. CASE ~DmaActive
    BY <1>7, <2>1, <2>2, <2>4 DEF Line_Byte
  <2> QED BY <2>3, <2>4
<1> QED BY <1>1, <1>2, <1>3, <1>4, <1>5, <1>6, <1>7 DEF RecvDriver

LEMMA SerialStep ==
  ASSUME SerialOK, Get_Input_Packet
  PROVE  SerialOK'
<1>1. dbuf \in [0 .. BYTE + 1 -> Bytes]
  BY DEF SerialOK
<1>2. dbuf[0] \in Bytes
  BY <1>1, ByteIs
<1>3. /\ i \in 0 .. BYTE + 2 /\ k \in 0 .. BYTE /\ Lcsum \in Bytes /\ Tch \in Bytes
      /\ rx = "DATA" => i \in 2 .. k + 2 /\ k <= dbuf[0] + 1
  BY DEF SerialOK
<1>4. /\ toHost \in Seq(Bytes) /\ published \in Seq(Bytes)
      /\ rx \in {"HUNT", "START2", "TAG", "LEN", "CMD", "DATA"}
  BY DEF SerialOK
<1>5. ASSUME NEW state, NEW byte \in Bytes, Read(state, byte)
      PROVE  toHost' \in Seq(Bytes)
  <2>1. toHost # <<>> /\ toHost' = Tail(toHost)
    BY <1>5 DEF Read
  <2> QED BY <2>1, <1>4, FrontByte
<1>6. ASSUME NEW byte \in Bytes, Hunt(byte) \/ Start2(byte) \/ Tag(byte)
      PROVE  SerialOK'
  <2>1. \E state : Read(state, byte)
    BY <1>6 DEF Hunt, Start2, Tag
  <2>2. toHost' \in Seq(Bytes)
    BY <2>1, <1>5
  <2>3. /\ rx' \in {"HUNT", "START2", "TAG", "LEN"} /\ Tch' \in {Tch, byte}
        /\ UNCHANGED <<dbuf, i, k, Lcsum, published>>
    BY <1>6 DEF Hunt, Start2, Tag
  <2> QED BY <2>2, <2>3, <1>1, <1>3, <1>4 DEF SerialOK
<1>7. ASSUME NEW byte \in Bytes, GetLength(byte) PROVE SerialOK'
  <2>1. toHost' \in Seq(Bytes)
    BY <1>7, <1>5 DEF GetLength
  <2>2. dbuf' \in [0 .. BYTE + 1 -> Bytes]
    BY <1>7, <1>1 DEF GetLength
  <2>3. rx' = "CMD" /\ UNCHANGED <<i, k, Lcsum, Tch, published>>
    BY <1>7 DEF GetLength
  <2> QED BY <2>1, <2>2, <2>3, <1>3, <1>4 DEF SerialOK
<1>8. ASSUME NEW byte \in Bytes, GetCmd(byte) PROVE SerialOK'
  <2>1. toHost' \in Seq(Bytes)
    BY <1>8, <1>5 DEF GetCmd
  <2>2. dbuf' \in [0 .. BYTE + 1 -> Bytes] /\ dbuf'[0] = dbuf[0]
    BY <1>8, <1>1, ByteIs DEF GetCmd
  <2>3. /\ rx' = "DATA" /\ i' = 2 /\ k' = 0 /\ UNCHANGED <<Tch, published>>
        /\ Lcsum' = (byte + dbuf[0]) % BYTE
    BY <1>8 DEF GetCmd
  <2>4. (byte + dbuf[0]) % BYTE \in Bytes
    <3> DEFINE c == dbuf[0]
    <3> HIDE DEF c
    <3>1. c \in Bytes => (byte + c) % BYTE \in Bytes
      BY Modulo
    <3> QED BY <3>1, <1>2 DEF c
  <2>5. i' \in 0 .. BYTE + 2 /\ k' \in 0 .. BYTE /\ i' \in 2 .. k' + 2 /\ k' <= dbuf'[0] + 1
    BY <1>2, <2>2, <2>3, ByteIs
  <2> QED BY <2>1, <2>2, <2>3, <2>4, <2>5, <1>3, <1>4 DEF SerialOK
<1>9. ASSUME NEW byte \in Bytes, GetData(byte) PROVE SerialOK'
  <2>1. toHost' \in Seq(Bytes) /\ rx = "DATA" /\ k < dbuf[0] + 1
    BY <1>9, <1>5 DEF GetData, More, Read
  <2>2. i \in 2 .. BYTE + 1
    BY <1>2, <1>3, <2>1, ByteIs
  <2>3. dbuf' \in [0 .. BYTE + 1 -> Bytes] /\ dbuf'[0] = dbuf[0]
    <3>1. dbuf' = [dbuf EXCEPT ![i] = byte]
      BY <1>9 DEF GetData
    <3>2. i # 0 /\ 0 \in 0 .. BYTE + 1
      BY <2>2, ByteIs
    <3> QED BY <3>1, <3>2, <1>1
  <2>7. dbuf'[0] = dbuf[0] /\ dbuf[0] \in Nat /\ dbuf[0] < BYTE /\ BYTE \in Nat
    BY <2>3, <1>2, ByteIs
  <2>4. /\ rx' = "DATA" /\ i' = i + 1 /\ k' = k + 1 /\ Tch' = byte /\ UNCHANGED published
        /\ Lcsum' = (Lcsum + byte) % BYTE
    BY <1>9, <2>1 DEF GetData
  <2>5. (Lcsum + byte) % BYTE \in Bytes
    BY <1>3, Modulo
  <2>6. i' \in 2 .. k' + 2 /\ k' <= dbuf'[0] + 1 /\ k' \in 0 .. BYTE /\ i' \in 0 .. BYTE + 2
    BY <1>3, <2>1, <2>2, <2>7, <2>4
  <2> QED BY <2>1, <2>3, <2>4, <2>5, <2>6, <1>4 DEF SerialOK
<1>10. CASE CharTimeout
  <2>1. UNCHANGED <<toHost, dbuf, i, Lcsum, Tch, published>>
    BY <1>10 DEF CharTimeout
  <2>2. CASE rx' = "HUNT" /\ UNCHANGED k
    BY <2>1, <2>2, <1>1, <1>3, <1>4 DEF SerialOK
  <2>3. CASE rx = "DATA" /\ More /\ k' = k + 1 /\ UNCHANGED rx
    <3>1. k' \in 0 .. BYTE /\ k' <= dbuf[0] + 1 /\ i \in 2 .. k' + 2
      BY <2>3, <1>2, <1>3, ByteIs DEF More
    <3> QED BY <3>1, <2>1, <2>3, <1>1, <1>3, <1>4 DEF SerialOK
  <2> QED BY <1>10, <2>2, <2>3 DEF CharTimeout
<1>11. CASE EndOfPacket
  <2>1. rx' = "HUNT" /\ UNCHANGED <<toHost, dbuf, i, k, Lcsum, Tch>>
    BY <1>11 DEF EndOfPacket
  <2>2. published' \in {<<>>, [n \in 1 .. dbuf[0] + 1 |-> dbuf[n]]}
    BY <1>11 DEF EndOfPacket, None
  <2>3. [n \in 1 .. dbuf[0] + 1 |-> dbuf[n]] \in Seq(Bytes)
    <3> DEFINE n == dbuf[0] + 1
    <3>1. n \in Nat /\ n <= BYTE
      BY <1>2, ByteIs
    <3> HIDE DEF n
    <3>2. \A m \in 1 .. n : dbuf[m] \in Bytes
      BY <3>1, <1>1, ByteIs
    <3>3. [m \in 1 .. n |-> dbuf[m]] \in Seq(Bytes)
      BY <3>1, <3>2
    <3> QED BY <3>3 DEF n
  <2>4. published' \in Seq(Bytes)
    <3>1. <<>> \in Seq(Bytes)
      OBVIOUS
    <3> QED BY <2>2, <2>3, <3>1, Zenon
  <2> QED BY <2>1, <2>4, <1>1, <1>3, <1>4 DEF SerialOK
<1> QED BY <1>6, <1>7, <1>8, <1>9, <1>10, <1>11 DEF Get_Input_Packet

LEMMA SameSerial ==
  ASSUME SerialOK, UNCHANGED serialVars PROVE SerialOK'
BY DEF SerialOK

LEMMA SameFramer ==
  ASSUME FramerOK, UNCHANGED framerVars PROVE FramerOK'
BY DEF FramerOK

LEMMA SameLoop ==
  ASSUME LoopOK, UNCHANGED hostVars, UNCHANGED ghosts PROVE LoopOK'
BY DEF LoopOK

(* A byte more or less on a line, or another one, leaves a line of bytes.  *)
LEMMA NoiseTyped ==
  ASSUME NEW q \in Seq(Bytes)
  PROVE  /\ \A b \in Noises : <<b>> \o q \in Seq(Bytes)
         /\ q # <<>> => \A new \in Disturbed(q) : new \in Seq(Bytes)
<1>1. ASSUME NEW b \in Noises, NEW s \in Seq(Bytes) PROVE <<b>> \o s \in Seq(Bytes)
  <2>1. <<b>> \in Seq(Bytes)
    BY LoopAssumption
  <2> QED BY <2>1, Concat
<1>2. ASSUME q # <<>>, NEW new \in Disturbed(q) PROVE new \in Seq(Bytes)
  <2>1. Tail(q) \in Seq(Bytes)
    BY <1>2, FrontByte
  <2>2. CASE new = Tail(q)
    BY <2>1, <2>2
  <2>3. CASE \E b \in Noises : new = <<b>> \o Tail(q)
    BY <2>1, <2>3, <1>1
  <2> QED BY <1>2, <2>2, <2>3 DEF Disturbed
<1> QED BY <1>1, <1>2

LEMMA SendTyped == ASSUME Typed, Dloop_Send PROVE Typed'
<1>1. PICK d \in Datas, seqn \in Seqns : req' = d /\ toCtrl' = HostFrame(seqn, DLOOP, d)
  BY DEF Dloop_Send
<1>2. toCtrl' \in Seq(Bytes)
  <2>1. d \in Seq(Bytes) /\ Len(d) < BYTE /\ seqn \in Bytes
    BY DataIs, LoopAssumption
  <2> QED BY <1>1, <2>1, HostFrameIs DEF IsFrame
<1>3. FramerOK'
  <2>1. UNCHANGED <<DR, rdrv, at, during, bufbase, packet>>
    BY DEF Dloop_Send
  <2> QED BY <1>2, <2>1 DEF Typed, FramerOK
<1>4. SerialOK'
  BY SameSerial DEF Dloop_Send, Typed
<1>5. LoopOK'
  <2>1. host' \in {"IDLE", "WAIT"} /\ damage' \in {"NONE", "BYTE", "MORE"} /\ done' \in BOOLEAN
    BY DEF Dloop_Send
  <2>2. req' \in Datas \union {<<>>}
    BY <1>1
  <2>3. faults' \in 0 .. MaxFaults
    BY DEF Dloop_Send, Typed, LoopOK
  <2> QED BY <2>1, <2>2, <2>3 DEF LoopOK
<1> QED BY <1>3, <1>4, <1>5 DEF Typed

LEMMA AnswerTyped == ASSUME Typed, Controls_Answer PROVE Typed'
<1>1. toHost' \in Seq(Bytes)
  <2>1. toHost \in Seq(Bytes) /\ packet \in Seq(Bytes) /\ packet # <<>> /\ Len(packet) <= BYTE
    BY DEF Typed, SerialOK, FramerOK, Controls_Answer, None
  <2>2. CASE UNCHANGED toHost
    BY <2>1, <2>2
  <2>3. CASE \E seqn \in Seqns : toHost' = toHost \o ControlsFrame(seqn, DLOOP, Tail(packet))
    <3>1. PICK seqn \in Seqns : toHost' = toHost \o ControlsFrame(seqn, DLOOP, Tail(packet))
      BY <2>3
    <3>2. Tail(packet) \in Seq(Bytes) /\ Len(Tail(packet)) = Len(packet) - 1
      BY <2>1, FrontByte
    <3>3. Len(Tail(packet)) < BYTE /\ seqn \in Bytes
      BY <2>1, <3>2, LoopAssumption, ByteIs
    <3>4. ControlsFrame(seqn, DLOOP, Tail(packet)) \in Seq(Bytes)
      BY <3>2, <3>3, ControlsFrameIs DEF IsFrame
    <3> QED BY <2>1, <3>1, <3>4, Concat
  <2> QED BY <2>2, <2>3 DEF Controls_Answer
<1>2. SerialOK'
  BY <1>1 DEF Controls_Answer, Typed, SerialOK
<1>3. FramerOK'
  <2>1. packet' = <<>> /\ UNCHANGED <<toCtrl, DR, rdrv, at, during, bufbase>>
    BY DEF Controls_Answer, None
  <2>2. <<>> \in Seq(Bytes) /\ Len(<<>>) <= BYTE
    BY ByteIs
  <2> QED BY <2>1, <2>2 DEF Typed, FramerOK
<1>4. LoopOK'
  BY SameLoop DEF Controls_Answer, Typed
<1> QED BY <1>2, <1>3, <1>4 DEF Typed

LEMMA ResponseTyped == ASSUME Typed, Response \/ Timeout PROVE Typed'
<1>1. FramerOK'
  BY SameFramer DEF Typed, Response, Timeout
<1>2. CASE Response
  <2>1. published' = <<>> /\ UNCHANGED <<toHost, rx, dbuf, i, k, Lcsum, Tch>>
    BY <1>2 DEF Response, None
  <2>2. <<>> \in Seq(Bytes)
    OBVIOUS
  <2>3. SerialOK'
    BY <2>1, <2>2 DEF Typed, SerialOK
  <2>4. host' \in {"IDLE", "WAIT"} /\ done' \in BOOLEAN /\ UNCHANGED <<req, faults, damage>>
    BY <1>2 DEF Response, Typed, LoopOK
  <2>5. LoopOK'
    BY <2>4 DEF Typed, LoopOK
  <2> QED BY <1>1, <2>3, <2>5 DEF Typed
<1>3. CASE Timeout
  <2>1. SerialOK'
    BY <1>3, SameSerial DEF Typed, Timeout
  <2>2. LoopOK'
    BY <1>3 DEF Typed, LoopOK, Timeout
  <2> QED BY <1>1, <2>1, <2>2 DEF Typed
<1> QED BY <1>2, <1>3

LEMMA NoiseStepTyped == ASSUME Typed, Line_Noise PROVE Typed'
<1>1. toCtrl \in Seq(Bytes) /\ toHost \in Seq(Bytes)
  BY DEF Typed, FramerOK, SerialOK
<1>2. toCtrl' \in Seq(Bytes) /\ toHost' \in Seq(Bytes)
  BY <1>1, NoiseTyped DEF Line_Noise, Noise
<1>3. damage' \in {"NONE", "BYTE", "MORE"}
  BY DEF Line_Noise, Noise, Harm
<1>4. FramerOK'
  BY <1>2 DEF Typed, FramerOK, Line_Noise
<1>5. SerialOK'
  BY <1>2 DEF Typed, SerialOK, Line_Noise
<1>6. LoopOK'
  <2>1. faults' \in 0 .. MaxFaults
    BY LoopAssumption DEF Typed, LoopOK, Line_Noise
  <2> QED BY <1>3, <2>1 DEF Typed, LoopOK, Line_Noise
<1> QED BY <1>4, <1>5, <1>6 DEF Typed

LEMMA ResetTyped == ASSUME Typed, Controls_Reset PROVE Typed'
<1>1. <<>> \in Seq(Bytes) /\ Len(<<>>) <= BYTE
  BY ByteIs
<1>2. /\ DR' = <<>> /\ rdrv' = "LOOKING_FOR_AB" /\ at' = "OUT" /\ bufbase' = <<>>
      /\ packet' = <<>> /\ during' = FALSE /\ toHost' = <<>> /\ UNCHANGED toCtrl
  BY DEF Controls_Reset, RF_Reset, None
<1>3. FramerOK'
  BY <1>1, <1>2 DEF Typed, FramerOK
<1>4. SerialOK'
  BY <1>1, <1>2 DEF Typed, SerialOK, Controls_Reset
<1>5. LoopOK'
  <2>1. faults' \in 0 .. MaxFaults
    BY LoopAssumption DEF Typed, LoopOK, Controls_Reset
  <2> QED BY <2>1 DEF Typed, LoopOK, Controls_Reset
<1> QED BY <1>3, <1>4, <1>5 DEF Typed

LEMMA TypedStep == ASSUME Typed, [Next]_vars PROVE Typed'
<1>1. CASE Controls \/ Line
  BY <1>1, FramerStep, SameSerial, SameLoop DEF Controls, Line, Typed
<1>2. CASE Serial
  BY <1>2, SerialStep, SameFramer, SameLoop DEF Serial, Typed
<1>3. CASE UNCHANGED vars
  BY <1>3, SameFramer, SameSerial, SameLoop DEF Typed
<1> QED BY <1>1, <1>2, <1>3, SendTyped, AnswerTyped, ResponseTyped, NoiseStepTyped,
           ResetTyped DEF Next, PC_dloop

(* Every variable has its type whatever noise and resets do: the DMA       *)
(* stores no more than the length byte called for, and the host's receiver *)
(* stays inside its buffer, for every length a damaged byte can name.      *)
THEOREM TypeCorrect == Spec => []TypeOK
<1>1. Init => Typed
  BY InitTyped
<1>2. Typed /\ [Next]_vars => Typed'
  BY TypedStep
<1>3. Typed => TypeOK
  BY DEF Typed, FramerOK, SerialOK, LoopOK, TypeOK
<1> QED BY <1>1, <1>2, <1>3, PTL DEF Spec

-----------------------------------------------------------------------------
(* Progress.  First what one changed byte does to a frame.                 *)
Flip(h, j, b) == [h EXCEPT ![j] = b]

LEMMA FlipIs ==
  ASSUME NEW h \in Seq(Bytes), NEW j \in 1 .. Len(h), NEW b \in Bytes
  PROVE  /\ Flip(h, j, b) \in Seq(Bytes) /\ Len(Flip(h, j, b)) = Len(h)
         /\ Flip(h, j, b)[j] = b
         /\ \A n \in 1 .. Len(h) : n # j => Flip(h, j, b)[n] = h[n]
BY DEF Flip

(* Before the change the frames are the same, from there they go on with   *)
(* the new byte.                                                           *)
LEMMA FlipParts ==
  ASSUME NEW h \in Seq(Bytes), NEW j \in 1 .. Len(h), NEW b \in Bytes
  PROVE  /\ \A e \in Nat : 4 <= e + 1 /\ e < j =>
              SubSeq(Flip(h, j, b), 4, e) = SubSeq(h, 4, e)
         /\ <<b>> \o SubSeq(h, j + 1, Len(h)) = SubSeq(Flip(h, j, b), j, Len(h))
<1> DEFINE g == Flip(h, j, b)
<1>1. /\ g \in Seq(Bytes) /\ Len(g) = Len(h) /\ g[j] = b
      /\ \A n \in 1 .. Len(h) : n # j => g[n] = h[n]
  BY FlipIs, Zenon
<1> HIDE DEF g
<1>2. Len(h) \in Nat /\ j \in Nat \ {0} /\ j <= Len(h)
  OBVIOUS
<1>3. ASSUME NEW e \in Nat, 4 <= e + 1, e < j PROVE SubSeq(g, 4, e) = SubSeq(h, 4, e)
  <2>1. /\ SubSeq(g, 4, e) \in Seq(Bytes) /\ Len(SubSeq(g, 4, e)) = e - 4 + 1
        /\ \A n \in 1 .. e - 4 + 1 : SubSeq(g, 4, e)[n] = g[4 + n - 1]
    <3>1. e <= Len(g) /\ 4 \in Nat \ {0}
      BY <1>1, <1>2, <1>3
    <3> QED BY <3>1, <1>1, <1>3, Part
  <2>2. /\ SubSeq(h, 4, e) \in Seq(Bytes) /\ Len(SubSeq(h, 4, e)) = e - 4 + 1
        /\ \A n \in 1 .. e - 4 + 1 : SubSeq(h, 4, e)[n] = h[4 + n - 1]
    <3>1. e <= Len(h) /\ 4 \in Nat \ {0}
      BY <1>2, <1>3
    <3> QED BY <3>1, <1>3, Part
  <2>3. ASSUME NEW n \in 1 .. e - 4 + 1 PROVE g[4 + n - 1] = h[4 + n - 1]
    <3>1. 4 + n - 1 \in 1 .. Len(h) /\ 4 + n - 1 # j
      BY <1>2, <1>3
    <3> QED BY <3>1, <1>1
  <2>4. \A n \in 1 .. Len(SubSeq(g, 4, e)) : SubSeq(g, 4, e)[n] = SubSeq(h, 4, e)[n]
    BY <2>1, <2>2, <2>3
  <2> QED BY <2>1, <2>2, <2>4, SameSeq
<1>4. <<b>> \o SubSeq(h, j + 1, Len(h)) = SubSeq(g, j, Len(h))
  <2> DEFINE s == SubSeq(h, j + 1, Len(h))
             t == SubSeq(g, j, Len(h))
             l == Len(h) - j
             o == <<b>>
  <2>1. /\ s \in Seq(Bytes) /\ Len(s) = l /\ \A n \in 1 .. l : s[n] = h[j + n]
        /\ l \in Nat
    BY <1>2
  <2>2. /\ t \in Seq(Bytes) /\ Len(t) = l + 1 /\ \A n \in 1 .. l + 1 : t[n] = g[j + n - 1]
    BY <1>1, <1>2
  <2>3. o \in Seq(Bytes) /\ Len(o) = 1 /\ o[1] = b
    OBVIOUS
  <2>4. \A n \in 1 .. l : n + 1 \in 1 .. l + 1 /\ j + n = j + (n + 1) - 1
                          /\ j + n \in 1 .. Len(h) /\ j + n # j
    BY <1>2
  <2>5. 1 \in 1 .. l + 1 /\ j + 1 - 1 = j
    BY <1>2, <2>1
  <2>6. t[1] = b /\ \A n \in 1 .. l : t[n + 1] = s[n]
    BY <1>1, <2>1, <2>2, <2>4, <2>5
  <2> HIDE DEF s, t, l, o
  <2>7. /\ o \o s \in Seq(Bytes) /\ Len(o \o s) = l + 1
        /\ (o \o s)[1] = b /\ \A n \in 1 .. l : (o \o s)[n + 1] = s[n]
    <3> DEFINE u == o \o s
    <3>1. /\ u \in Seq(Bytes) /\ Len(u) = Len(o) + Len(s)
          /\ \A n \in 1 .. Len(o) : u[n] = o[n]
          /\ \A n \in 1 .. Len(s) : u[Len(o) + n] = s[n]
      <4>1. o \in Seq(Bytes) /\ s \in Seq(Bytes)
        BY <2>1, <2>3
      <4> QED BY <4>1, Concat
    <3> HIDE DEF u
    <3>2. u[1] = b /\ Len(u) = l + 1
      BY <3>1, <2>1, <2>3
    <3>3. \A n \in 1 .. l : u[n + 1] = s[n]
      <4>1. \A n \in 1 .. l : n + 1 = Len(o) + n
        BY <2>3
      <4> QED BY <4>1, <3>1, <2>1
    <3> QED BY <3>1, <3>2, <3>3 DEF u
  <2>8. ASSUME NEW n \in 1 .. l + 1 PROVE (o \o s)[n] = t[n]
    <3>1. CASE n = 1
      BY <3>1, <2>6, <2>7
    <3>2. CASE n # 1
      <4> DEFINE m == n - 1
      <4>1. m \in 1 .. l /\ n = m + 1
        BY <3>2, <2>1
      <4> HIDE DEF m
      <4> QED BY <4>1, <2>6, <2>7
    <3> QED BY <3>1, <3>2
  <2>9. o \o s = t
    BY <2>2, <2>7, <2>8, SameSeq
  <2> QED BY <2>9 DEF s, t, o
<1> QED BY <1>3, <1>4 DEF g

(* The checksum of a frame with one byte changed is wrong.                 *)
LEMMA FlipIsSeen ==
  ASSUME NEW h \in Seq(Bytes), NEW j \in 5 .. Len(h), NEW b \in Bytes, b # h[j],
         h[Len(h)] = Csum(h)
  PROVE  Flip(h, j, b)[Len(h)] # Csum(Flip(h, j, b))
<1> DEFINE g == Flip(h, j, b)
           e == Len(h) - 1
<1>1. /\ g \in Seq(Bytes) /\ Len(g) = Len(h) /\ g[j] = b
      /\ \A n \in 1 .. Len(h) : n # j => g[n] = h[n]
  BY FlipIs
<1>2. Len(h) \in Nat /\ e \in Nat /\ 4 <= e /\ e <= Len(h) /\ 4 \in Nat \ {0}
      /\ Len(h) \in 1 .. Len(h)
  OBVIOUS
<1>3. Csum(g) = SumOf(SubSeq(g, 4, e)) /\ Csum(h) = SumOf(SubSeq(h, 4, e))
  BY <1>1 DEF Csum
<1>4. CASE j = Len(h)
  <2>1. j \in 1 .. Len(h) /\ 4 <= e + 1 /\ e < j
    BY <1>4
  <2>2. SubSeq(g, 4, e) = SubSeq(h, 4, e)
    BY <1>2, <2>1, FlipParts
  <2> QED BY <1>1, <1>3, <1>4, <2>2
<1>5. CASE j < Len(h)
  <2> HIDE DEF g
  <2> DEFINE s == SubSeq(h, 4, e)
             t == SubSeq(g, 4, e)
             o == j - 3
  <2>1. 4 <= e + 1 /\ e <= Len(g)
    BY <1>1, <1>2
  <2> HIDE DEF e
  <2>2. /\ s \in Seq(Bytes) /\ Len(s) = e - 4 + 1 /\ \A n \in 1 .. e - 4 + 1 : s[n] = h[4 + n - 1]
    BY <1>2, <2>1, Part
  <2>3. /\ t \in Seq(Bytes) /\ Len(t) = e - 4 + 1 /\ \A n \in 1 .. e - 4 + 1 : t[n] = g[4 + n - 1]
    BY <1>1, <1>2, <2>1, Part
  <2>4. o \in 1 .. e - 4 + 1 /\ 4 + o - 1 = j
    BY <1>2, <1>5 DEF e
  <2>5. s[o] # t[o]
    BY <1>1, <2>2, <2>3, <2>4
  <2>6. ASSUME NEW n \in 1 .. e - 4 + 1, n # o PROVE s[n] = t[n]
    <3>1. 4 + n - 1 \in 1 .. Len(h) /\ 4 + n - 1 # j
      BY <1>2, <2>4, <2>6
    <3> QED BY <3>1, <1>1, <2>2, <2>3
  <2> HIDE DEF s, t, o
  <2>7. SumOf(s) # SumOf(t)
    <3>1. Len(s) = Len(t) /\ o \in 1 .. Len(s) /\ s \in Seq(Bytes) /\ t \in Seq(Bytes)
      BY <2>2, <2>3, <2>4
    <3>2. \A n \in 1 .. Len(s) : n # o => s[n] = t[n]
      BY <2>2, <2>6
    <3> QED BY <3>1, <3>2, <2>5, OneChangeIsSeen
  <2>8. g[Len(h)] = h[Len(h)]
    BY <1>1, <1>2, <1>5
  <2> QED BY <1>3, <2>7, <2>8 DEF s, t, g
<1> QED BY <1>4, <1>5

(* The packet of a loop-back.                                              *)
LEMMA PacketIs ==
  ASSUME NEW d \in Seq(Bytes)
  PROVE  /\ <<DLOOP>> \o d \in Seq(Bytes) /\ Len(<<DLOOP>> \o d) = Len(d) + 1
         /\ (<<DLOOP>> \o d)[1] = DLOOP
         /\ \A n \in 1 .. Len(d) : (<<DLOOP>> \o d)[n + 1] = d[n]
         /\ <<DLOOP>> \o d # <<>>
         /\ Head(<<DLOOP>> \o d) = DLOOP /\ Tail(<<DLOOP>> \o d) = d
<1> DEFINE o == <<DLOOP>>
           u == o \o d
<1>1. o \in Seq(Bytes) /\ Len(o) = 1 /\ o[1] = DLOOP /\ Len(d) \in Nat
  BY LoopAssumption
<1>2. /\ u \in Seq(Bytes) /\ Len(u) = Len(o) + Len(d)
      /\ \A n \in 1 .. Len(o) : u[n] = o[n]
      /\ \A n \in 1 .. Len(d) : u[Len(o) + n] = d[n]
  <2>1. o \in Seq(Bytes)
    BY <1>1
  <2> HIDE DEF o
  <2> QED BY <2>1, Concat
<1> HIDE DEF o, u
<1>3. u[1] = DLOOP /\ Len(u) = Len(d) + 1
  BY <1>1, <1>2
<1>4. \A n \in 1 .. Len(d) : u[n + 1] = d[n]
  <2>1. \A n \in 1 .. Len(d) : n + 1 = Len(o) + n
    BY <1>1
  <2> QED BY <2>1, <1>2
<1>5. u # <<>> /\ Head(u) = DLOOP
  BY <1>1, <1>2, <1>3
<1>6. Tail(u) = d
  <2>1. /\ Tail(u) \in Seq(Bytes) /\ Len(Tail(u)) = Len(d)
        /\ \A n \in 1 .. Len(d) : Tail(u)[n] = u[n + 1]
    BY <1>1, <1>2, <1>3, <1>5
  <2> QED BY <2>1, <1>4, SameSeq
<1> QED BY <1>2, <1>3, <1>4, <1>5, <1>6 DEF u, o

LEMMA ReqIs ==
  ASSUME LoopOK
  PROVE  req \in Seq(Bytes) /\ Len(req) \in Nat /\ Len(req) < BYTE
<1>1. CASE req \in Datas
  BY <1>1, DataIs
<1>2. CASE req = <<>>
  <2>1. <<>> \in Seq(Bytes) /\ Len(<<>>) = 0
    OBVIOUS
  <2> QED BY <1>2, <2>1, ByteIs
<1> QED BY <1>1, <1>2 DEF LoopOK

(* A receiver that hunts on a silent line does nothing.                    *)
LEMMA IdleDriver == ASSUME CtrlIdle PROVE ~RecvDriver /\ ~Line_Byte
<1>1. toCtrl = <<>> /\ DR = <<>> /\ rdrv = "LOOKING_FOR_AB" /\ at = "OUT"
  BY DEF CtrlIdle
<1>2. ~Line_Byte
  BY <1>1 DEF Line_Byte
<1>3. ~PacketRecvDriver_Process /\ ~Return
  BY <1>1 DEF PacketRecvDriver_Process, Return, DmaDone
<1>4. ~LookingForAB /\ ~LookingFor5F /\ ~GetSeqn /\ ~GetLen /\ ~WaitThenGo
  BY <1>1 DEF LookingForAB, LookingFor5F, GetSeqn, GetLen, WaitThenGo, Case
<1>5. ~WaitComplete
  BY <1>1 DEF WaitComplete, Complete
<1> QED BY <1>2, <1>3, <1>4, <1>5 DEF RecvDriver

LEMMA IdleSerial == ASSUME HostIdle PROVE ~Get_Input_Packet
<1>1. toHost = <<>> /\ rx = "HUNT"
  BY DEF HostIdle
<1> QED BY <1>1 DEF Get_Input_Packet, Hunt, Start2, Tag, GetLength, GetCmd, GetData, Read,
            CharTimeout, EndOfPacket

(* Once more than a byte is damaged, it stays so until data is sent anew.  *)
LEMMA MoreStays ==
  ASSUME damage = "MORE", [Next]_vars, ~Dloop_Send
  PROVE  damage' = "MORE"
<1>1. CASE Line_Noise
  BY <1>1 DEF Line_Noise, Noise, Harm
<1>2. CASE Controls_Reset
  BY <1>2 DEF Controls_Reset
<1>3. CASE Controls \/ Line \/ Serial
  BY <1>3 DEF Controls, Line, Serial
<1>4. CASE Controls_Answer \/ Response \/ Timeout \/ UNCHANGED vars
  BY <1>4 DEF Controls_Answer, Response, Timeout
<1> QED BY <1>1, <1>2, <1>3, <1>4 DEF Next, PC_dloop

LEMMA WholeIs ==
  ASSUME NEW S, NEW h \in Seq(S)
  PROVE  SubSeq(h, 1, Len(h)) = h /\ SubSeq(h, 0 + 1, Len(h)) = h
         /\ SubSeq(h, Len(h) + 1, Len(h)) = <<>>
<1>1. 0 + 1 = 1 /\ Len(h) \in 0 .. Len(h)
  OBVIOUS
<1>2. SubSeq(h, 1, Len(h)) = h
  <2>1. /\ SubSeq(h, 1, Len(h)) \in Seq(S) /\ Len(SubSeq(h, 1, Len(h))) = Len(h)
        /\ \A n \in 1 .. Len(h) : SubSeq(h, 1, Len(h))[n] = h[n]
    OBVIOUS
  <2> QED BY <2>1, SameSeq
<1>3. SubSeq(h, Len(h) + 1, Len(h)) = <<>>
  BY <1>1, Rest
<1> QED BY <1>1, <1>2, <1>3

LEMMA SendProgress == ASSUME Typed, Dloop_Send PROVE Progress'
<1>1. CASE ~InStep
  BY <1>1 DEF Dloop_Send, Progress
<1>2. CASE InStep
  <2>1. PICK d \in Datas, seqn \in Seqns : req' = d /\ toCtrl' = HostFrame(seqn, DLOOP, d)
    BY DEF Dloop_Send
  <2> DEFINE h == HostFrame(seqn, DLOOP, d)
  <2>2. IsFrame(h, AB, F5, d)
    <3>1. d \in Seq(Bytes) /\ Len(d) < BYTE /\ seqn \in Bytes
      BY DataIs, LoopAssumption
    <3> QED BY <3>1, HostFrameIs
  <2>3. /\ host' = "WAIT" /\ damage' = "NONE"
        /\ UNCHANGED <<DR, rdrv, at, packet, toHost, rx, published>>
    BY <1>2 DEF Dloop_Send
  <2>4. toCtrl' = h
    BY <2>1
  <2> HIDE DEF h
  <2>5. Arriving(h, AB, F5)'
    BY <2>1, <2>2, <2>3 DEF Arriving, IsFrame
  <2>6. h \in Seq(Bytes) /\ 0 \in 0 .. Len(h)
    BY <2>2 DEF IsFrame
  <2>7. DriverAt(h, 0)'
    <3>1. toCtrl' = SubSeq(h, 0 + 1, Len(h))
      BY <2>4, <2>6, WholeIs
    <3>2. DR' = <<>> /\ rdrv' = "LOOKING_FOR_AB" /\ at' = "OUT"
      BY <1>2, <2>3 DEF InStep
    <3> QED BY <3>1, <3>2 DEF DriverAt
  <2>8. HostIdle' /\ packet' = None /\ published' = None
    BY <1>2, <2>3 DEF InStep, HostIdle
  <2>9. ToControls'
    BY <2>3, <2>5, <2>6, <2>7, <2>8 DEF ToControls
  <2> QED BY <2>9 DEF Progress
<1> QED BY <1>1, <1>2

LEMMA AnswerProgress ==
  ASSUME Typed, Progress, damage # "MORE", Controls_Answer
  PROVE  Progress'
<1>1. packet # None
  BY DEF Controls_Answer
<1>2. AtControls
  BY <1>1 DEF Progress, Quiet, ToControls, ToHost, AtHost
<1>3. req \in Seq(Bytes) /\ Len(req) < BYTE
  BY ReqIs DEF Typed
<1>4. Head(packet) = DLOOP /\ Tail(packet) = req
  BY <1>2, <1>3, PacketIs DEF AtControls
<1>5. PICK seqn \in Seqns : toHost' = toHost \o ControlsFrame(seqn, DLOOP, Tail(packet))
  BY <1>4 DEF Controls_Answer
<1> DEFINE h == ControlsFrame(seqn, DLOOP, Tail(packet))
<1>6. IsFrame(h, CC, F57, req)
  <2>1. seqn \in Bytes
    BY LoopAssumption
  <2> QED BY <2>1, <1>3, <1>4, ControlsFrameIs
<1>7. PICK f \in Seq(Bytes) : f = h
  BY <1>6 DEF IsFrame
<1> HIDE DEF h
<1>8. IsFrame(f, CC, F57, req)
  BY <1>6, <1>7
<1>9. toHost' = f
  <2>1. toHost = <<>>
    BY <1>2 DEF AtControls, HostIdle
  <2>2. <<>> \o f = f
    OBVIOUS
  <2> QED BY <1>5, <1>7, <2>1, <2>2 DEF h
<1>10. packet' = None
  BY DEF Controls_Answer
<1>11. UNCHANGED <<toCtrl, DR, rdrv, at, rx, published, host, req, damage>>
  BY DEF Controls_Answer
<1>12. Arriving(f, CC, F57)'
  BY <1>2, <1>8, <1>11 DEF Arriving, IsFrame, AtControls
<1>13. HostAt(f, 0)'
  <2>1. toHost' = SubSeq(f, 0 + 1, Len(f))
    BY <1>9, WholeIs
  <2>2. rx' = "HUNT"
    BY <1>2, <1>11 DEF AtControls, HostIdle
  <2> QED BY <2>1, <2>2 DEF HostAt
<1>14. 0 \in 0 .. Len(f)
  OBVIOUS
<1>15. ToHost'
  BY <1>2, <1>10, <1>11, <1>12, <1>13, <1>14 DEF ToHost, AtControls, CtrlIdle
<1> QED BY <1>15 DEF Progress

LEMMA ResponseProgress ==
  ASSUME Typed, Progress, damage # "MORE", Response
  PROVE  Progress' /\ host' = "IDLE" /\ done'
<1>1. published # None
  BY DEF Response
<1>2. AtHost
  BY <1>1 DEF Progress, Quiet, ToControls, ToHost, AtControls
<1>3. req \in Seq(Bytes)
  BY ReqIs DEF Typed
<1>4. Head(published) = DLOOP /\ Tail(published) = req
  BY <1>2, <1>3, PacketIs DEF AtHost
<1>5. host' = "IDLE" /\ done' = TRUE
  BY <1>2, <1>4 DEF Response, AtHost
<1>6. published' = None /\ UNCHANGED <<toCtrl, DR, rdrv, at, packet, toHost, rx, damage>>
  BY DEF Response
<1>7. Quiet'
  BY <1>2, <1>5, <1>6 DEF Quiet, AtHost, CtrlIdle, HostIdle
<1> QED BY <1>5, <1>7 DEF Progress

(* What the driver's buffer holds of a frame, and when the DMA is done.    *)
LEMMA BufferIs ==
  ASSUME Typed, NEW h \in Seq(Bytes), NEW start1, NEW start2, Arriving(h, start1, start2),
         NEW c \in 5 .. Len(h), bufbase = SubSeq(h, 4, c), rdrv = "WAITCOMPLETE"
  PROVE  /\ bufbase \in Seq(Bytes) /\ Len(bufbase) = c - 3 /\ bufbase[1] = Len(req)
         /\ \A n \in 1 .. c - 3 : bufbase[n] = h[n + 3]
         /\ DmaDone <=> c = Len(h)
         /\ Len(req) \in Nat
<1>1. Len(req) \in Nat /\ Len(h) = Len(req) + 6 /\ h[4] = Len(req)
  BY ReqIs DEF Typed, Arriving
<1>2. c \in Nat /\ c <= Len(h) /\ 4 <= c + 1 /\ c - 4 + 1 = c - 3 /\ 4 \in Nat \ {0}
  BY <1>1
<1>3. /\ bufbase \in Seq(Bytes) /\ Len(bufbase) = c - 4 + 1
      /\ \A n \in 1 .. c - 4 + 1 : bufbase[n] = h[4 + n - 1]
  BY <1>2, Part
<1>4. ASSUME NEW n \in 1 .. c - 3 PROVE bufbase[n] = h[n + 3]
  <2>1. 4 + n - 1 = n + 3
    BY <1>2
  <2> QED BY <2>1, <1>2, <1>3
<1>5. bufbase[1] = Len(req)
  <2>1. 1 \in 1 .. c - 3 /\ 1 + 3 = 4
    BY <1>2
  <2> QED BY <2>1, <1>1, <1>4
<1>6. Len(bufbase) = bufbase[1] + 3 <=> c = Len(h)
  BY <1>1, <1>2, <1>3, <1>5
<1> QED BY <1>1, <1>2, <1>3, <1>4, <1>5, <1>6 DEF DmaDone

LEMMA TimeoutProgress ==
  ASSUME Typed, Progress, damage # "MORE", Timeout
  PROVE  damage = "BYTE" /\ Progress'
<1>1. host = "WAIT" /\ Silent
  BY DEF Timeout
<1>2. ~AtControls /\ ~AtHost
  <2>1. packet = None /\ published = None
    BY <1>1 DEF Silent
  <2>2. req \in Seq(Bytes)
    BY ReqIs DEF Typed
  <2>3. <<DLOOP>> \o req # None
    BY <2>2, PacketIs DEF None
  <2> QED BY <2>1, <2>3 DEF AtControls, AtHost
<1>3. ~ToControls
  <2> SUFFICES ASSUME ToControls PROVE FALSE
    OBVIOUS
  <2>1. PICK h \in Seq(Bytes) : Arriving(h, AB, F5) /\ \E c \in 0 .. Len(h) : DriverAt(h, c)
    BY DEF ToControls
  <2>0. PICK c \in 0 .. Len(h) : DriverAt(h, c)
    BY <2>1
  <2>2. Len(req) \in Nat /\ Len(h) = Len(req) + 6
    BY <2>1, ReqIs DEF Typed, Arriving
  <2>3. toCtrl = <<>> /\ DR = <<>> /\ ~DmaDone
    BY <1>1 DEF Silent
  <2>4. toCtrl = SubSeq(h, c + 1, Len(h))
    BY <2>0, <2>1, <2>3 DEF DriverAt
  <2>5. c = Len(h)
    BY <2>3, <2>4, Rest
  <2>6. c \in 5 .. Len(h) /\ c > 4
    BY <2>2, <2>5
  <2>7. rdrv = "WAITCOMPLETE" /\ bufbase = SubSeq(h, 4, c)
    BY <2>0, <2>1, <2>6 DEF DriverAt
  <2>8. DmaDone
    BY <2>1, <2>5, <2>6, <2>7, BufferIs
  <2> QED BY <2>3, <2>8
<1>4. ~ToHost
  <2> SUFFICES ASSUME ToHost PROVE FALSE
    OBVIOUS
  <2>1. PICK h \in Seq(Bytes) : Arriving(h, CC, F57) /\ \E p \in 0 .. Len(h) : HostAt(h, p)
    BY DEF ToHost
  <2>0. PICK p \in 0 .. Len(h) : HostAt(h, p)
    BY <2>1
  <2>2. Len(req) \in Nat /\ Len(h) = Len(req) + 6
    BY <2>1, ReqIs DEF Typed, Arriving
  <2>3. toHost = <<>> /\ rx = "HUNT" /\ toHost = SubSeq(h, p + 1, Len(h))
    BY <2>0, <1>1, <2>1 DEF Silent, HostAt
  <2>4. p = Len(h)
    BY <2>3, Rest
  <2>5. p > 4
    BY <2>2, <2>4
  <2> QED BY <2>0, <2>1, <2>3, <2>5 DEF HostAt
<1>5. Quiet
  BY <1>2, <1>3, <1>4 DEF Progress
<1>6. Quiet'
  BY <1>5 DEF Quiet, Timeout, CtrlIdle, HostIdle
<1> QED BY <1>1, <1>5, <1>6 DEF Quiet, Progress

(* One byte of a frame is changed, after its length byte: the p bytes      *)
(* before it stay as they are.                                             *)
Turned(h, g, p, rest) ==
  /\ g \in Seq(Bytes) /\ Len(g) = Len(h) /\ rest = SubSeq(g, p + 1, Len(g)) /\ p >= 4
  /\ \A n \in 1 .. p : g[n] = h[n]
  /\ \A e \in 4 .. p : SubSeq(g, 4, e) = SubSeq(h, 4, e)

LEMMA ChangeIs ==
  ASSUME Typed, NEW h \in Seq(Bytes), NEW start1, NEW start2, Arriving(h, start1, start2),
         NEW p \in 0 .. Len(h), NEW line, line = SubSeq(h, p + 1, Len(h)), line # <<>>,
         NEW new \in Disturbed(line), Changed(line, new), damage = "NONE",
         damage' = "BYTE", UNCHANGED req
  PROVE  \E g : Turned(h, g, p, new) /\ Arriving(g, start1, start2)'
<1>1. Len(req) \in Nat /\ Len(h) = Len(req) + 6
  BY ReqIs DEF Typed, Arriving
<1>2. /\ Len(line) = Len(h) - p /\ p < Len(h) /\ Head(line) = h[p + 1]
      /\ Tail(line) = SubSeq(h, p + 2, Len(h)) /\ line \in Seq(Bytes)
  BY Rest
<1>3. p >= 4
  BY <1>1, <1>2 DEF Changed
<1>4. PICK b \in Noises \ {Head(line)} : new = <<b>> \o Tail(line)
  <2>1. new # Tail(line)
    <3>1. Len(Tail(line)) = Len(line) - 1 /\ Len(line) \in Nat
      BY <1>2
    <3> QED BY <3>1 DEF Changed
  <2> QED BY <2>1 DEF Disturbed
<1> DEFINE j == p + 1
           g == Flip(h, j, b)
<1>5. b \in Bytes /\ b # h[j] /\ j \in 5 .. Len(h) /\ j \in 1 .. Len(h) /\ j + 1 = p + 2
  BY <1>1, <1>2, <1>3, <1>4, LoopAssumption
<1> HIDE DEF j
<1>6. /\ g \in Seq(Bytes) /\ Len(g) = Len(h)
      /\ \A n \in 1 .. Len(h) : n # j => g[n] = h[n]
  <2>1. j \in 1 .. Len(h) /\ b \in Bytes
    BY <1>5
  <2> QED BY <2>1, FlipIs
<1>7. /\ \A e \in Nat : 4 <= e + 1 /\ e < j => SubSeq(g, 4, e) = SubSeq(h, 4, e)
      /\ <<b>> \o SubSeq(h, j + 1, Len(h)) = SubSeq(g, j, Len(h))
  BY <1>5, FlipParts
<1>8. g[Len(h)] # Csum(g)
  BY <1>5, FlipIsSeen DEF Arriving
<1> HIDE DEF g
<1>9. Arriving(g, start1, start2)'
  <2>1. 1 # j /\ 2 # j /\ 4 # j /\ 1 \in 1 .. Len(h) /\ 2 \in 1 .. Len(h) /\ 4 \in 1 .. Len(h)
    BY <1>1, <1>5
  <2>2. g[1] = h[1] /\ g[2] = h[2] /\ g[4] = h[4]
    BY <1>6, <2>1
  <2>3. Len(g) = Len(req') + 6 /\ g[1] = start1 /\ g[2] = start2 /\ g[4] = Len(req')
    BY <1>6, <2>2 DEF Arriving
  <2>4. g[Len(g)] # Csum(g)
    BY <1>6, <1>8
  <2> QED BY <2>3, <2>4 DEF Arriving
<1>10. new = SubSeq(g, p + 1, Len(g))
  BY <1>2, <1>4, <1>5, <1>6, <1>7 DEF j
<1>11. \A n \in 1 .. p : g[n] = h[n]
  <2>1. \A n \in 1 .. p : n # j /\ n \in 1 .. Len(h)
    BY <1>1, <1>2 DEF j
  <2> QED BY <2>1, <1>6
<1>12. \A e \in 4 .. p : SubSeq(g, 4, e) = SubSeq(h, 4, e)
  <2>1. \A e \in 4 .. p : e \in Nat /\ 4 <= e + 1 /\ e < j
    BY DEF j
  <2> QED BY <2>1, <1>7
<1> QED BY <1>3, <1>6, <1>9, <1>10, <1>11, <1>12 DEF Turned

LEMMA NoiseProgress ==
  ASSUME Typed, Progress, damage # "MORE", Line_Noise
  PROVE  Progress'
<1> SUFFICES ASSUME damage' # "MORE" PROVE Progress'
  BY DEF Progress
<1>1. /\ UNCHANGED <<DR, rdrv, at, bufbase, packet, rx, dbuf, i, k, Lcsum, Tch,
                     published, host, req>>
      /\ Noise
  BY DEF Line_Noise
<1>2. CASE toCtrl # <<>> /\ UNCHANGED toHost
             /\ \E new \in Disturbed(toCtrl) : toCtrl' = new /\ damage' = Harm(toCtrl, new)
  <2>1. PICK new \in Disturbed(toCtrl) : toCtrl' = new /\ damage' = Harm(toCtrl, new)
    BY <1>2
  <2>2. damage = "NONE" /\ Changed(toCtrl, new) /\ damage' = "BYTE"
    BY <2>1 DEF Harm
  <2>3. ToControls
    BY <1>2 DEF Progress, Quiet, AtControls, ToHost, AtHost, CtrlIdle
  <2>4. PICK h \in Seq(Bytes) : Arriving(h, AB, F5) /\ \E c \in 0 .. Len(h) : DriverAt(h, c)
    BY <2>3 DEF ToControls
  <2>0. PICK c \in 0 .. Len(h) : DriverAt(h, c)
    BY <2>4
  <2>5. Len(req) \in Nat /\ Len(h) = Len(req) + 6
    BY <2>4, ReqIs DEF Typed, Arriving
  <2>6. ASSUME NEW p \in 0 .. Len(h), p \in {c, c + 1}, toCtrl = SubSeq(h, p + 1, Len(h)),
               \/ p = c /\ DR = <<>>
               \/ p = c + 1 /\ c < 5 /\ DR = <<h[c + 1]>>
        PROVE  ToControls'
    <3>1. PICK g : Turned(h, g, p, new) /\ Arriving(g, AB, F5)'
      BY <1>1, <1>2, <2>1, <2>2, <2>4, <2>6, ChangeIs
    <3>2. DriverAt(g, c)'
      <4>1. \/ DR' = <<>> /\ toCtrl' = SubSeq(g, c + 1, Len(g))
            \/ c < 5 /\ DR' = <<g[c + 1]>> /\ toCtrl' = SubSeq(g, c + 2, Len(g))
        <5>1. CASE p = c /\ DR = <<>>
          BY <5>1, <1>1, <2>1, <3>1 DEF Turned
        <5>2. CASE p = c + 1 /\ c < 5 /\ DR = <<h[c + 1]>>
          <6>1. g[c + 1] = h[c + 1] /\ p + 1 = c + 2
            <7>1. c + 1 \in 1 .. p
              BY <5>2
            <7> QED BY <7>1, <5>2, <3>1 DEF Turned
          <6> QED BY <6>1, <5>2, <1>1, <2>1, <3>1 DEF Turned
        <5> QED BY <5>1, <5>2, <2>6
      <4>2. c >= 3
        BY <2>6, <3>1 DEF Turned
      <4>3. at' \in {"OUT", rdrv'} /\ (c = 3 => rdrv' = "GET_LEN")
            /\ (c = 4 => rdrv' = "WAIT_THEN_GO") /\ (c > 4 => rdrv' = "WAITCOMPLETE")
        BY <2>0, <1>1, <2>4 DEF DriverAt
      <4>4. c = 4 => bufbase' = <<g[4]>>
        <5>1. 4 \in 1 .. p
          BY <3>1 DEF Turned
        <5> QED BY <2>0, <5>1, <1>1, <2>4, <3>1 DEF DriverAt, Turned
      <4>5. c > 4 => bufbase' = SubSeq(g, 4, c)
        <5>1. c > 4 => c \in 4 .. p
          BY <2>6
        <5>2. c > 4 => bufbase' = SubSeq(h, 4, c)
          BY <2>0, <1>1, <2>4 DEF DriverAt
        <5> QED BY <5>1, <5>2, <3>1 DEF Turned
      <4> QED BY <2>0, <4>1, <4>2, <4>3, <4>4, <4>5 DEF DriverAt
    <3>3. host' = "WAIT" /\ HostIdle' /\ packet' = None /\ published' = None
      BY <1>1, <1>2, <2>3 DEF ToControls, HostIdle
    <3> QED BY <3>1, <3>2, <3>3 DEF ToControls, Turned
  <2>7. CASE DR = <<>> /\ toCtrl = SubSeq(h, c + 1, Len(h))
    <3>1. ToControls'
      BY <2>6, <2>7
    <3> QED BY <3>1 DEF Progress, Turned
  <2>8. CASE c < 5 /\ DR = <<h[c + 1]>> /\ toCtrl = SubSeq(h, c + 2, Len(h))
    <3>1. c + 1 \in 0 .. Len(h) /\ (c + 1) + 1 = c + 2
      BY <2>5, <2>8
    <3>2. ToControls'
      BY <2>6, <2>8, <3>1 DEF Turned
    <3> QED BY <3>2 DEF Progress
  <2> QED BY <2>0, <2>4, <2>7, <2>8 DEF DriverAt
<1>3. CASE toHost # <<>> /\ UNCHANGED toCtrl
             /\ \E new \in Disturbed(toHost) : toHost' = new /\ damage' = Harm(toHost, new)
  <2>1. PICK new \in Disturbed(toHost) : toHost' = new /\ damage' = Harm(toHost, new)
    BY <1>3
  <2>2. damage = "NONE" /\ Changed(toHost, new) /\ damage' = "BYTE"
    BY <2>1 DEF Harm
  <2>3. ToHost
    BY <1>3 DEF Progress, Quiet, AtControls, ToControls, AtHost, HostIdle
  <2>4. PICK h \in Seq(Bytes) : Arriving(h, CC, F57) /\ \E p \in 0 .. Len(h) : HostAt(h, p)
    BY <2>3 DEF ToHost
  <2>0. PICK p \in 0 .. Len(h) : HostAt(h, p)
    BY <2>4
  <2>5. toHost = SubSeq(h, p + 1, Len(h))
    BY <2>0, <2>4 DEF HostAt
  <2>6. PICK g : Turned(h, g, p, new) /\ Arriving(g, CC, F57)'
    BY <1>1, <1>3, <2>1, <2>2, <2>4, <2>5, ChangeIs
  <2>7. HostAt(g, p)'
    <3>1. toHost' = SubSeq(g, p + 1, Len(g))
      BY <2>1, <2>6 DEF Turned
    <3>2. p = 4 => rx' = "CMD" /\ dbuf'[0] = g[4]
      <4>1. 4 \in 1 .. p
        BY <2>6 DEF Turned
      <4> QED BY <2>0, <4>1, <1>1, <2>4, <2>6 DEF HostAt, Turned
    <3>3. ASSUME p > 4
          PROVE  /\ rx' = "DATA" /\ i' = p - 3 /\ k' = p - 5
                 /\ \A n \in 0 .. p - 4 : dbuf'[n] = g[n + 4]
                 /\ Lcsum' = SumOf(SubSeq(g, 4, p))
                 /\ p > 5 => Tch' = g[p]
      <4>1. /\ rx = "DATA" /\ i = p - 3 /\ k = p - 5
            /\ \A n \in 0 .. p - 4 : dbuf[n] = h[n + 4]
            /\ Lcsum = SumOf(SubSeq(h, 4, p))
            /\ p > 5 => Tch = h[p]
        BY <2>0, <2>4, <3>3 DEF HostAt
      <4>2. p \in 4 .. p /\ p \in 1 .. p /\ \A n \in 0 .. p - 4 : n + 4 \in 1 .. p
        BY <3>3
      <4>3. SubSeq(g, 4, p) = SubSeq(h, 4, p) /\ g[p] = h[p]
        BY <4>2, <2>6 DEF Turned
      <4>4. \A n \in 0 .. p - 4 : dbuf[n] = g[n + 4]
        BY <4>1, <4>2, <2>6 DEF Turned
      <4> QED BY <4>1, <4>3, <4>4, <1>1
    <3>4. p >= 4
      BY <2>6 DEF Turned
    <3> QED BY <2>0, <3>1, <3>2, <3>3, <3>4 DEF HostAt
  <2>8. ToHost'
    <3>1. host' = "WAIT" /\ CtrlIdle' /\ packet' = None /\ published' = None
      BY <1>1, <1>3, <2>3 DEF ToHost, CtrlIdle
    <3>2. p \in 0 .. Len(g)
      BY <2>6 DEF Turned
    <3> QED BY <3>1, <3>2, <2>6, <2>7 DEF ToHost, Turned
  <2> QED BY <2>8 DEF Progress
<1> QED BY <1>1, <1>2, <1>3 DEF Noise

(* The driver goes through a frame byte by byte.                           *)
LEMMA DriverMoves ==
  ASSUME Typed, NEW h \in Seq(Bytes), Arriving(h, AB, F5),
         NEW c \in 0 .. Len(h), DriverAt(h, c),
         RecvDriver \/ Line_Byte, UNCHANGED <<req, damage>>
  PROVE  \/ UNCHANGED packet /\ \E d \in 0 .. Len(h) : DriverAt(h, d)'
         \/ CtrlIdle' /\ packet' = IF damage = "NONE" THEN <<DLOOP>> \o req ELSE None
<1>1. req \in Seq(Bytes) /\ Len(req) \in Nat /\ Len(h) = Len(req) + 6
  BY ReqIs DEF Typed, Arriving
<1>2. at \in {"OUT", rdrv}
  BY DEF DriverAt
<1>3. /\ rdrv = "LOOKING_FOR_AB" => c = 0
      /\ rdrv = "LOOKING_FOR_5F" => c = 1
      /\ rdrv = "GET_SEQN" => c = 2
      /\ rdrv = "GET_LEN" => c = 3
      /\ rdrv = "WAIT_THEN_GO" => c = 4 /\ bufbase = <<h[4]>>
      /\ rdrv = "WAITCOMPLETE" => c > 4 /\ bufbase = SubSeq(h, 4, c)
  <2>1. c \in Nat
    BY <1>1
  <2>2. c = 0 \/ c = 1 \/ c = 2 \/ c = 3 \/ c = 4 \/ c > 4
    BY <2>1
  <2> QED BY <2>2 DEF DriverAt
<1>4. DR # <<>> => c < 5 /\ DR = <<h[c + 1]>> /\ toCtrl = SubSeq(h, c + 2, Len(h))
  BY DEF DriverAt
<1>5. DR = <<>> => toCtrl = SubSeq(h, c + 1, Len(h))
  BY DEF DriverAt
<1>6. CASE PacketRecvDriver_Process \/ Return
  <2>1. /\ at' \in {"OUT", rdrv'} /\ UNCHANGED <<toCtrl, DR, rdrv, bufbase, packet>>
    BY <1>6 DEF PacketRecvDriver_Process, Return
  <2>2. DriverAt(h, c)'
    BY <2>1 DEF DriverAt
  <2> QED BY <2>1, <2>2
<1>7. ASSUME NEW state, NEW next, Case(state, next), state # "OUT"
      PROVE  /\ rdrv = state /\ at' = next /\ DR' = <<>> /\ UNCHANGED packet
             /\ DR = <<h[c + 1]>> /\ c + 1 \in 0 .. Len(h)
             /\ toCtrl' = SubSeq(h, (c + 1) + 1, Len(h))
  <2>1. at = state /\ DR # <<>> /\ at' = next /\ DR' = <<>> /\ UNCHANGED <<toCtrl, packet>>
    BY <1>7 DEF Case
  <2>2. c < 5 /\ DR = <<h[c + 1]>> /\ toCtrl = SubSeq(h, c + 2, Len(h))
    BY <2>1, <1>4
  <2>3. c + 1 \in 0 .. Len(h) /\ (c + 1) + 1 = c + 2
    BY <2>2, <1>1
  <2> QED BY <2>1, <2>2, <2>3, <1>2, <1>7
<1>8. CASE LookingForAB
  <2>1. Case("LOOKING_FOR_AB", "LOOKING_FOR_5F")
    BY <1>8 DEF LookingForAB
  <2>2. c = 0 /\ at' = "LOOKING_FOR_5F" /\ DR' = <<>> /\ UNCHANGED packet
    BY <2>1, <1>3, <1>7
  <2>3. toCtrl' = SubSeq(h, 1 + 1, Len(h)) /\ DR = <<AB>> /\ 1 \in 0 .. Len(h)
    <3>1. DR = <<h[1]>> /\ 0 + 1 = 1
      BY <2>1, <2>2, <1>7
    <3> QED BY <2>1, <2>2, <3>1, <1>7 DEF Arriving
  <2>4. rdrv' = "LOOKING_FOR_5F"
    BY <1>8, <2>3 DEF LookingForAB
  <2>5. DriverAt(h, 1)'
    BY <2>2, <2>3, <2>4 DEF DriverAt
  <2> QED BY <2>2, <2>3, <2>5
<1>9. CASE LookingFor5F
  <2>1. Case("LOOKING_FOR_5F", "GET_SEQN")
    BY <1>9 DEF LookingFor5F
  <2>2. c = 1 /\ at' = "GET_SEQN" /\ DR' = <<>> /\ UNCHANGED packet
    BY <2>1, <1>3, <1>7
  <2>3. toCtrl' = SubSeq(h, 2 + 1, Len(h)) /\ DR = <<F5>> /\ 2 \in 0 .. Len(h)
    <3>1. DR = <<h[2]>> /\ 1 + 1 = 2
      BY <2>1, <2>2, <1>7
    <3> QED BY <2>1, <2>2, <3>1, <1>7 DEF Arriving
  <2>4. rdrv' = "GET_SEQN"
    BY <1>9, <2>3 DEF LookingFor5F
  <2>5. DriverAt(h, 2)'
    BY <2>2, <2>3, <2>4 DEF DriverAt
  <2> QED BY <2>2, <2>3, <2>5
<1>10. CASE GetSeqn
  <2>1. Case("GET_SEQN", "GET_LEN") /\ rdrv' = "GET_LEN"
    BY <1>10 DEF GetSeqn
  <2>2. c = 2 /\ at' = "GET_LEN" /\ DR' = <<>> /\ UNCHANGED packet
    BY <2>1, <1>3, <1>7
  <2>3. toCtrl' = SubSeq(h, 3 + 1, Len(h)) /\ 3 \in 0 .. Len(h)
    <3>1. 2 + 1 = 3
      OBVIOUS
    <3> QED BY <2>1, <2>2, <3>1, <1>7
  <2>4. DriverAt(h, 3)'
    BY <2>1, <2>2, <2>3 DEF DriverAt
  <2> QED BY <2>2, <2>3, <2>4
<1>11. CASE GetLen
  <2>1. Case("GET_LEN", "WAIT_THEN_GO") /\ rdrv' = "WAIT_THEN_GO" /\ bufbase' = DR
    BY <1>11 DEF GetLen
  <2>2. c = 3 /\ at' = "WAIT_THEN_GO" /\ DR' = <<>> /\ UNCHANGED packet
    BY <2>1, <1>3, <1>7
  <2>3. toCtrl' = SubSeq(h, 4 + 1, Len(h)) /\ DR = <<h[4]>> /\ 4 \in 0 .. Len(h)
    <3>1. 3 + 1 = 4
      OBVIOUS
    <3> QED BY <2>1, <2>2, <3>1, <1>7
  <2>4. DriverAt(h, 4)'
    BY <2>1, <2>2, <2>3 DEF DriverAt
  <2> QED BY <2>2, <2>3, <2>4
<1>12. CASE WaitThenGo
  <2>1. /\ Case("WAIT_THEN_GO", "WAITCOMPLETE") /\ rdrv' = "WAITCOMPLETE"
        /\ bufbase' = bufbase \o DR
    BY <1>12 DEF WaitThenGo
  <2>2. c = 4 /\ at' = "WAITCOMPLETE" /\ DR' = <<>> /\ UNCHANGED packet /\ bufbase = <<h[4]>>
    BY <2>1, <1>3, <1>7
  <2>3. toCtrl' = SubSeq(h, 5 + 1, Len(h)) /\ DR = <<h[5]>> /\ 5 \in 0 .. Len(h)
    <3>1. 4 + 1 = 5
      OBVIOUS
    <3> QED BY <2>1, <2>2, <3>1, <1>7
  <2>4. bufbase' = SubSeq(h, 4, 5)
    <3>1. SubSeq(h, 4, 4) = <<h[4]>> /\ SubSeq(h, 4, 4) \o <<h[4 + 1]>> = SubSeq(h, 4, 4 + 1)
      <4>1. 4 \in Nat /\ 4 <= 4 /\ 4 < Len(h)
        BY <1>1
      <4> QED BY <4>1, Grow
    <3>2. 4 + 1 = 5
      OBVIOUS
    <3> QED BY <2>1, <2>2, <2>3, <3>1, <3>2
  <2>5. DriverAt(h, 5)'
    BY <2>1, <2>2, <2>3, <2>4 DEF DriverAt
  <2> QED BY <2>2, <2>3, <2>5
<1>13. CASE Line_Byte
  <2>1. /\ toCtrl # <<>> /\ toCtrl' = Tail(toCtrl) /\ UNCHANGED <<rdrv, at, packet>>
    BY <1>13 DEF Line_Byte
  <2>2. DR = <<>>
    <3>1. CASE DmaActive
      <4>1. c > 4
        BY <3>1, <1>3 DEF DmaActive
      <4> QED BY <4>1, <1>4
    <3>2. CASE ~DmaActive
      BY <1>13, <3>2 DEF Line_Byte
    <3> QED BY <3>1, <3>2
  <2>3. /\ c < Len(h) /\ Head(toCtrl) = h[c + 1] /\ toCtrl' = SubSeq(h, c + 2, Len(h))
    <3>1. toCtrl = SubSeq(h, c + 1, Len(h)) /\ c # Len(h)
      BY <2>1, <2>2, <1>5, Rest
    <3>2. c < Len(h)
      BY <3>1, <1>1
    <3> QED BY <2>1, <3>1, <3>2, Rest
  <2>4. CASE DmaActive
    <3>1. bufbase' = Append(bufbase, h[c + 1]) /\ DR' = <<>>
      BY <1>13, <2>2, <2>3, <2>4 DEF Line_Byte
    <3>2. rdrv = "WAITCOMPLETE" /\ c > 4 /\ bufbase = SubSeq(h, 4, c)
      BY <2>4, <1>3 DEF DmaActive
    <3>3. bufbase' = SubSeq(h, 4, c + 1)
      <4>1. c \in Nat /\ 4 <= c
        BY <3>2
      <4> QED BY <3>1, <3>2, <4>1, <2>3, Grow
    <3>4. c + 1 \in 0 .. Len(h) /\ c + 1 > 4 /\ c + 2 = (c + 1) + 1
      BY <2>3, <3>2, <1>1
    <3> DEFINE d == c + 1
    <3>5. d \in 0 .. Len(h) /\ d > 4 /\ toCtrl' = SubSeq(h, d + 1, Len(h))
          /\ bufbase' = SubSeq(h, 4, d)
      BY <2>3, <3>3, <3>4
    <3> HIDE DEF d
    <3>6. DriverAt(h, d)'
      BY <3>5, <3>1, <3>2, <2>1, <1>2 DEF DriverAt
    <3> QED BY <3>5, <3>6, <2>1
  <2>5. CASE ~DmaActive
    <3>1. c < 5
      <4> SUFFICES ASSUME c \in 5 .. Len(h) PROVE FALSE
        BY <1>1
      <4>1. rdrv = "WAITCOMPLETE" /\ bufbase = SubSeq(h, 4, c)
        BY DEF DriverAt
      <4>2. DmaDone
        BY <2>5, <4>1 DEF DmaActive
      <4> QED BY <4>1, <4>2, <2>3, BufferIs
    <3>2. DR' = <<h[c + 1]>> /\ UNCHANGED bufbase
      BY <1>13, <2>3, <2>5 DEF Line_Byte
    <3>3. DriverAt(h, c)'
      BY <2>1, <2>3, <3>1, <3>2 DEF DriverAt
    <3> QED BY <2>1, <3>3
  <2> QED BY <2>4, <2>5
<1>14. CASE WaitComplete
  <2>1. at = "WAITCOMPLETE" /\ at' = "OUT" /\ UNCHANGED <<toCtrl, DR>>
    BY <1>14 DEF WaitComplete, Complete
  <2>2. rdrv = "WAITCOMPLETE" /\ c > 4 /\ bufbase = SubSeq(h, 4, c)
    BY <2>1, <1>2, <1>3
  <2>3. CASE ~DmaDone
    <3>1. UNCHANGED <<packet, rdrv, bufbase>>
      BY <1>14, <2>3 DEF WaitComplete, Complete
    <3>2. DriverAt(h, c)'
      BY <2>1, <3>1 DEF DriverAt
    <3> QED BY <3>1, <3>2
  <2>4. CASE DmaDone
    <3>1. /\ rdrv' = "LOOKING_FOR_AB"
          /\ packet' = IF Matches THEN SubSeq(bufbase, 2, bufbase[1] + 2) ELSE None
      BY <1>14, <2>4 DEF WaitComplete, Complete
    <3>2. c \in 5 .. Len(h)
      BY <2>2, <1>1
    <3>3. /\ bufbase \in Seq(Bytes) /\ Len(bufbase) = c - 3 /\ bufbase[1] = Len(req)
          /\ \A n \in 1 .. c - 3 : bufbase[n] = h[n + 3]
          /\ c = Len(h)
      BY <2>2, <2>4, <3>2, BufferIs
    <3>4. CtrlIdle'
      <4>1. DR = <<>>
        BY <2>2, <1>4
      <4>2. toCtrl = <<>>
        BY <4>1, <3>3, <1>5, WholeIs
      <4> QED BY <4>1, <4>2, <2>1, <3>1 DEF CtrlIdle
    <3> DEFINE m == Len(req) + 2
               s == SubSeq(bufbase, 1, m)
               e == Len(h) - 1
               t == SubSeq(h, 4, e)
    <3>5. m \in Nat /\ m + 1 = c - 3 /\ m + 1 = Len(bufbase) /\ m <= Len(bufbase)
          /\ e \in Nat /\ e <= Len(h) /\ e = m + 3 /\ m + 4 = Len(h) /\ 2 <= m
      BY <1>1, <3>3
    <3>6. s = t
      <4> HIDE DEF m, e
      <4>1. s \in Seq(Bytes) /\ Len(s) = m /\ \A n \in 1 .. m : s[n] = bufbase[n]
        BY <3>3, <3>5
      <4>2. /\ t \in Seq(Bytes) /\ Len(t) = e - 4 + 1
            /\ \A n \in 1 .. e - 4 + 1 : t[n] = h[4 + n - 1]
        <5>1. 4 \in Nat \ {0} /\ 4 <= e + 1
          BY <3>5
        <5> QED BY <5>1, <3>5, Part
      <4>3. ASSUME NEW n \in 1 .. m PROVE s[n] = t[n]
        <5>1. n \in 1 .. c - 3 /\ n \in 1 .. e - 4 + 1 /\ 4 + n - 1 = n + 3
          BY <3>5
        <5> QED BY <5>1, <4>1, <4>2, <3>3
      <4>4. Len(s) = Len(t)
        BY <4>1, <4>2, <3>5
      <4> HIDE DEF s, t
      <4> QED BY <4>1, <4>2, <4>3, <4>4, SameSeq
    <3>7. Matches <=> h[Len(h)] = Csum(h)
      <4>1. bufbase[1] + 2 = m /\ bufbase[1] + 3 = m + 1
        BY <3>3, <1>1
      <4>2. bufbase[m + 1] = h[Len(h)]
        <5> HIDE DEF m
        <5>1. m + 1 \in 1 .. c - 3 /\ m + 1 + 3 = Len(h)
          BY <3>5
        <5> QED BY <5>1, <3>3
      <4> QED BY <4>1, <4>2, <3>6 DEF Matches, Csum
    <3>8. CASE damage = "NONE"
      <4>1. packet' = SubSeq(bufbase, 2, m)
        <5>1. bufbase[1] + 2 = m /\ Matches
          BY <3>3, <3>7, <3>8 DEF Arriving
        <5> QED BY <5>1, <3>1
      <4> HIDE DEF m, s, e, t
      <4> DEFINE u == SubSeq(bufbase, 2, m)
                 v == <<DLOOP>> \o req
      <4>2. u \in Seq(Bytes) /\ Len(u) = m - 1 /\ \A n \in 1 .. m - 1 : u[n] = bufbase[n + 1]
        BY <3>3, <3>5
      <4>3. /\ v \in Seq(Bytes) /\ Len(v) = Len(req) + 1 /\ v[1] = DLOOP
            /\ \A n \in 1 .. Len(req) : v[n + 1] = req[n]
        BY <1>1, PacketIs
      <4>4. m - 1 = Len(req) + 1
        BY <1>1 DEF m
      <4>5. h[5] = DLOOP /\ \A n \in 1 .. Len(req) : h[n + 5] = req[n]
        BY <3>8 DEF Arriving
      <4> HIDE DEF u, v
      <4>6. ASSUME NEW n \in 1 .. m - 1 PROVE u[n] = v[n]
        <5>1. n + 1 \in 1 .. c - 3 /\ n + 1 + 3 = n + 4
          BY <3>5
        <5>2. u[n] = h[n + 4]
          BY <5>1, <4>2, <3>3
        <5>3. CASE n = 1
          <6>1. 1 + 4 = 5
            OBVIOUS
          <6> QED BY <5>2, <5>3, <6>1, <4>3, <4>5
        <5>4. CASE n # 1
          <6> DEFINE l == n - 1
          <6>1. l \in 1 .. Len(req) /\ n = l + 1 /\ n + 4 = l + 5
            BY <5>4, <4>4, <1>1
          <6> HIDE DEF l
          <6> QED BY <6>1, <5>2, <4>3, <4>5
        <5> QED BY <5>3, <5>4
      <4>7. u = v
        BY <4>2, <4>3, <4>4, <4>6, SameSeq
      <4>8. packet' = v
        BY <4>1, <4>7 DEF u
      <4>9. packet' = <<DLOOP>> \o req
        BY <4>8, Zenon DEF v
      <4> QED BY <4>9, <3>4, <3>8, Zenon
    <3>9. CASE damage # "NONE"
      <4>1. packet' = None
        BY <3>1, <3>7, <3>9 DEF Arriving
      <4> QED BY <4>1, <3>4, <3>9
    <3> QED BY <3>8, <3>9
  <2> QED BY <2>3, <2>4
<1> QED BY <1>6, <1>8, <1>9, <1>10, <1>11, <1>12, <1>13, <1>14 DEF RecvDriver

LEMMA ControlsProgress ==
  ASSUME Typed, Progress, damage # "MORE", Controls \/ Line
  PROVE  Progress'
<1>1. RecvDriver \/ Line_Byte
  BY DEF Controls, Line
<1>2. UNCHANGED <<toHost, rx, dbuf, i, k, Lcsum, Tch, published, host, req, damage>>
  BY DEF Controls, Line
<1>3. ToControls
  BY <1>1, IdleDriver DEF Progress, Quiet, AtControls, ToHost, AtHost
<1>4. PICK h \in Seq(Bytes) : Arriving(h, AB, F5) /\ \E c \in 0 .. Len(h) : DriverAt(h, c)
  BY <1>3 DEF ToControls
<1>5. PICK c \in 0 .. Len(h) : DriverAt(h, c)
  BY <1>4
<1>6. \/ UNCHANGED packet /\ \E d \in 0 .. Len(h) : DriverAt(h, d)'
      \/ CtrlIdle' /\ packet' = IF damage = "NONE" THEN <<DLOOP>> \o req ELSE None
  BY <1>1, <1>2, <1>4, <1>5, DriverMoves
<1>7. host' = "WAIT" /\ HostIdle' /\ published' = None
  BY <1>2, <1>3 DEF ToControls, HostIdle
<1>8. CASE UNCHANGED packet /\ \E d \in 0 .. Len(h) : DriverAt(h, d)'
  <2>1. Arriving(h, AB, F5)'
    BY <1>2, <1>4 DEF Arriving
  <2>2. packet' = None
    BY <1>3, <1>8 DEF ToControls
  <2>3. ToControls'
    BY <1>7, <1>8, <2>1, <2>2 DEF ToControls
  <2> QED BY <2>3 DEF Progress
<1>9. CASE CtrlIdle' /\ damage = "NONE" /\ packet' = <<DLOOP>> \o req
  <2>1. AtControls'
    BY <1>2, <1>7, <1>9 DEF AtControls
  <2> QED BY <2>1 DEF Progress
<1>10. CASE CtrlIdle' /\ damage # "NONE" /\ packet' = None
  <2>1. damage' = "BYTE"
    BY <1>2, <1>10 DEF Typed, LoopOK
  <2>2. Quiet'
    BY <1>7, <1>10, <2>1 DEF Quiet
  <2> QED BY <2>2 DEF Progress
<1> QED BY <1>6, <1>8, <1>9, <1>10

(* The host's receiver goes through a frame byte by byte.                  *)
LEMMA SumGrows ==
  ASSUME NEW h \in Seq(Bytes), NEW p \in Nat, 4 <= p, p < Len(h)
  PROVE  /\ SumOf(SubSeq(h, 4, p)) \in Bytes
         /\ SumOf(SubSeq(h, 4, p + 1)) = (SumOf(SubSeq(h, 4, p)) + h[p + 1]) % BYTE
         /\ SumOf(SubSeq(h, 4, 4)) = h[4]
<1> DEFINE s == SubSeq(h, 4, p)
           x == h[p + 1]
           y == h[4]
<1>1. s \in Seq(Bytes) /\ x \in Bytes /\ y \in Bytes
  OBVIOUS
<1>2. Append(s, x) = SubSeq(h, 4, p + 1) /\ SubSeq(h, 4, 4) = <<y>>
  BY Grow
<1> HIDE DEF s, x, y
<1>3. SumOf(s) \in Bytes /\ SumOf(Append(s, x)) = (SumOf(s) + x) % BYTE
  BY <1>1, SumAppend
<1>4. SumOf(<<y>>) = y
  <2>1. <<>> \in Seq(Bytes) /\ Append(<<>>, y) = <<y>>
    OBVIOUS
  <2>2. SumOf(<<>>) = 0 /\ SumOf(Append(<<>>, y)) = (SumOf(<<>>) + y) % BYTE
    BY <1>1, <2>1, SumAppend
  <2>3. (0 + y) % BYTE = y
    <3>1. y \in Nat /\ y < BYTE /\ BYTE \in Nat \ {0}
      BY <1>1, ByteIs
    <3>2. 0 + y = y /\ y % BYTE = y
      BY <3>1
    <3> QED BY <3>2
  <2> QED BY <2>1, <2>2, <2>3
<1> QED BY <1>2, <1>3, <1>4 DEF s, x, y

LEMMA HostMoves ==
  ASSUME Typed, NEW h \in Seq(Bytes), Arriving(h, CC, F57),
         NEW p \in 0 .. Len(h), HostAt(h, p), published = None,
         Get_Input_Packet, UNCHANGED <<req, damage>>
  PROVE  \/ published' = None /\ \E q \in 0 .. Len(h) : HostAt(h, q)'
         \/ HostIdle' /\ published' = IF damage = "NONE" THEN <<DLOOP>> \o req ELSE None
<1>1. /\ req \in Seq(Bytes) /\ Len(req) \in Nat /\ Len(req) < BYTE /\ Len(h) = Len(req) + 6
      /\ h[4] = Len(req)
  BY ReqIs DEF Typed, Arriving
<1>2. toHost = SubSeq(h, p + 1, Len(h))
  BY DEF HostAt
<1>3. /\ rx = "HUNT" => p = 0
      /\ rx = "START2" => p = 1
      /\ rx = "TAG" => p = 2
      /\ rx = "LEN" => p = 3
      /\ rx = "CMD" => p = 4 /\ dbuf[0] = h[4]
      /\ rx = "DATA" => p > 4
  <2>1. p \in Nat
    BY <1>1
  <2>2. p = 0 \/ p = 1 \/ p = 2 \/ p = 3 \/ p = 4 \/ p > 4
    BY <2>1
  <2> QED BY <2>2 DEF HostAt
<1>4. p > 4 => /\ rx = "DATA" /\ i = p - 3 /\ k = p - 5 /\ dbuf[0] = Len(req)
               /\ \A n \in 0 .. p - 4 : dbuf[n] = h[n + 4]
               /\ Lcsum = SumOf(SubSeq(h, 4, p))
               /\ p > 5 => Tch = h[p]
  <2>1. p > 4 => 0 \in 0 .. p - 4 /\ 0 + 4 = 4
    BY <1>1
  <2> QED BY <2>1, <1>1 DEF HostAt
<1>5. ASSUME NEW state, NEW byte, Read(state, byte)
      PROVE  /\ rx = state /\ byte = h[p + 1] /\ p < Len(h) /\ p + 1 \in 0 .. Len(h)
             /\ toHost' = SubSeq(h, (p + 1) + 1, Len(h))
  <2>1. rx = state /\ toHost # <<>> /\ byte = Head(toHost) /\ toHost' = Tail(toHost)
    BY <1>5 DEF Read
  <2>2. p # Len(h)
    BY <2>1, <1>2, Rest
  <2>3. p < Len(h) /\ p + 1 \in 0 .. Len(h) /\ (p + 1) + 1 = p + 2
    BY <2>2, <1>1
  <2> QED BY <2>1, <2>3, <1>2, Rest
<1>6. dbuf \in [0 .. BYTE + 1 -> Bytes]
  BY DEF Typed, SerialOK
<1>7. ASSUME NEW byte \in Bytes, Hunt(byte) PROVE published' = None /\ HostAt(h, 1)'
  <2>1. Read("HUNT", byte) /\ UNCHANGED published
    BY <1>7 DEF Hunt
  <2>2. p = 0 /\ byte = h[p + 1] /\ toHost' = SubSeq(h, (p + 1) + 1, Len(h))
    BY <2>1, <1>3, <1>5
  <2>3. byte = CC /\ toHost' = SubSeq(h, 1 + 1, Len(h))
    BY <2>2 DEF Arriving
  <2>4. rx' = "START2"
    BY <1>7, <2>3 DEF Hunt
  <2> QED BY <2>1, <2>3, <2>4 DEF HostAt
<1>8. ASSUME NEW byte \in Bytes, Start2(byte) PROVE published' = None /\ HostAt(h, 2)'
  <2>1. Read("START2", byte) /\ UNCHANGED published
    BY <1>8 DEF Start2
  <2>2. p = 1 /\ byte = h[p + 1] /\ toHost' = SubSeq(h, (p + 1) + 1, Len(h))
    BY <2>1, <1>3, <1>5
  <2>3. byte = F57 /\ toHost' = SubSeq(h, 2 + 1, Len(h))
    BY <2>2 DEF Arriving
  <2>4. rx' = "TAG"
    BY <1>8, <2>3 DEF Start2
  <2> QED BY <2>1, <2>3, <2>4 DEF HostAt
<1>9. ASSUME NEW byte \in Bytes, Tag(byte) PROVE published' = None /\ HostAt(h, 3)'
  <2>1. Read("TAG", byte) /\ UNCHANGED published /\ rx' = "LEN"
    BY <1>9 DEF Tag
  <2>2. p = 2 /\ toHost' = SubSeq(h, (p + 1) + 1, Len(h))
    BY <2>1, <1>3, <1>5
  <2>3. toHost' = SubSeq(h, 3 + 1, Len(h))
    BY <2>2
  <2> QED BY <2>1, <2>3 DEF HostAt
<1>10. ASSUME NEW byte \in Bytes, GetLength(byte) PROVE published' = None /\ HostAt(h, 4)'
  <2>1. Read("LEN", byte) /\ UNCHANGED published /\ rx' = "CMD"
    BY <1>10 DEF GetLength
  <2>2. p = 3 /\ byte = h[p + 1] /\ toHost' = SubSeq(h, (p + 1) + 1, Len(h))
    BY <2>1, <1>3, <1>5
  <2>3. byte = h[4] /\ toHost' = SubSeq(h, 4 + 1, Len(h))
    BY <2>2
  <2>4. dbuf'[0] = byte
    BY <1>6, <1>10, ByteIs DEF GetLength
  <2> QED BY <2>1, <2>3, <2>4 DEF HostAt
<1>11. ASSUME NEW byte \in Bytes, GetCmd(byte) PROVE published' = None /\ HostAt(h, 5)'
  <2>1. /\ Read("CMD", byte) /\ UNCHANGED published /\ rx' = "DATA" /\ i' = 2 /\ k' = 0
        /\ Lcsum' = (byte + dbuf[0]) % BYTE
    BY <1>11 DEF GetCmd
  <2>2. /\ p = 4 /\ byte = h[p + 1] /\ toHost' = SubSeq(h, (p + 1) + 1, Len(h))
        /\ dbuf[0] = h[4]
    BY <2>1, <1>3, <1>5
  <2>3. byte = h[5] /\ toHost' = SubSeq(h, 5 + 1, Len(h))
    BY <2>2
  <2>4. dbuf'[0] = h[4] /\ dbuf'[1] = byte
    BY <1>6, <1>11, <2>2, ByteIs DEF GetCmd
  <2>5. \A n \in 0 .. 1 : dbuf'[n] = h[n + 4]
    <3>1. \A n \in 0 .. 1 : (n = 0 /\ n + 4 = 4) \/ (n = 1 /\ n + 4 = 5)
      OBVIOUS
    <3> QED BY <3>1, <2>3, <2>4
  <2>6. Lcsum' = SumOf(SubSeq(h, 4, 5))
    <3>1. SumOf(SubSeq(h, 4, 4 + 1)) = (SumOf(SubSeq(h, 4, 4)) + h[4 + 1]) % BYTE
          /\ SumOf(SubSeq(h, 4, 4)) = h[4]
      <4>1. 4 \in Nat /\ 4 <= 4 /\ 4 < Len(h)
        BY <1>1
      <4> QED BY <4>1, SumGrows
    <3>2. 4 + 1 = 5 /\ byte + h[4] = h[4] + byte
      <4>1. byte \in Nat /\ h[4] \in Nat
        BY <1>1, ByteIs
      <4> QED BY <4>1
    <3> QED BY <2>1, <2>2, <2>3, <3>1, <3>2
  <2>7. 5 - 3 = 2 /\ 5 - 5 = 0 /\ 5 - 4 = 1
    OBVIOUS
  <2> QED BY <2>1, <2>3, <2>5, <2>6, <2>7 DEF HostAt
<1>12. ASSUME NEW byte \in Bytes, GetData(byte)
       PROVE  published' = None /\ \E q \in 0 .. Len(h) : HostAt(h, q)'
  <2>1. /\ Read("DATA", byte) /\ UNCHANGED <<rx, published>> /\ i' = i + 1 /\ k' = k + 1
        /\ dbuf' = [dbuf EXCEPT ![i] = byte]
        /\ Lcsum' = (Lcsum + byte) % BYTE /\ Tch' = byte
    BY <1>12 DEF GetData
  <2>2. /\ p > 4 /\ rx = "DATA" /\ byte = h[p + 1] /\ p < Len(h) /\ p + 1 \in 0 .. Len(h)
        /\ toHost' = SubSeq(h, (p + 1) + 1, Len(h))
    BY <2>1, <1>3, <1>5
  <2> DEFINE q == p + 1
  <2>3. /\ q \in 0 .. Len(h) /\ q > 5 /\ i' = q - 3 /\ k' = q - 5 /\ i = q - 4
        /\ i \in 0 .. BYTE + 1
    BY <2>1, <2>2, <1>1, <1>4, ByteIs
  <2>4. \A n \in 0 .. q - 4 : dbuf'[n] = h[n + 4]
    <3>1. ASSUME NEW n \in 0 .. q - 4 PROVE dbuf'[n] = h[n + 4]
      <4>1. CASE n = i
        <5>1. dbuf'[n] = byte
          BY <4>1, <2>1, <2>3, <1>6
        <5>2. n + 4 = p + 1
          BY <4>1, <2>3
        <5> QED BY <5>1, <5>2, <2>2
      <4>2. CASE n # i
        <5>1. n \in 0 .. p - 4
          BY <4>2, <2>3
        <5>2. dbuf'[n] = dbuf[n]
          <6>1. n \in 0 .. BYTE + 1
            BY <2>3, ByteIs
          <6> QED BY <6>1, <4>2, <2>1, <1>6
        <5> QED BY <5>1, <5>2, <2>2, <1>4
      <4> QED BY <4>1, <4>2
    <3> QED BY <3>1
  <2>5. Lcsum' = SumOf(SubSeq(h, 4, q))
    <3>1. p \in Nat /\ 4 <= p
      BY <2>2
    <3>2. SumOf(SubSeq(h, 4, p + 1)) = (SumOf(SubSeq(h, 4, p)) + h[p + 1]) % BYTE
      BY <3>1, <2>2, SumGrows
    <3> QED BY <3>2, <2>1, <2>2, <1>4
  <2>6. Tch' = h[q] /\ toHost' = SubSeq(h, q + 1, Len(h)) /\ rx' = "DATA"
    BY <2>1, <2>2
  <2> HIDE DEF q
  <2>7. HostAt(h, q)'
    <3>1. q > 4 /\ q \in Nat
      BY <2>3
    <3> QED BY <3>1, <2>3, <2>4, <2>5, <2>6 DEF HostAt
  <2> QED BY <2>1, <2>3, <2>7
<1>13. CASE CharTimeout
  <2>1. toHost = <<>>
    BY <1>13 DEF CharTimeout
  <2>2. p = Len(h)
    BY <2>1, <1>2, Rest
  <2>3. p > 4
    BY <2>2, <1>1
  <2>4. ~More
    BY <2>2, <2>3, <1>1, <1>4 DEF More
  <2> QED BY <2>3, <2>4, <1>4, <1>13 DEF CharTimeout
<1>14. CASE EndOfPacket
  <2>1. /\ rx = "DATA" /\ ~More /\ rx' = "HUNT" /\ UNCHANGED toHost
        /\ published' = IF (Lcsum + BYTE - Tch) % BYTE = dbuf[dbuf[0] + 2]
                          THEN [n \in 1 .. dbuf[0] + 1 |-> dbuf[n]] ELSE None
    BY <1>14 DEF EndOfPacket
  <2>2. p = Len(h) /\ p > 5
    <3>1. p > 4
      BY <2>1, <1>3
    <3> QED BY <3>1, <2>1, <1>1, <1>4 DEF More
  <2>3. HostIdle'
    BY <2>1, <2>2, <1>2, WholeIs DEF HostIdle
  <2> DEFINE e == Len(h) - 1
             u == Csum(h)
             c == h[Len(h)]
  <2>4. e \in Nat /\ 4 <= e /\ e < Len(h) /\ e + 1 = Len(h) /\ Len(h) \in 1 .. Len(h)
    BY <1>1
  <2>5. u \in Bytes /\ c \in Bytes /\ Lcsum = (u + c) % BYTE /\ Tch = c
    <3>1. /\ SumOf(SubSeq(h, 4, e)) \in Bytes
          /\ SumOf(SubSeq(h, 4, e + 1)) = (SumOf(SubSeq(h, 4, e)) + h[e + 1]) % BYTE
      <4> HIDE DEF e
      <4> QED BY <2>4, SumGrows
    <3>2. Lcsum = SumOf(SubSeq(h, 4, Len(h))) /\ Tch = h[Len(h)]
      BY <2>2, <1>4
    <3>3. c \in Bytes
      BY <2>4
    <3> QED BY <3>1, <3>2, <3>3, <2>4 DEF Csum
  <2>6. dbuf[dbuf[0] + 2] = c
    <3>1. dbuf[0] + 2 \in 0 .. p - 4 /\ dbuf[0] + 2 + 4 = Len(h)
      BY <2>2, <1>1, <1>4
    <3> QED BY <3>1, <2>2, <1>4
  <2> HIDE DEF e, u, c
  <2>7. (Lcsum + BYTE - Tch) % BYTE = u
    <3>1. (((u + c) % BYTE) + BYTE - c) % BYTE = u
      BY <2>5, Modulo
    <3> QED BY <3>1, <2>5
  <2>8. published' = IF u = c THEN [n \in 1 .. dbuf[0] + 1 |-> dbuf[n]] ELSE None
    BY <2>1, <2>6, <2>7
  <2>9. u = c <=> damage = "NONE"
    BY DEF Arriving, u, c
  <2>10. CASE damage = "NONE"
    <3> DEFINE m == Len(req) + 1
               s == [n \in 1 .. m |-> dbuf[n]]
               v == <<DLOOP>> \o req
    <3>1. published' = s
      <4>1. dbuf[0] + 1 = m
        BY <2>2, <1>4
      <4> QED BY <4>1, <2>8, <2>9, <2>10
    <3>2. m \in Nat /\ m <= BYTE /\ p - 4 = m + 1
      BY <2>2, <1>1, ByteIs
    <3> HIDE DEF m
    <3>3. \A n \in 1 .. m : dbuf[n] \in Bytes
      BY <3>2, <1>6, ByteIs
    <3>4. s \in Seq(Bytes) /\ Len(s) = m /\ \A n \in 1 .. m : s[n] = dbuf[n]
      BY <3>2, <3>3
    <3>5. /\ v \in Seq(Bytes) /\ Len(v) = Len(req) + 1 /\ v[1] = DLOOP
          /\ \A n \in 1 .. Len(req) : v[n + 1] = req[n]
      BY <1>1, PacketIs
    <3>6. h[5] = DLOOP /\ \A n \in 1 .. Len(req) : h[n + 5] = req[n]
      BY <2>10 DEF Arriving
    <3> HIDE DEF s, v
    <3>7. ASSUME NEW n \in 1 .. m PROVE s[n] = v[n]
      <4>1. s[n] = h[n + 4]
        <5>1. n \in 0 .. p - 4
          BY <3>2
        <5> QED BY <5>1, <3>4, <2>2, <1>4
      <4>2. CASE n = 1
        <5>1. 1 + 4 = 5
          OBVIOUS
        <5> QED BY <4>1, <4>2, <5>1, <3>5, <3>6
      <4>3. CASE n # 1
        <5> DEFINE l == n - 1
        <5>1. l \in 1 .. Len(req) /\ n = l + 1 /\ n + 4 = l + 5
          BY <4>3, <1>1 DEF m
        <5> HIDE DEF l
        <5> QED BY <5>1, <4>1, <3>5, <3>6
      <4> QED BY <4>2, <4>3
    <3>8. s = v
      <4>1. Len(v) = m
        BY <3>5 DEF m
      <4> QED BY <4>1, <3>4, <3>5, <3>7, SameSeq
    <3>9. published' = v
      BY <3>1, <3>8
    <3>10. published' = <<DLOOP>> \o req
      BY <3>9, Zenon DEF v
    <3> QED BY <3>10, <2>3, <2>10, Zenon
  <2>11. CASE damage # "NONE"
    BY <2>3, <2>8, <2>9, <2>11
  <2> QED BY <2>10, <2>11
<1>15. /\ 1 \in 0 .. Len(h) /\ 2 \in 0 .. Len(h) /\ 3 \in 0 .. Len(h)
       /\ 4 \in 0 .. Len(h) /\ 5 \in 0 .. Len(h)
  BY <1>1
<1> QED BY <1>7, <1>8, <1>9, <1>10, <1>11, <1>12, <1>13, <1>14, <1>15 DEF Get_Input_Packet

LEMMA SerialProgress ==
  ASSUME Typed, Progress, damage # "MORE", Serial
  PROVE  Progress'
<1>1. Get_Input_Packet
  BY DEF Serial
<1>2. UNCHANGED <<toCtrl, DR, rdrv, at, packet, host, req, damage>>
  BY DEF Serial
<1>3. ToHost
  BY <1>1, IdleSerial DEF Progress, Quiet, ToControls, AtControls, AtHost
<1>4. PICK h \in Seq(Bytes) : Arriving(h, CC, F57) /\ \E p \in 0 .. Len(h) : HostAt(h, p)
  BY <1>3 DEF ToHost
<1>5. PICK p \in 0 .. Len(h) : HostAt(h, p)
  BY <1>4
<1>6. published = None
  BY <1>3 DEF ToHost
<1>7. \/ published' = None /\ \E q \in 0 .. Len(h) : HostAt(h, q)'
      \/ HostIdle' /\ published' = IF damage = "NONE" THEN <<DLOOP>> \o req ELSE None
  BY <1>1, <1>2, <1>4, <1>5, <1>6, HostMoves
<1>8. host' = "WAIT" /\ CtrlIdle' /\ packet' = None
  BY <1>2, <1>3 DEF ToHost, CtrlIdle
<1>9. CASE published' = None /\ \E q \in 0 .. Len(h) : HostAt(h, q)'
  <2>1. Arriving(h, CC, F57)'
    BY <1>2, <1>4 DEF Arriving
  <2>2. ToHost'
    BY <1>8, <1>9, <2>1 DEF ToHost
  <2> QED BY <2>2 DEF Progress
<1>10. CASE HostIdle' /\ damage = "NONE" /\ published' = <<DLOOP>> \o req
  <2>1. AtHost'
    BY <1>2, <1>8, <1>10 DEF AtHost
  <2> QED BY <2>1 DEF Progress
<1>11. CASE HostIdle' /\ damage # "NONE" /\ published' = None
  <2>1. damage' = "BYTE"
    BY <1>2, <1>11 DEF Typed, LoopOK
  <2>2. Quiet'
    BY <1>8, <1>11, <2>1 DEF Quiet
  <2> QED BY <2>2 DEF Progress
<1> QED BY <1>7, <1>9, <1>10, <1>11

LEMMA ProgressStep == ASSUME Typed, Progress, [Next]_vars PROVE Progress'
<1>1. CASE Dloop_Send
  BY <1>1, SendProgress
<1>2. CASE ~Dloop_Send /\ damage = "MORE"
  BY <1>2, MoreStays DEF Progress
<1>3. CASE ~Dloop_Send /\ damage # "MORE"
  <2>1. CASE Controls \/ Line
    BY <1>3, <2>1, ControlsProgress
  <2>2. CASE Serial
    BY <1>3, <2>2, SerialProgress
  <2>3. CASE Controls_Answer
    BY <1>3, <2>3, AnswerProgress
  <2>4. CASE Response
    BY <1>3, <2>4, ResponseProgress
  <2>5. CASE Timeout
    BY <1>3, <2>5, TimeoutProgress
  <2>6. CASE Line_Noise
    BY <1>3, <2>6, NoiseProgress
  <2>7. CASE Controls_Reset
    BY <2>7 DEF Controls_Reset, Progress
  <2>8. CASE UNCHANGED vars
    <3>1. UNCHANGED <<toCtrl, DR, rdrv, at, bufbase, packet>>
          /\ UNCHANGED <<toHost, rx, dbuf, i, k, Lcsum, Tch, published>>
          /\ UNCHANGED <<host, req, damage>>
      BY <2>8
    <3>2. (Quiet => Quiet') /\ (AtControls => AtControls') /\ (AtHost => AtHost')
      BY <3>1 DEF Quiet, AtControls, AtHost, CtrlIdle, HostIdle
    <3>3. \A h \in Seq(Bytes) : /\ Arriving(h, AB, F5) => Arriving(h, AB, F5)'
                                /\ Arriving(h, CC, F57) => Arriving(h, CC, F57)'
      BY <3>1 DEF Arriving
    <3>4. \A h \in Seq(Bytes) : \A c \in 0 .. Len(h) :
            (DriverAt(h, c) => DriverAt(h, c)') /\ (HostAt(h, c) => HostAt(h, c)')
      BY <3>1 DEF DriverAt, HostAt
    <3>5. ToControls => ToControls'
      BY <3>1, <3>3, <3>4 DEF ToControls, HostIdle
    <3>6. ToHost => ToHost'
      BY <3>1, <3>3, <3>4 DEF ToHost, CtrlIdle
    <3> QED BY <1>3, <3>2, <3>5, <3>6 DEF Progress
  <2> QED BY <1>3, <2>1, <2>2, <2>3, <2>4, <2>5, <2>6, <2>7, <2>8 DEF Next, PC_dloop
<1> QED BY <1>1, <1>2, <1>3

LEMMA InitProgress == Init => Progress
BY DEF Init, RF_Init, RF_Reset, SR_Init, Progress, Quiet, CtrlIdle, HostIdle, None

(* Types and progress together are inductive.                              *)
LoopInv == Typed /\ Progress

LEMMA LoopInvariant == Spec => []LoopInv
<1>1. Init => LoopInv
  BY InitTyped, InitProgress DEF LoopInv
<1>2. LoopInv /\ [Next]_vars => LoopInv'
  BY TypedStep, ProgressStep DEF LoopInv
<1> QED BY <1>1, <1>2, PTL DEF Spec

(* In a loop-back begun with both receivers in step: wherever noise        *)
(* changed one byte after the length, and whatever it made of it, neither  *)
(* side takes the frame for another one; what a receiver hands on is the   *)
(* loop-back that was sent, or nothing.  A lost or added byte, a changed   *)
(* length and a second change are excluded (damage is then "MORE").        *)
THEOREM NeverForged == Spec => []NothingForged
<1>1. LoopInv => NothingForged
  BY DEF LoopInv, Progress, Quiet, ToControls, AtControls, ToHost, AtHost, NothingForged
<1> QED BY <1>1, LoopInvariant, PTL

(* A loop-back that began with both receivers in step and was not          *)
(* disturbed ends with the answer that equals its data, wherever between   *)
(* the driver's tests the bytes arrive; it never runs into the time-out.   *)
THEOREM CleanLoopsSucceed == Spec => CleanSucceeds
<1> DEFINE A == host = "WAIT" /\ host' = "IDLE" /\ damage = "NONE" => done'
<1>1. LoopInv /\ [Next]_vars => [A]_vars
  <2> SUFFICES ASSUME LoopInv, [Next]_vars, host = "WAIT", host' = "IDLE", damage = "NONE"
               PROVE  done'
    OBVIOUS
  <2>1. Typed /\ Progress /\ damage # "MORE"
    BY DEF LoopInv
  <2>2. CASE Response
    BY <2>1, <2>2, ResponseProgress
  <2>3. CASE Timeout
    BY <2>1, <2>3, TimeoutProgress
  <2>4. CASE Dloop_Send \/ Controls_Answer \/ Line_Noise \/ Controls_Reset
    BY <2>4 DEF Dloop_Send, Controls_Answer, Line_Noise, Controls_Reset
  <2>5. CASE Controls \/ Line \/ Serial \/ UNCHANGED vars
    BY <2>5 DEF Controls, Line, Serial
  <2> QED BY <2>2, <2>3, <2>4, <2>5 DEF Next, PC_dloop
<1> QED BY <1>1, LoopInvariant, PTL DEF Spec, CleanSucceeds

(* The host's receiver stores nothing outside its buffer, whatever length  *)
(* a damaged byte names and however character timeouts fall: its index and *)
(* its count run apart only downwards.                                     *)
THEOREM ReceiverStaysInBuffer == Spec => []StaysInBuffer
<1>1. LoopInv => StaysInBuffer
  <2> SUFFICES ASSUME Typed, rx = "DATA", More PROVE i \in DOMAIN dbuf
    BY DEF LoopInv, StaysInBuffer
  <2>1. dbuf \in [0 .. BYTE + 1 -> Bytes]
    BY DEF Typed, SerialOK
  <2>2. dbuf[0] \in Bytes
    BY <2>1, ByteIs
  <2>3. i \in 0 .. BYTE + 2 /\ k \in 0 .. BYTE /\ i \in 2 .. k + 2 /\ k < dbuf[0] + 1
    BY DEF Typed, SerialOK, More
  <2>4. i \in 0 .. BYTE + 1
    BY <2>2, <2>3, ByteIs
  <2> QED BY <2>1, <2>4
<1> QED BY <1>1, LoopInvariant, PTL
=============================================================================
