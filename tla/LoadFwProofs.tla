---------------------------- MODULE LoadFwProofs ----------------------------
(***************************************************************************)
(* Proofs about the firmware loader (LoadFw), for files, blocks and tables *)
(* of any size: a chip that was told to start holds what it must.          *)
(***************************************************************************)
EXTENDS LoadFw, TLAPS

(* The script of the revision that was read, and that of the chip.         *)
Good == mode \in {"normal", "test"}
Read == FastScript(chip, chipId, chipMcuId, mode)
Own == FastScript(chip, rev, isMcu, mode)
Known == chipId = rev /\ (isMcu => chipMcuId)

Setup ==
    /\ chip \in Chips /\ rev \in Revs(chip) /\ isMcu \in BOOLEAN /\ (chip = "8800" => ~isMcu)
    /\ mode \in Modes /\ size \in Sizes /\ fast \in BOOLEAN
    /\ chipId \in Revs(chip) \cup {"0"} /\ chipMcuId \in BOOLEAN
    /\ at \in Nat \ {0} /\ cmdNo \in Nat

(* All commands of a step but the last d have taken effect; a file that    *)
(* may be missing and is has none.                                         *)
Whole(s, d) ==
    Kept(s) /\ ~(s.op = "flash" /\ missing = "flash") =>
        \A c \in 0 .. NCmds(s) - 1 - d : Writes(s, c) \subseteq mem

(* A probe that is under way has found out what the chip is, unless it is  *)
(* about to fail; while commands are confirmed all that was sent is        *)
(* there, and after one was lost the next one fails.                       *)
Confirmed ==
    /\ \A n \in 1 .. at - 1 : Whole(Read[n], 0)
    /\ at <= Len(Read) /\ Kept(Read[at]) => \A c \in 0 .. cmdNo - 1 : Writes(Read[at], c) \subseteq mem
    /\ \A n \in 1 .. at - 1 :
         /\ Read[n].op = "readid" => chipId = rev /\ (chip = "d80" /\ isMcu => chipMcuId)
         /\ Read[n].op = "readmcu" /\ isMcu => chipMcuId
LostLast ==
    (\A n \in at .. Len(Read) : ~Sent(Read[n])) =>
        \A n \in 1 .. at - 1 : Whole(Read[n], IF LastSent(Read, n) THEN 1 ELSE 0)
Probing ==
    pc = "run" /\ fast /\ Good =>
        /\ at \in 1 .. Len(Read) + 1 /\ cmdNo \in Nat
        /\ at <= Len(Read) /\ Kept(Read[at]) => cmdNo < NCmds(Read[at])
        /\ pending = "start" => at = Len(Read) + 1
        /\ IF crashed THEN LostLast ELSE Confirmed
        /\ at > Len(Identify(chip)) =>
             Known \/ (crashed /\ at = Len(Identify(chip)) + 1)

(* What was written is of the chip's own revision.                         *)
OwnWords == AllWords(Own) \cup Needed(Own)
OwnFiles == Good => \A x \in mem : x[1][2] # "any" => x \in OwnWords
HoldsAll ==
    /\ Needed(Own) \subseteq mem
    /\ AllWords(Own) \subseteq mem \cup LastWords(Own)
    /\ {x \in mem : x[1][2] # "any"} \subseteq OwnWords
Started == pending = "start" /\ Good => fast /\ pc \in {"idle", "run"} /\ HoldsAll

LoadInv == Setup /\ Probing /\ OwnFiles /\ Started

-----------------------------------------------------------------------------
(* Nothing but the setup decides what a chip must hold.                    *)
LEMMA SetupKept ==
    ASSUME UNCHANGED setupVars
    PROVE  OwnWords' = OwnWords /\ Own' = Own
BY DEF setupVars, OwnWords, Own, AllWords, Needed, Commands, Writes, Words, NCmds, BlockWords, NBlocks, NFull

(* What a step writes, and how many commands it has, is decided by it.     *)
LEMMA StepKept ==
    ASSUME UNCHANGED setupVars, NEW s, NEW c
    PROVE  NCmds(s)' = NCmds(s) /\ Writes(s, c)' = Writes(s, c)
BY DEF setupVars, Writes, Words, NCmds, BlockWords, NBlocks, NFull

(* The blocks of a file are within it and leave no word out.               *)
LEMMA Blocks ==
    ASSUME NEW z \in Nat \ {0}
    PROVE  /\ NFull(z) \in Nat /\ NBlocks(z) = NFull(z) + 1
           /\ \A b \in Nat : BlockWords(z, b) \subseteq 0 .. z - 1
           /\ \A w \in 0 .. z - 1 : \E b \in 0 .. NBlocks(z) - 1 : w \in BlockWords(z, b)
<1>1. B \in Nat \ {0}
  BY LoadFwAssumption
<1>2. PICK f : f = NFull(z)
  OBVIOUS
<1>3. f \in Nat /\ f * B < z /\ (f = 0 => z <= B) /\ z <= (f + 1) * B
  <2>1. CASE z > B
    <3>1. PICK g \in Nat : g = (z - 1) \div B
      BY <1>1
    <3>2. f = g
      BY <1>2, <2>1, <3>1 DEF NFull
    <3>3. PICK r \in 0 .. B - 1 : r = (z - 1) % B
      BY <1>1
    <3>4. z - 1 = B * g + r
      BY <1>1, <3>1, <3>3
    <3>5. g * B = B * g /\ (g + 1) * B = B * g + B /\ g * B \in Nat
      BY <1>1, <3>1
    <3>6. g # 0
      BY <1>1, <2>1, <3>3, <3>4
    <3> QED BY <1>1, <3>2, <3>3, <3>4, <3>5, <3>6
  <2>2. CASE z <= B
    <3>1. f = 0
      BY <1>1, <1>2, <2>2 DEF NFull
    <3>2. 0 * B = 0 /\ (0 + 1) * B = B
      BY <1>1
    <3> QED BY <1>1, <2>2, <3>1, <3>2
  <2> QED BY <1>1, <2>1, <2>2
<1>4. NBlocks(z) = f + 1
  BY <1>2, <1>3 DEF NBlocks
<1>5. ASSUME NEW b \in Nat PROVE BlockWords(z, b) \subseteq 0 .. z - 1
  <2>1. b * B \in Nat
    BY <1>1
  <2>2. CASE b < f
    <3>1. b * B + B <= f * B
      <4>1. PICK e \in Nat : f = b + 1 + e
        BY <1>3, <2>2
      <4>2. f * B = b * B + B + e * B /\ e * B \in Nat
        BY <1>1, <4>1
      <4> QED BY <1>1, <2>1, <4>2
    <3>2. f * B \in Nat
      BY <1>1, <1>3
    <3> QED BY <1>1, <1>2, <1>3, <2>1, <2>2, <3>1, <3>2 DEF BlockWords
  <2>3. CASE ~(b < f)
    BY <1>2, <2>1, <2>3 DEF BlockWords
  <2> QED BY <2>2, <2>3
<1>6. ASSUME NEW w \in 0 .. z - 1 PROVE \E b \in 0 .. f : w \in BlockWords(z, b)
  <2>1. CASE w >= f * B
    <3>1. w \in BlockWords(z, f)
      BY <1>1, <1>2, <1>3, <2>1 DEF BlockWords
    <3> QED BY <1>3, <3>1
  <2>2. CASE w < f * B
    <3>1. PICK b \in Nat : b = w \div B
      BY <1>1
    <3>2. PICK r \in 0 .. B - 1 : r = w % B
      BY <1>1
    <3>3. w = B * b + r /\ b * B = B * b
      BY <1>1, <3>1, <3>2
    <3>4. b < f
      <4> SUFFICES ASSUME b >= f PROVE FALSE
        BY <1>3
      <4>1. PICK e \in Nat : b = f + e
        BY <1>3
      <4>2. b * B = f * B + e * B /\ e * B \in Nat /\ f * B \in Nat
        BY <1>1, <1>3, <4>1
      <4> QED BY <1>1, <2>2, <3>2, <3>3, <4>2
    <3>5. w \in BlockWords(z, b)
      BY <1>1, <1>2, <3>2, <3>3, <3>4 DEF BlockWords
    <3> QED BY <1>3, <3>4, <3>5
  <2> QED BY <1>1, <1>3, <2>1, <2>2
<1> QED BY <1>2, <1>3, <1>4, <1>5, <1>6

(* The sizes are numbers.                                                  *)
LEMMA Sized ==
    ASSUME Setup
    PROVE  size \in Nat \ {0} /\ Regs \in Nat \ {0} /\ NBlocks(size) \in Nat \ {0}
<1>1. size \in Nat \ {0} /\ Regs \in Nat \ {0}
  BY LoadFwAssumption DEF Setup
<1>2. NBlocks(size) \in Nat \ {0}
  BY <1>1, Blocks
<1> QED BY <1>1, <1>2

(* A step that sends has commands.                                         *)
LEMMA Counts ==
    ASSUME Setup, NEW s, Sent(s)
    PROVE  NCmds(s) \in Nat \ {0} /\ NCmds(s) <= Regs + NBlocks(size)
<1>1. size \in Nat \ {0} /\ Regs \in Nat \ {0}
  BY Sized
<1>2. NBlocks(size) \in Nat \ {0}
  BY Sized
<1>3. NCmds(s) \in {NBlocks(size), Regs, 1}
  BY DEF NCmds, Sent
<1> QED BY <1>1, <1>2, <1>3

(* The steps that identify the chip.                                       *)
LEMMA IdentifyIs ==
    ASSUME NEW c
    PROVE  /\ Len(Identify(c)) \in {1, 4}
           /\ \A n \in 1 .. Len(Identify(c)) :
                /\ Identify(c)[n].op \in {"write", "read", "readid", "readmcu"}
                /\ Identify(c)[n].on = "fail" /\ Identify(c)[n].f[2] = "any"
           /\ \E n \in 1 .. Len(Identify(c)) : Identify(c)[n].op = "readid"
           /\ c = "d80x2" => \E n \in 1 .. Len(Identify(c)) : Identify(c)[n].op = "readmcu"
<1>1. CASE c = "d80x2"
  <2>1. PICK s : s = Identify(c)
    OBVIOUS
  <2>2. s = <<[op |-> "write", f |-> <<"clock", "any">>, on |-> "fail"],
              [op |-> "read", f |-> <<"clock", "any">>, on |-> "fail"],
              [op |-> "readid", f |-> <<"id", "any">>, on |-> "fail"],
              [op |-> "readmcu", f |-> <<"mcu", "any">>, on |-> "fail"]>>
    BY <1>1, <2>1 DEF Identify, Write, Step, RStep
  <2>3. Len(s) = 4
    BY <2>2
  <2>4. /\ s[1].op = "write" /\ s[1].on = "fail" /\ s[1].f[2] = "any"
        /\ s[2].op = "read" /\ s[2].on = "fail" /\ s[2].f[2] = "any"
        /\ s[3].op = "readid" /\ s[3].on = "fail" /\ s[3].f[2] = "any"
        /\ s[4].op = "readmcu" /\ s[4].on = "fail" /\ s[4].f[2] = "any"
    BY <2>2
  <2>5. \A n \in 1 .. 4 : n = 1 \/ n = 2 \/ n = 3 \/ n = 4
    OBVIOUS
  <2> QED BY <2>1, <2>3, <2>4, <2>5
<1>2. CASE c # "d80x2"
  <2>1. PICK s : s = Identify(c)
    OBVIOUS
  <2>2. s = <<[op |-> "readid", f |-> <<"id", "any">>, on |-> "fail"]>>
    BY <1>2, <2>1 DEF Identify, Step, RStep
  <2>3. Len(s) = 1
    BY <2>2
  <2>4. s[1].op = "readid" /\ s[1].on = "fail" /\ s[1].f[2] = "any"
    BY <2>2
  <2> QED BY <1>2, <2>1, <2>3, <2>4
<1> QED BY <1>1, <1>2

(* The last command of a script.                                           *)
LEMMA LastIs ==
    ASSUME NEW c, NEW s, Written(c, s)
    PROVE  /\ s \in Seq(Steps) /\ Len(s) \in Nat /\ DOMAIN s = 1 .. Len(s)
           /\ Len(Identify(c)) \in {1, 4} /\ Len(s) > Len(Identify(c)) + 1
           /\ \E l \in 1 .. Len(s) - 1 :
                /\ l > Len(Identify(c)) + 1 /\ s[l].op \in {"write", "file"} /\ Sent(s[l])
                /\ \A n \in 1 .. Len(s) : /\ LastSent(s, n) <=> n = l
                                          /\ Sent(s[n]) => n <= l
                                          /\ Sent(s[n]) /\ s[n].on # "fail" => n < l
                                          /\ s[n].op \in {"load", "table"} => n < l
<1>1. s \in Seq(Steps) /\ Len(s) \in Nat /\ DOMAIN s = 1 .. Len(s) /\ Len(s) > Len(Identify(c)) + 1
  BY DEF Written
<1>2. PICK l \in DOMAIN s :
         /\ LastSent(s, l) /\ l > Len(Identify(c)) + 1 /\ s[l].op \in {"write", "file"}
         /\ \A j \in DOMAIN s : Sent(s[j]) /\ (s[j].on # "fail" \/ s[j].op \in {"load", "table"}) => j < l
  BY DEF Written
<1>3. Len(Identify(c)) \in {1, 4}
  BY IdentifyIs
<1>4. Sent(s[l]) /\ \A j \in 1 .. Len(s) : j > l => ~Sent(s[j])
  BY <1>1, <1>2 DEF LastSent
<1>5. l # Len(s)
  <2>1. s[l].op = "start" <=> l = Len(s)
    BY DEF Written
  <2> QED BY <1>2, <2>1
<1>6. ASSUME NEW n \in 1 .. Len(s)
      PROVE  /\ LastSent(s, n) <=> n = l
             /\ Sent(s[n]) => n <= l
             /\ Sent(s[n]) /\ s[n].on # "fail" => n < l
             /\ s[n].op \in {"load", "table"} => n < l
  <2>1. Sent(s[n]) => n <= l
    BY <1>1, <1>4
  <2>2. LastSent(s, n) => n = l
    <3>1. LastSent(s, n) => Sent(s[n]) /\ ~(l > n)
      BY <1>1, <1>4 DEF LastSent
    <3> QED BY <1>1, <2>1, <3>1
  <2>3. Sent(s[n]) /\ (s[n].on # "fail" \/ s[n].op \in {"load", "table"}) => n < l
    BY <1>1, <1>2
  <2>4. s[n].op \in {"load", "table"} => Sent(s[n])
    BY DEF Sent
  <2> QED BY <1>2, <2>1, <2>2, <2>3, <2>4
<1> QED BY <1>1, <1>2, <1>3, <1>4, <1>5, <1>6

(* The scripts are written as they must be.                                *)
LEMMA ScriptIs ==
    ASSUME Setup, Good
    PROVE  Written(chip, Read) /\ Written(chip, Own)
<1>1. mode \in Modes \cap {"normal", "test"} /\ chip \in Chips
  BY DEF Setup, Good
<1>2. ASSUME NEW r \in Revs(chip) \cup {"0"}, NEW m \in BOOLEAN
      PROVE  Written(chip, FastScript(chip, r, m, mode))
  BY <1>1, ScriptsWritten
<1>3. /\ chipId \in Revs(chip) \cup {"0"} /\ chipMcuId \in BOOLEAN
      /\ rev \in Revs(chip) \cup {"0"} /\ isMcu \in BOOLEAN
  BY DEF Setup
<1> QED BY <1>2, <1>3 DEF Read, Own

(* What was read of the chip gives its own script, or that of the MCU      *)
(* variant, which has all of its steps.                                    *)
LEMMA ReadOrMore ==
    ASSUME Setup, Good, Known
    PROVE  Read = Own \/ Extends(Own, Read)
<1>1. mode \in Modes \cap {"normal", "test"} /\ chip \in Chips /\ rev \in Revs(chip) \cup {"0"}
  BY DEF Setup, Good
<1>2. Extends(FastScript(chip, rev, FALSE, mode), FastScript(chip, rev, TRUE, mode))
  BY <1>1, ScriptsWritten
<1>3. CASE chipMcuId = isMcu
  BY <1>3 DEF Known, Read, Own
<1>4. CASE chipMcuId # isMcu
  <2>1. chipMcuId = TRUE /\ isMcu = FALSE
    BY <1>4 DEF Known, Setup
  <2> QED BY <1>2, <2>1 DEF Known, Read, Own
<1> QED BY <1>3, <1>4

LEMMA OwnHas ==
    ASSUME Setup, Good, Known, NEW n \in DOMAIN Read, Kept(Read[n]), Read[n].f[2] # "any"
    PROVE  \E j \in DOMAIN Own : Own[j] = Read[n]
<1>1. CASE Read = Own
  BY <1>1
<1>2. CASE Extends(Own, Read)
  <2>1. n \in {k \in KeptIn(Read) : Read[k].f[2] # "any"}
    BY DEF KeptIn
  <2> QED BY <1>2, <2>1 DEF Extends, Within
<1> QED BY <1>1, <1>2, ReadOrMore

LEMMA ReadHas ==
    ASSUME Setup, Good, Known, NEW n \in DOMAIN Own, Kept(Own[n])
    PROVE  \E j \in DOMAIN Read : Read[j] = Own[n] /\ (LastSent(Read, j) => LastSent(Own, n))
<1>1. CASE Read = Own
  BY <1>1
<1>2. CASE Extends(Own, Read)
  <2>1. n \in KeptIn(Own)
    BY DEF KeptIn
  <2> QED BY <1>2, <2>1 DEF Extends, Within
<1> QED BY <1>1, <1>2, ReadOrMore

(* A step that has a command sends one.                                    *)
LEMMA HasCommand ==
    ASSUME NEW s, NEW c \in Nat, c < NCmds(s)
    PROVE  Sent(s)
BY DEF NCmds, Sent

(* A probe that has sent all but the last command has given the chip what  *)
(* it must hold.                                                           *)
LEMMA Complete ==
    ASSUME Setup, Good, fast, Known, OwnFiles,
           \A n \in 1 .. Len(Read) - 1 : Whole(Read[n], IF LastSent(Read, n) THEN 1 ELSE 0)
    PROVE  HoldsAll
<1>1. Written(chip, Read) /\ Written(chip, Own)
  BY ScriptIs
<1>2. PICK l \in 1 .. Len(Own) - 1 :
         \A n \in 1 .. Len(Own) : (LastSent(Own, n) <=> n = l) /\ (Sent(Own[n]) => n <= l)
  BY <1>1, LastIs
<1>3. /\ Len(Own) \in Nat /\ DOMAIN Own = 1 .. Len(Own)
      /\ Len(Read) \in Nat /\ DOMAIN Read = 1 .. Len(Read)
  BY <1>1, LastIs
<1>4. ASSUME NEW y \in Commands(Own), NEW z \in Commands(Own), Later(z, y)
      PROVE  Writes(Own[y[1]], y[2]) \subseteq mem
  <2>1. PICK n \in 1 .. Len(Own), c \in 0 .. (Regs + NBlocks(size)) : y = <<n, c>>
    BY DEF Commands
  <2>2. PICK m \in 1 .. Len(Own), d \in 0 .. (Regs + NBlocks(size)) : z = <<m, d>>
    BY DEF Commands
  <2>3. c \in Nat /\ d \in Nat
    OBVIOUS
  <2>4. /\ c < NCmds(Own[n]) /\ Own[n].op # "poll" /\ ~(Own[n].op = "flash" /\ missing = "flash")
        /\ d < NCmds(Own[m])
    BY <2>1, <2>2 DEF Commands
  <2>5. Sent(Own[n]) /\ Sent(Own[m])
    BY <2>3, <2>4, HasCommand
  <2>6. Kept(Own[n])
    BY <2>4, <2>5 DEF Kept
  <2>7. PICK j \in DOMAIN Read : Read[j] = Own[n] /\ (LastSent(Read, j) => LastSent(Own, n))
    BY <1>3, <2>6, ReadHas
  <2>8. j \in 1 .. Len(Read) - 1
    <3>1. Read[j].op = "start" <=> j = Len(Read)
      BY <1>1 DEF Written
    <3>2. Read[j].op # "start"
      BY <2>5, <2>7 DEF Sent
    <3> QED BY <1>3, <3>1, <3>2
  <2>9. NCmds(Own[n]) \in Nat \ {0}
    BY <2>5, Counts
  <2>10. CASE ~LastSent(Read, j)
    <3>1. Whole(Own[n], 0)
      BY <2>7, <2>8, <2>10
    <3>2. c \in 0 .. NCmds(Own[n]) - 1 - 0
      BY <2>3, <2>4, <2>9
    <3>3. Writes(Own[n], c) \subseteq mem
      BY <2>4, <2>6, <3>1, <3>2 DEF Whole
    <3> QED BY <2>1, <3>3
  <2>11. CASE LastSent(Read, j)
    <3>1. n = l /\ m <= l
      BY <1>2, <2>5, <2>7, <2>11
    <3>2. m = n /\ d > c
      <4>1. z[1] = m /\ z[2] = d /\ y[1] = n /\ y[2] = c
        BY <2>1, <2>2
      <4>2. m > n \/ (m = n /\ d > c)
        BY <1>4, <4>1 DEF Later
      <4> QED BY <1>3, <3>1, <4>2
    <3>3. c \in 0 .. NCmds(Own[n]) - 1 - 1
      BY <2>3, <2>4, <2>9, <3>2
    <3>4. Whole(Own[n], 1)
      BY <2>7, <2>8, <2>11
    <3>5. Writes(Own[n], c) \subseteq mem
      BY <2>4, <2>6, <3>3, <3>4 DEF Whole
    <3> QED BY <2>1, <3>5
  <2> QED BY <2>10, <2>11
<1>5. Needed(Own) \subseteq mem
  BY <1>4 DEF Needed
<1>6. AllWords(Own) \subseteq mem \cup LastWords(Own)
  <2>1. size \in Nat \ {0} /\ Regs \in Nat \ {0}
    BY Sized
  <2>3. NBlocks(size) \in Nat
    BY Sized
  <2> SUFFICES ASSUME NEW n \in 1 .. Len(Own), NEW w \in 0 .. (size - 1),
                      Own[n].op \in {"file", "flash"}, ~(Own[n].op = "flash" /\ missing = "flash")
               PROVE  <<Own[n].f, w>> \in mem \cup LastWords(Own)
    BY DEF AllWords
  <2>2. PICK b \in 0 .. NBlocks(size) - 1 : w \in BlockWords(size, b)
    BY <2>1, Blocks
  <2>4. b < NCmds(Own[n]) /\ <<Own[n].f, w>> \in Writes(Own[n], b)
    <3>1. NCmds(Own[n]) = NBlocks(size) /\ Words(Own[n], b) = BlockWords(size, b)
      BY DEF NCmds, Words
    <3> QED BY <2>2, <2>3, <3>1 DEF Writes
  <2>5. PICK y : y = <<n, b>>
    OBVIOUS
  <2>6. y \in Commands(Own) /\ y[1] = n /\ y[2] = b
    BY <2>1, <2>2, <2>3, <2>4, <2>5 DEF Commands
  <2>7. CASE \E z \in Commands(Own) : Later(z, y)
    BY <1>4, <2>4, <2>6, <2>7
  <2>8. CASE ~ \E z \in Commands(Own) : Later(z, y)
    BY <2>4, <2>6, <2>8 DEF LastWords
  <2> QED BY <2>7, <2>8
<1>7. {x \in mem : x[1][2] # "any"} \subseteq OwnWords
  BY DEF OwnFiles
<1> QED BY <1>5, <1>6, <1>7 DEF HoldsAll

-----------------------------------------------------------------------------
(* What a chip holds is decided by the setup and what was written.         *)
LEMMA HoldsKept ==
    ASSUME UNCHANGED setupVars, UNCHANGED mem
    PROVE  /\ HoldsAll' = HoldsAll /\ OwnFiles' = OwnFiles /\ Good' = Good
<1>1. OwnWords' = OwnWords /\ Own' = Own
  BY SetupKept
<1>2. Needed(Own)' = Needed(Own) /\ AllWords(Own)' = AllWords(Own) /\ LastWords(Own)' = LastWords(Own)
  BY <1>1 DEF setupVars, LastWords, AllWords, Needed, Commands, Writes, Words, NCmds, BlockWords, NBlocks, NFull
<1>3. Good' = Good
  BY DEF setupVars, Good
<1> QED BY <1>1, <1>2, <1>3 DEF HoldsAll, OwnFiles

(* A step stays whole while nothing is erased.                             *)
LEMMA WholeKept ==
    ASSUME UNCHANGED setupVars, mem \subseteq mem', NEW s, NEW d, Whole(s, d)
    PROVE  Whole(s, d)'
<1>1. NCmds(s)' = NCmds(s) /\ (\A c : Writes(s, c)' = Writes(s, c)) /\ missing' = missing
  BY StepKept DEF setupVars
<1> QED BY <1>1 DEF Whole, Kept, Sent

(* A probe that does not go on stays as it was.                            *)
LEMMA ProbingKept ==
    ASSUME Probing, UNCHANGED <<setupVars, fast, mem, chipId, chipMcuId, pc, at, cmdNo, crashed>>,
           pending' \in {pending, "no"}
    PROVE  Probing'
<1>1. Read' = Read /\ Good' = Good /\ Known' = Known /\ Len(Identify(chip))' = Len(Identify(chip))
  BY DEF setupVars, Read, Good, Known
<1>2. ASSUME NEW s, NEW d PROVE Whole(s, d)' = Whole(s, d)
  BY StepKept DEF Whole, Kept, Sent, setupVars
<1>3. LostLast' = LostLast
  BY <1>1, <1>2 DEF LostLast, LastSent, Sent
<1>4. Confirmed' = Confirmed
  BY <1>1, <1>2, StepKept DEF Confirmed, Kept, Sent, setupVars
<1>5. \A s : NCmds(s)' = NCmds(s)
  BY StepKept
<1> QED BY <1>1, <1>3, <1>4, <1>5 DEF Probing, Kept, Sent

(* The setup does not change, what was read is a revision of the chip.     *)
LEMMA SetupNext ==
    ASSUME Setup, [Next]_vars
    PROVE  Setup'
<1>1. rev \in Revs(chip) /\ isMcu \in BOOLEAN
  BY DEF Setup
<1>2. ASSUME NextStep \/ NextCmd \/ Fail \/ UNCHANGED <<at, cmdNo>>
      PROVE  at' \in Nat \ {0} /\ cmdNo' \in Nat
  BY <1>2 DEF Setup, NextStep, NextCmd, Fail
<1>3. OnError => NextStep \/ NextCmd \/ Fail
  BY DEF OnError
<1>4. ASSUME NEW r \in Revs(chip), NEW m \in BOOLEAN, ReadBack(r, m)
      PROVE  chipId' \in Revs(chip) \cup {"0"} /\ chipMcuId' \in BOOLEAN
  BY <1>4 DEF ReadBack, Setup
<1>5. UNCHANGED setupVars
  BY DEF Next, Loader, vars, Plug, Unplug, Reenumerate, ReloadModules, FdrvProbe, ProbeRefuse, ProbeStart,
         Reboot, FileMissing, NoCommand, StartApp, CmdRefused, CmdConfirmed, CmdTimedOut, ProbeDone, ProbeFailed
<1>6. fast' \in BOOLEAN
  BY DEF Next, Loader, vars, Plug, Unplug, Reenumerate, ReloadModules, FdrvProbe, ProbeRefuse, ProbeStart,
         Reboot, FileMissing, NoCommand, StartApp, CmdRefused, CmdConfirmed, CmdTimedOut, ProbeDone, ProbeFailed,
         Arrive, devVars, Setup
<1>7. at' \in Nat \ {0} /\ cmdNo' \in Nat
  <2>1. CASE FileMissing \/ NoCommand \/ StartApp \/ CmdRefused \/ CmdTimedOut
    <3>1. NextStep \/ NextCmd \/ Fail
      BY <1>3, <2>1 DEF FileMissing, NoCommand, StartApp, CmdRefused, CmdTimedOut
    <3> QED BY <1>2, <3>1
  <2>2. CASE CmdConfirmed
    <3>1. NextStep \/ NextCmd \/ Fail \/ (cmdNo' = cmdNo + 1 /\ UNCHANGED <<pc, at>>)
      BY <2>2 DEF CmdConfirmed
    <3> QED BY <1>2, <3>1 DEF Setup
  <2>3. CASE UNCHANGED <<at, cmdNo>>
    BY <1>2, <2>3
  <2>4. CASE ProbeStart
    BY <2>4 DEF ProbeStart
  <2> QED BY <2>1, <2>2, <2>3, <2>4 DEF Next, Loader, vars, Plug, Unplug, Reenumerate, ReloadModules,
             FdrvProbe, ProbeRefuse, Reboot, ProbeDone, ProbeFailed, prbVars
<1>8. chipId' \in Revs(chip) \cup {"0"} /\ chipMcuId' \in BOOLEAN
  <2>1. CASE CmdConfirmed
    BY <1>1, <1>4, <2>1 DEF CmdConfirmed
  <2>2. CASE CmdTimedOut
    BY <1>4, <2>2 DEF CmdTimedOut
  <2>3. CASE ReloadModules
    BY <2>3 DEF ReloadModules
  <2>4. CASE UNCHANGED <<chipId, chipMcuId>>
    BY <2>4 DEF Setup
  <2> QED BY <2>1, <2>2, <2>3, <2>4 DEF Next, Loader, vars, Plug, Unplug, Reenumerate, FdrvProbe, ProbeRefuse,
             ProbeStart, Reboot, FileMissing, NoCommand, StartApp, CmdRefused, ProbeDone, ProbeFailed, drvVars
<1>9. Revs(chip)' = Revs(chip) /\ chip' = chip /\ rev' = rev /\ isMcu' = isMcu /\ mode' = mode /\ size' = size
  BY <1>5 DEF setupVars
<1> QED BY <1>6, <1>7, <1>8, <1>9 DEF Setup

(* The scripts, in the next state.                                         *)
LEMMA ScriptIsNext ==
    ASSUME Setup', Good'
    PROVE  Written(chip, Read)'
<1>1. (Setup /\ Good => Written(chip, Read))'
  BY ScriptIs, PTL
<1> QED BY <1>1

-----------------------------------------------------------------------------
(* A probe at one of its steps.                                            *)
LEMMA AtStep ==
    ASSUME LoadInv, Good, fast, Running
    PROVE  /\ S = Read[at] /\ at \in 1 .. Len(Read) /\ Len(Read) \in Nat /\ DOMAIN Read = 1 .. Len(Read)
           /\ Written(chip, Read) /\ pc = "run" /\ pending # "start"
           /\ Kept(Read[at]) => cmdNo < NCmds(Read[at])
           /\ IF crashed THEN LostLast ELSE Confirmed
           /\ at > Len(Identify(chip)) => Known \/ (crashed /\ at = Len(Identify(chip)) + 1)
           /\ Len(Identify(chip)) \in {1, 4} /\ Len(Read) > Len(Identify(chip)) + 1
<1>1. Written(chip, Read) /\ Setup
  BY ScriptIs DEF LoadInv
<1>2. Len(Read) \in Nat /\ DOMAIN Read = 1 .. Len(Read) /\ Len(Identify(chip)) \in {1, 4}
      /\ Len(Read) > Len(Identify(chip)) + 1
  BY <1>1, LastIs
<1>3. Current = Read
  BY DEF Current, Script, Read
<1>4. pc = "run" /\ at \in Nat \ {0} /\ at <= Len(Read)
  BY <1>1, <1>3 DEF Running, Setup
<1>5. /\ Kept(Read[at]) => cmdNo < NCmds(Read[at])
      /\ pending = "start" => at = Len(Read) + 1
      /\ IF crashed THEN LostLast ELSE Confirmed
      /\ at > Len(Identify(chip)) => Known \/ (crashed /\ at = Len(Identify(chip)) + 1)
  BY <1>4 DEF LoadInv, Probing
<1>6. pending # "start"
  BY <1>2, <1>4, <1>5
<1> QED BY <1>1, <1>2, <1>3, <1>4, <1>5, <1>6 DEF S

(* A command of a file or a table of one revision is one of the chip's own *)
(* revision.                                                               *)
LEMMA OwnFilesNext ==
    ASSUME LoadInv, Good, fast, Sends, UNCHANGED setupVars, mem' \subseteq mem \cup Writes(S, cmdNo)
    PROVE  OwnFiles'
<1>1. Running /\ NCmds(S) > 0
  BY DEF Sends
<1>2. /\ S = Read[at] /\ at \in 1 .. Len(Read) /\ Len(Read) \in Nat /\ DOMAIN Read = 1 .. Len(Read)
      /\ Written(chip, Read) /\ (Kept(Read[at]) => cmdNo < NCmds(Read[at]))
      /\ at > Len(Identify(chip)) => Known \/ (crashed /\ at = Len(Identify(chip)) + 1)
      /\ Len(Identify(chip)) \in {1, 4} /\ Len(Read) > Len(Identify(chip)) + 1
  BY <1>1, AtStep
<1>3. Setup /\ OwnFiles /\ cmdNo \in Nat
  BY DEF LoadInv, Setup
<1>4. ASSUME NEW x \in Writes(S, cmdNo), x[1][2] # "any" PROVE x \in OwnWords
  <2>1. PICK w \in Words(S, cmdNo) : x = <<S.f, w>>
    BY DEF Writes
  <2>2. S.f[2] # "any"
    BY <1>4, <2>1
  <2>3. Sent(S)
    <3>1. 0 < NCmds(S)
      BY <1>1 DEF NCmds, Sent
    <3> QED BY <3>1, HasCommand
  <2>4. S.op \in {"file", "load", "table"}
    BY <1>2, <2>2, <2>3 DEF Written
  <2>5. Kept(S) /\ cmdNo < NCmds(S)
    BY <1>2, <2>3, <2>4 DEF Kept
  <2>6. at > Len(Identify(chip)) + 1
    <3>1. ASSUME at \in 1 .. Len(Identify(chip)) PROVE FALSE
      <4>1. S = Identify(chip)[at]
        BY <1>2, <3>1 DEF Written
      <4> QED BY <2>2, <3>1, <4>1, IdentifyIs
    <3>2. at # Len(Identify(chip)) + 1
      BY <1>2, <2>2 DEF Written
    <3> QED BY <1>2, <3>1, <3>2
  <2>7. Known
    BY <1>2, <2>6
  <2>8. PICK j \in DOMAIN Own : Own[j] = S
    BY <1>2, <1>3, <2>2, <2>5, <2>7, OwnHas
  <2>9. Written(chip, Own)
    BY <1>3, ScriptIs
  <2>10. PICK l \in 1 .. Len(Own) - 1 :
           /\ Sent(Own[l]) /\ Own[l].op \in {"write", "file"}
           /\ \A n \in 1 .. Len(Own) : Own[n].op \in {"load", "table"} => n < l
    BY <2>9, LastIs
  <2>11. Len(Own) \in Nat /\ DOMAIN Own = 1 .. Len(Own)
    BY <2>9, LastIs
  <2>12. size \in Nat \ {0} /\ Regs \in Nat \ {0} /\ NBlocks(size) \in Nat \ {0}
    BY <1>3, Sized
  <2>13. CASE S.op = "file"
    <3>1. w \in 0 .. size - 1
      <4>1. w \in BlockWords(size, cmdNo)
        BY <2>1, <2>13 DEF Words
      <4> QED BY <1>3, <2>12, <4>1, Blocks
    <3>2. x \in AllWords(Own)
      BY <2>1, <2>8, <2>11, <2>13, <3>1 DEF AllWords
    <3> QED BY <3>2 DEF OwnWords
  <2>14. CASE S.op \in {"load", "table"}
    <3>1. j < l /\ j \in 1 .. Len(Own) /\ l \in 1 .. Len(Own)
      BY <2>8, <2>10, <2>11, <2>14
    <3>2. PICK y, z : y = <<j, cmdNo>> /\ z = <<l, 0>>
      OBVIOUS
    <3>3. y[1] = j /\ y[2] = cmdNo /\ z[1] = l /\ z[2] = 0
      BY <3>2
    <3>4. NCmds(Own[l]) \in Nat \ {0} /\ NCmds(S) \in Nat \ {0} /\ NCmds(S) <= Regs + NBlocks(size)
      BY <1>3, <2>3, <2>10, Counts
    <3>5. y \in Commands(Own)
      <4>1. y \in (1 .. Len(Own)) \X (0 .. (Regs + NBlocks(size)))
        BY <1>3, <2>5, <2>12, <3>1, <3>2, <3>4
      <4> QED BY <2>5, <2>8, <2>14, <3>3, <4>1 DEF Commands
    <3>6. z \in Commands(Own)
      <4>1. z \in (1 .. Len(Own)) \X (0 .. (Regs + NBlocks(size)))
        BY <2>12, <3>1, <3>2
      <4> QED BY <2>10, <3>3, <3>4, <4>1 DEF Commands
    <3>7. Later(z, y)
      BY <3>1, <3>3 DEF Later
    <3>8. x \in Writes(Own[y[1]], y[2])
      BY <2>8, <3>3
    <3>9. x \in Needed(Own)
      BY <3>5, <3>6, <3>7, <3>8 DEF Needed
    <3> QED BY <3>9 DEF OwnWords
  <2> QED BY <2>4, <2>13, <2>14
<1>5. OwnWords' = OwnWords
  BY SetupKept
<1> QED BY <1>3, <1>4, <1>5 DEF OwnFiles

(* The chip is known once it was asked.                                    *)
LEMMA Identified ==
    ASSUME Setup, Good, Confirmed, at = Len(Identify(chip)) + 1
    PROVE  Known
<1>1. Written(chip, Read)
  BY ScriptIs
<1>2. Len(Identify(chip)) \in {1, 4} /\ \A n \in 1 .. Len(Identify(chip)) : Read[n] = Identify(chip)[n]
  BY <1>1, LastIs DEF Written
<1>3. ASSUME NEW n \in 1 .. Len(Identify(chip))
      PROVE  /\ Identify(chip)[n].op = "readid" => chipId = rev /\ (chip = "d80" /\ isMcu => chipMcuId)
             /\ Identify(chip)[n].op = "readmcu" /\ isMcu => chipMcuId
  BY <1>2 DEF Confirmed
<1>4. chipId = rev /\ (chip = "d80" /\ isMcu => chipMcuId)
  BY <1>3, IdentifyIs
<1>5. chip = "d80x2" /\ isMcu => chipMcuId
  BY <1>3, IdentifyIs
<1>6. chip \in {"8800", "d80", "d80x2"} /\ (chip = "8800" => ~isMcu)
  BY LoadFwAssumption DEF Setup
<1> QED BY <1>4, <1>5, <1>6 DEF Known

(* A probe goes on to the next step, with all commands confirmed.          *)
LEMMA Forward ==
    ASSUME LoadInv, Good, fast, Running, Setup', UNCHANGED <<setupVars, fast, pc>>, ~crashed, ~crashed',
           at' = at + 1, cmdNo' = 0, mem \subseteq mem', NEW e, e = Read[at], Whole(e, 0)',
           pending' = "start" => at = Len(Read),
           Read' = Read \/ at <= Len(Identify(chip)),
           chipId' \in {chipId, rev}, chipMcuId => chipMcuId',
           Read[at].op = "readid" => chipId' = rev /\ (chip = "d80" /\ isMcu => chipMcuId'),
           Read[at].op = "readmcu" /\ isMcu => chipMcuId'
    PROVE  Probing'
<1>1. /\ at \in 1 .. Len(Read) /\ Len(Read) \in Nat /\ Written(chip, Read)
      /\ Confirmed /\ (at > Len(Identify(chip)) => Known)
      /\ Len(Identify(chip)) \in {1, 4} /\ Len(Read) > Len(Identify(chip)) + 1
  BY AtStep
<1>2. Good' = Good /\ chip' = chip /\ rev' = rev /\ isMcu' = isMcu
  BY DEF setupVars, Good
<1>3. Written(chip, Read')
  BY <1>2, ScriptIsNext
<1>4. PICK R : R = Read'
  OBVIOUS
<1>5. Written(chip, R) /\ (R = Read \/ at <= Len(Identify(chip)))
  BY <1>3, <1>4
<1>6. Len(R) \in Nat /\ Len(R) > Len(Identify(chip)) + 1 /\ DOMAIN R = 1 .. Len(R)
  BY <1>5, LastIs
<1>7. \A n \in 1 .. at : R[n] = Read[n]
  <2>1. CASE R = Read
    BY <2>1
  <2>2. CASE at <= Len(Identify(chip))
    BY <1>1, <1>5, <2>2 DEF Written
  <2> QED BY <1>5, <2>1, <2>2
<1>8. \A n \in 1 .. at : Whole(R[n], 0)'
  <2> SUFFICES ASSUME NEW n \in 1 .. at PROVE Whole(R[n], 0)'
    OBVIOUS
  <2>1. CASE n = at
    BY <1>1, <1>7, <2>1
  <2>2. CASE n # at
    <3>1. Whole(Read[n], 0)
      BY <1>1, <2>2 DEF Confirmed
    <3>2. PICK s : s = Read[n]
      OBVIOUS
    <3>3. Whole(s, 0)'
      BY <3>1, <3>2, WholeKept
    <3> QED BY <1>7, <3>2, <3>3
  <2> QED BY <2>1, <2>2
<1>9. ASSUME NEW n \in 1 .. at
      PROVE  /\ R[n].op = "readid" => chipId' = rev /\ (chip = "d80" /\ isMcu => chipMcuId')
             /\ R[n].op = "readmcu" /\ isMcu => chipMcuId'
  BY <1>1, <1>7 DEF Confirmed
<1>10. at' - 1 = at /\ at' \in Nat /\ cmdNo' - 1 = -1
  BY <1>1
<1>11. Confirmed'
  BY <1>2, <1>4, <1>8, <1>9, <1>10 DEF Confirmed
<1>12. at' > Len(Identify(chip)) => Known'
  <2>1. CASE at > Len(Identify(chip))
    BY <1>1, <1>2, <2>1 DEF Known
  <2>2. CASE at = Len(Identify(chip))
    <3>1. (Setup /\ Good /\ Confirmed /\ at = Len(Identify(chip)) + 1 => Known)'
      BY Identified, PTL
    <3> QED BY <1>2, <1>11, <2>2, <3>1
  <2> QED BY <1>1, <2>1, <2>2
<1>13. at' \in 1 .. Len(R) + 1 /\ (pending' = "start" => at' = Len(R) + 1)
  BY <1>1, <1>5, <1>6
<1>14. PICK s : s = R[at']
  OBVIOUS
<1>15. Kept(s) => cmdNo' < NCmds(s)'
  <2>1. Sent(s) => NCmds(s) \in Nat \ {0}
    BY Counts DEF LoadInv
  <2>2. NCmds(s)' = NCmds(s)
    BY StepKept
  <2> QED BY <2>1, <2>2 DEF Kept
<1>16. Kept(s)' = Kept(s)
  BY DEF Kept, Sent
<1> QED BY <1>2, <1>4, <1>11, <1>12, <1>13, <1>14, <1>15, <1>16 DEF Probing

(* A probe goes on within a step, with all commands confirmed.             *)
LEMMA Inward ==
    ASSUME LoadInv, Good, fast, Running, UNCHANGED <<setupVars, fast, pc, at, chipId, chipMcuId>>,
           ~crashed, ~crashed', cmdNo' = cmdNo + 1, mem \subseteq mem', pending' # "start", NEW e, e = Read[at],
           Kept(e) => cmdNo + 1 < NCmds(e) /\ Writes(e, cmdNo) \subseteq mem'
    PROVE  Probing'
<1>1. /\ at \in 1 .. Len(Read) /\ Len(Read) \in Nat /\ Confirmed /\ (at > Len(Identify(chip)) => Known)
  BY AtStep
<1>2. Good' = Good /\ chip' = chip /\ rev' = rev /\ isMcu' = isMcu /\ Read' = Read /\ Known' = Known
  BY DEF setupVars, Good, Read, Known
<1>3. cmdNo \in Nat
  BY DEF LoadInv, Setup
<1>4. \A n \in 1 .. at - 1 : Whole(Read[n], 0)'
  <2> SUFFICES ASSUME NEW n \in 1 .. at - 1 PROVE Whole(Read[n], 0)'
    BY <1>2
  <2>1. PICK s : s = Read[n]
    OBVIOUS
  <2>2. Whole(s, 0)
    BY <1>1, <2>1 DEF Confirmed
  <2>3. Whole(s, 0)'
    BY <2>2, WholeKept
  <2> QED BY <1>2, <2>1, <2>3
<1>5. NCmds(e)' = NCmds(e) /\ (\A c : Writes(e, c)' = Writes(e, c)) /\ Kept(e)' = Kept(e)
  BY StepKept DEF Kept, Sent
<1>6. Kept(e) => \A c \in 0 .. cmdNo' - 1 : Writes(e, c)' \subseteq mem'
  <2> SUFFICES ASSUME Kept(e), NEW c \in 0 .. cmdNo PROVE Writes(e, c) \subseteq mem'
    BY <1>3, <1>5
  <2>1. CASE c = cmdNo
    BY <2>1
  <2>2. CASE c # cmdNo
    BY <1>1, <1>3, <2>2 DEF Confirmed
  <2> QED BY <2>1, <2>2
<1>7. Confirmed'
  BY <1>1, <1>2, <1>4, <1>6 DEF Confirmed, Kept, Sent
<1> QED BY <1>1, <1>2, <1>3, <1>5, <1>7 DEF Probing

(* What a probe with a lost command must show when it goes on.             *)
LEMMA LostProbes ==
    ASSUME LoadInv, Good, fast, Running, Setup', UNCHANGED <<setupVars, fast, pc>>, crashed',
           NEW e, e = Read[at],
           \/ at' = at + 1 /\ cmdNo' = 0
           \/ at' = at /\ cmdNo' = cmdNo + 1 /\ cmdNo + 1 < NCmds(e) /\ Read' = Read,
           Read' = Read \/ at <= Len(Identify(chip)),
           pending' = "start" => at = Len(Read) /\ at' = at + 1,
           at' > Len(Identify(chip)) => Known' \/ at' = Len(Identify(chip)) + 1,
           LostLast'
    PROVE  Probing'
<1>1. /\ at \in 1 .. Len(Read) /\ Len(Read) \in Nat
      /\ Len(Identify(chip)) \in {1, 4} /\ Len(Read) > Len(Identify(chip)) + 1
  BY AtStep
<1>2. Good' = Good /\ chip' = chip
  BY DEF setupVars, Good
<1>3. Written(chip, Read')
  BY <1>2, ScriptIsNext
<1>4. PICK R : R = Read'
  OBVIOUS
<1>5. Len(R) \in Nat /\ Len(R) > Len(Identify(chip)) + 1
  BY <1>3, <1>4, LastIs
<1>6. cmdNo \in Nat /\ cmdNo' \in Nat
  BY DEF LoadInv, Setup
<1>7. at' \in 1 .. Len(R) + 1 /\ (pending' = "start" => at' = Len(R) + 1)
  BY <1>1, <1>4, <1>5
<1>8. PICK s : s = R[at']
  OBVIOUS
<1>9. Kept(s) => cmdNo' < NCmds(s)'
  <2>1. Sent(s) => NCmds(s) \in Nat \ {0}
    BY Counts DEF LoadInv
  <2>2. NCmds(s)' = NCmds(s)
    BY StepKept
  <2>3. CASE cmdNo' = 0
    BY <2>1, <2>2, <2>3 DEF Kept
  <2>4. CASE at' = at /\ cmdNo' = cmdNo + 1 /\ cmdNo + 1 < NCmds(e) /\ Read' = Read
    BY <1>4, <1>8, <2>2, <2>4
  <2> QED BY <2>3, <2>4
<1>10. Kept(s)' = Kept(s)
  BY DEF Kept, Sent
<1> QED BY <1>2, <1>4, <1>6, <1>7, <1>8, <1>9, <1>10 DEF Probing

(* While a command is still to be sent nothing has to be there.            *)
LEMMA StillSends ==
    ASSUME NEW R, R = Read', NEW n \in at' .. Len(R), Sent(R[n])
    PROVE  LostLast'
<1>1. Sent(R[n])' = Sent(R[n])
  BY DEF Sent
<1> QED BY <1>1 DEF LostLast

(* A crashed manager sends nothing: the probe passes steps without a       *)
(* command, or some whose errors do not count, which are not the last.     *)
LEMMA LostNext ==
    ASSUME LoadInv, Good, fast, Running, Setup', crashed, crashed',
           UNCHANGED <<setupVars, fast, pc, chipId, chipMcuId, mem>>, NEW e, e = Read[at],
           \/ at' = at + 1 /\ cmdNo' = 0 /\ at # Len(Identify(chip)) + 1
           \/ at' = at /\ cmdNo' = cmdNo + 1 /\ cmdNo + 1 < NCmds(e),
           Sent(e) => ~LastSent(Read, at),
           pending' = "start" => at = Len(Read) /\ at' = at + 1
    PROVE  Probing'
<1>1. /\ at \in 1 .. Len(Read) /\ Len(Read) \in Nat /\ Written(chip, Read) /\ LostLast
      /\ at > Len(Identify(chip)) => Known \/ at = Len(Identify(chip)) + 1
      /\ Len(Identify(chip)) \in {1, 4}
  BY AtStep
<1>2. Read' = Read /\ Known' = Known /\ cmdNo \in Nat
  BY DEF setupVars, Read, Known, LoadInv, Setup
<1>3. PICK l \in 1 .. Len(Read) - 1 :
         /\ Sent(Read[l])
         /\ \A n \in 1 .. Len(Read) : (LastSent(Read, n) <=> n = l) /\ (Sent(Read[n]) => n <= l)
  BY <1>1, LastIs
<1>4. LostLast'
  <2>1. CASE Sent(e)
    <3>1. at < l
      BY <1>1, <1>3, <2>1
    <3>2. l \in at' .. Len(Read)
      BY <1>1, <1>3, <3>1
    <3> QED BY <1>2, <1>3, <3>2, StillSends
  <2>2. CASE ~Sent(e)
    <3>1. at' = at + 1
      <4>1. ~(cmdNo + 1 < NCmds(e))
        BY <1>2, <2>2, HasCommand
      <4> QED BY <4>1
    <3>2. SUFFICES ASSUME \A n \in at' .. Len(Read) : ~Sent(Read[n]), NEW n \in 1 .. at
                   PROVE  \E s, d : s = Read[n] /\ d = (IF LastSent(Read, n) THEN 1 ELSE 0) /\ Whole(s, d)'
      BY <1>1, <1>2, <3>1 DEF LostLast, Sent, LastSent
    <3>3. PICK s : s = Read[n]
      OBVIOUS
    <3>4. CASE n = at
      BY <2>2, <3>3, <3>4 DEF Whole, Kept, Sent
    <3>5. CASE n # at
      <4>1. \A k \in at .. Len(Read) : ~Sent(Read[k])
        BY <1>1, <2>2, <3>1, <3>2
      <4>2. PICK d : d = IF LastSent(Read, n) THEN 1 ELSE 0
        OBVIOUS
      <4>3. Whole(s, d)
        BY <1>1, <3>3, <3>5, <4>1, <4>2 DEF LostLast
      <4>4. Whole(s, d)'
        BY <4>3, WholeKept
      <4> QED BY <3>3, <4>2, <4>4
    <3> QED BY <3>4, <3>5
  <2> QED BY <2>1, <2>2
<1>5. at' > Len(Identify(chip)) => Known' \/ at' = Len(Identify(chip)) + 1
  BY <1>1, <1>2
<1> QED BY <1>2, <1>4, <1>5, LostProbes

(* A command is lost: another one follows, or it was the last.             *)
LEMMA LostNow ==
    ASSUME LoadInv, Good, fast, Running, Setup', ~crashed, crashed',
           UNCHANGED <<setupVars, fast, pc>>, NEW e, e = Read[at], Sent(e), mem \subseteq mem', pending' # "start",
           \/ at' = at + 1 /\ cmdNo' = 0 /\ ~(cmdNo + 1 < NCmds(e))
           \/ at' = at /\ cmdNo' = cmdNo + 1 /\ cmdNo + 1 < NCmds(e) /\ Read' = Read,
           UNCHANGED <<chipId, chipMcuId>> \/ at <= Len(Identify(chip))
    PROVE  Probing'
<1>1. /\ at \in 1 .. Len(Read) /\ Len(Read) \in Nat /\ Written(chip, Read) /\ Confirmed
      /\ (at > Len(Identify(chip)) => Known) /\ Len(Identify(chip)) \in {1, 4}
  BY AtStep
<1>2. Good' = Good /\ chip' = chip /\ cmdNo \in Nat
  BY DEF setupVars, Good, LoadInv, Setup
<1>3. PICK R : R = Read'
  OBVIOUS
<1>4. Written(chip, R)
  BY <1>2, <1>3, ScriptIsNext
<1>5. UNCHANGED <<chipId, chipMcuId>> => R = Read /\ Known' = Known
  BY <1>3 DEF setupVars, Read, Known
<1>6. PICK l \in 1 .. Len(R) - 1 :
         /\ Sent(R[l]) /\ l > Len(Identify(chip)) + 1
         /\ \A n \in 1 .. Len(R) : (LastSent(R, n) <=> n = l) /\ (Sent(R[n]) => n <= l)
  BY <1>4, LastIs
<1>7. Len(R) \in Nat
  BY <1>4, LastIs
<1>8. LostLast'
  <2>1. CASE at' <= l
    <3>1. l \in at' .. Len(R)
      BY <1>1, <1>6, <1>7, <2>1
    <3> QED BY <1>3, <1>6, <3>1, StillSends
  <2>2. CASE at' > l
    <3>1. at > Len(Identify(chip)) /\ R = Read
      BY <1>1, <1>5, <1>6, <2>2
    <3>2. at = l /\ at' = at + 1 /\ ~(cmdNo + 1 < NCmds(e))
      BY <1>1, <1>6, <2>2, <3>1
    <3>3. SUFFICES ASSUME NEW n \in 1 .. at
                   PROVE  \E s, d : s = Read[n] /\ d = (IF LastSent(Read, n) THEN 1 ELSE 0) /\ Whole(s, d)'
      BY <1>1, <1>3, <3>1, <3>2 DEF LostLast, Sent, LastSent
    <3>4. PICK s : s = Read[n]
      OBVIOUS
    <3>5. CASE n = at
      <4>1. LastSent(Read, n) /\ s = e
        BY <1>6, <3>1, <3>2, <3>4, <3>5
      <4>2. Whole(s, 1)
        <5>1. NCmds(e) \in Nat
          BY Counts DEF LoadInv
        <5>2. Kept(e) => \A c \in 0 .. cmdNo - 1 : Writes(e, c) \subseteq mem
          BY <1>1 DEF Confirmed
        <5>3. \A c \in 0 .. NCmds(e) - 1 - 1 : c \in 0 .. cmdNo - 1
          BY <1>2, <3>2, <5>1
        <5> QED BY <4>1, <5>2, <5>3 DEF Whole
      <4>3. Whole(s, 1)'
        BY <4>2, WholeKept
      <4> QED BY <3>4, <4>1, <4>3
    <3>6. CASE n # at
      <4>1. ~LastSent(Read, n)
        BY <1>1, <1>6, <3>1, <3>2, <3>6
      <4>2. Whole(s, 0)
        BY <1>1, <3>4, <3>6 DEF Confirmed
      <4>3. Whole(s, 0)'
        BY <4>2, WholeKept
      <4> QED BY <3>4, <4>1, <4>3
    <3> QED BY <3>5, <3>6
  <2> QED BY <1>1, <1>6, <2>1, <2>2
<1>9. at' > Len(Identify(chip)) => Known' \/ at' = Len(Identify(chip)) + 1
  BY <1>1, <1>5
<1>10. Read' = Read \/ at <= Len(Identify(chip))
  BY <1>3, <1>5
<1> QED BY <1>8, <1>9, <1>10, LostProbes

-----------------------------------------------------------------------------
(* The steps of a script, one by one.                                      *)
LEMMA StepIs ==
    ASSUME LoadInv, Good, fast, Running
    PROVE  /\ S.on \in {"fail", "skip", "last"}
           /\ S.op = "start" <=> at = Len(Read)
           /\ ~Sent(S) => S.op \in {"start", "may", "alloc"}
           /\ S.op = "flash" => S.f[1] = "flash" /\ ~LastSent(Read, at)
           /\ Sent(S) /\ S.on # "fail" => ~LastSent(Read, at)
           /\ S.f[1] \notin {"reboot", "boot"}
           /\ S.op \in {"readid", "readmcu"} => at <= Len(Identify(chip))
           /\ at = Len(Identify(chip)) + 1 => S.op \in {"read", "write"} /\ S.on = "fail"
<1>1. /\ S = Read[at] /\ at \in 1 .. Len(Read) /\ Len(Read) \in Nat /\ DOMAIN Read = 1 .. Len(Read)
      /\ Written(chip, Read) /\ Len(Identify(chip)) \in {1, 4}
  BY AtStep
<1>2. PICK R : R = Read
  OBVIOUS
<1>3. /\ \A n \in Len(Identify(chip)) + 1 .. Len(R) : R[n].op \notin {"readid", "readmcu"}
      /\ R[Len(Identify(chip)) + 1].op \in {"read", "write"} /\ R[Len(Identify(chip)) + 1].on = "fail"
      /\ \A n \in DOMAIN R :
         /\ R[n].op = "start" <=> n = Len(R)
         /\ ~Sent(R[n]) => R[n].op \in {"start", "may", "alloc"}
         /\ R[n].op = "flash" => R[n].f[1] = "flash"
         /\ R[n].f[1] \notin {"reboot", "boot"}
  BY <1>1, <1>2 DEF Written
<1>4. S \in Steps
  <2>1. R \in Seq(Steps)
    BY <1>1, <1>2, LastIs
  <2>2. PICK C : C = Steps
    OBVIOUS
  <2> QED BY <1>1, <1>2, <2>1, <2>2
<1>5. PICK l \in 1 .. Len(R) - 1 :
         /\ R[l].op \in {"write", "file"}
         /\ \A n \in 1 .. Len(R) : /\ LastSent(R, n) <=> n = l
                                   /\ Sent(R[n]) /\ R[n].on # "fail" => n < l
  BY <1>1, <1>2, LastIs
<1>6. S.on \in {"fail", "skip", "last"}
  BY <1>4 DEF Steps
<1>7. S.op = "flash" => ~LastSent(Read, at)
  BY <1>1, <1>2, <1>5
<1>8. Sent(S) /\ S.on # "fail" => ~LastSent(Read, at)
  BY <1>1, <1>2, <1>5
<1>9. S.op \in {"readid", "readmcu"} => at <= Len(Identify(chip))
  BY <1>1, <1>2, <1>3
<1> QED BY <1>1, <1>2, <1>3, <1>6, <1>7, <1>8, <1>9

(* Steps that send nothing.                                                *)
LEMMA FileMissingKeeps ==
    ASSUME LoadInv, Setup', Good, fast, FileMissing
    PROVE  Probing' /\ OwnFiles' /\ Started'
<1>1. Running /\ ~Loaded /\ UNCHANGED <<setupVars, mem, fast, pending, chipId, chipMcuId, crashed>>
  BY DEF FileMissing, devVars, drvVars
<1>2. S = Read[at] /\ pending # "start" /\ pc = "run" /\ at \in 1 .. Len(Read)
  BY <1>1, AtStep
<1>3. OwnFiles' /\ Started'
  BY <1>1, <1>2, HoldsKept DEF LoadInv, Started
<1>4. PICK e : e = Read[at]
  OBVIOUS
<1>5. CASE Fail
  BY <1>3, <1>5 DEF Fail, Probing
<1>6. CASE S.op = "flash" /\ NextStep
  <2>1. missing = "flash" /\ ~LastSent(Read, at) /\ at # Len(Identify(chip)) + 1
    <3>1. S.f[1] = "flash" /\ ~LastSent(Read, at)
          /\ (at = Len(Identify(chip)) + 1 => S.op \in {"read", "write"})
      BY <1>1, <1>6, StepIs
    <3> QED BY <1>1, <1>6, <3>1 DEF Loaded, Absent
  <2>2. Whole(e, 0)'
    BY <1>1, <1>2, <1>4, <1>6, <2>1 DEF Whole, setupVars
  <2>3. Read' = Read
    BY <1>1 DEF Read, setupVars
  <2>4. e.op \notin {"readid", "readmcu"}
    BY <1>2, <1>4, <1>6
  <2>5. at' = at + 1 /\ cmdNo' = 0 /\ UNCHANGED pc
    BY <1>6 DEF NextStep
  <2>6. CASE ~crashed
    BY <1>1, <1>2, <1>3, <1>4, <2>2, <2>3, <2>4, <2>5, <2>6, Forward
  <2>7. CASE crashed
    BY <1>1, <1>2, <1>3, <1>4, <2>1, <2>5, <2>7, LostNext
  <2> QED BY <2>6, <2>7
<1>7. Fail \/ (S.op = "flash" /\ NextStep)
  <2>1. S.on \in {"fail", "skip", "last"}
    BY <1>1, StepIs
  <2> QED BY <2>1 DEF FileMissing
<1> QED BY <1>5, <1>6, <1>7

(* Parsing the configuration and building the table.                       *)
LEMMA NoCommandKeeps ==
    ASSUME LoadInv, Setup', Good, fast, NoCommand
    PROVE  Probing' /\ OwnFiles' /\ Started'
<1>1. Running /\ S.op \in {"may", "alloc", "return"}
      /\ UNCHANGED <<setupVars, mem, fast, pending, chipId, chipMcuId, crashed>>
  BY DEF NoCommand, devVars, drvVars
<1>2. S = Read[at] /\ pending # "start" /\ pc = "run" /\ at \in 1 .. Len(Read)
  BY <1>1, AtStep
<1>3. OwnFiles' /\ Started'
  BY <1>1, <1>2, HoldsKept DEF LoadInv, Started
<1>4. PICK e : e = Read[at]
  OBVIOUS
<1>5. ~Sent(e) /\ at # Len(Identify(chip)) + 1 /\ S.op # "return"
  <2>1. (~Sent(S) => S.op \in {"start", "may", "alloc"})
        /\ (at = Len(Identify(chip)) + 1 => S.op \in {"read", "write"})
    BY <1>1, StepIs
  <2> QED BY <1>1, <1>2, <1>3, <1>4, <2>1 DEF Sent
<1>6. at' = at + 1 /\ cmdNo' = 0 /\ UNCHANGED pc
  BY <1>5 DEF NoCommand, NextStep
<1>7. Whole(e, 0)' /\ Read' = Read /\ e.op \notin {"readid", "readmcu"}
  BY <1>1, <1>5 DEF Whole, Kept, Read, setupVars, Sent
<1>8. CASE ~crashed
  BY <1>1, <1>2, <1>3, <1>4, <1>6, <1>7, <1>8, Forward
<1>9. CASE crashed
  BY <1>1, <1>2, <1>3, <1>4, <1>5, <1>6, <1>9, LostNext
<1> QED BY <1>8, <1>9

(* The start: all that was sent is there, but perhaps the last command.    *)
LEMMA StartAppKeeps ==
    ASSUME LoadInv, Setup', Good, fast, StartApp
    PROVE  Probing' /\ OwnFiles' /\ Started'
<1>1. Running /\ S.op = "start" /\ UNCHANGED <<setupVars, mem, fast, chipId, chipMcuId, crashed>>
      /\ at' = at + 1 /\ cmdNo' = 0 /\ UNCHANGED pc
  BY DEF StartApp, NextStep, drvVars
<1>2. /\ S = Read[at] /\ pc = "run" /\ at \in 1 .. Len(Read) /\ Len(Read) \in Nat
      /\ at > Len(Identify(chip)) => Known \/ (crashed /\ at = Len(Identify(chip)) + 1)
      /\ (IF crashed THEN LostLast ELSE Confirmed)
      /\ Len(Identify(chip)) \in {1, 4} /\ Len(Read) > Len(Identify(chip)) + 1
  BY <1>1, AtStep
<1>3. at = Len(Read)
  BY <1>1, StepIs
<1>4. PICK e : e = Read[at]
  OBVIOUS
<1>5. ~Sent(e)
  BY <1>1, <1>2, <1>4 DEF Sent
<1>6. Known /\ at # Len(Identify(chip)) + 1
  BY <1>2, <1>3
<1>7. ASSUME NEW n \in 1 .. Len(Read) - 1
      PROVE  Whole(Read[n], IF LastSent(Read, n) THEN 1 ELSE 0)
  <2>1. CASE crashed
    <3>1. \A k \in at .. Len(Read) : ~Sent(Read[k])
      BY <1>2, <1>3, <1>4, <1>5
    <3> QED BY <1>2, <1>3, <2>1, <3>1 DEF LostLast
  <2>2. CASE ~crashed
    <3>1. Whole(Read[n], 0)
      BY <1>2, <1>3, <2>2 DEF Confirmed
    <3>2. Whole(Read[n], 1)
      <4>1. PICK s : s = Read[n]
        OBVIOUS
      <4>2. Kept(s) => NCmds(s) \in Nat
        BY Counts DEF Kept, LoadInv
      <4>3. \A c \in 0 .. NCmds(s) - 1 - 1 : Kept(s) => c \in 0 .. NCmds(s) - 1 - 0
        BY <4>2
      <4> QED BY <3>1, <4>1, <4>3 DEF Whole
    <3> QED BY <3>1, <3>2
  <2> QED BY <2>1, <2>2
<1>8. HoldsAll
  BY <1>6, <1>7, Complete DEF LoadInv
<1>9. HoldsAll' /\ OwnFiles'
  BY <1>1, <1>8, HoldsKept DEF LoadInv
<1>10. Started'
  BY <1>1, <1>2, <1>9 DEF Started
<1>11. Whole(e, 0)' /\ Read' = Read /\ e.op \notin {"readid", "readmcu"}
  BY <1>1, <1>5 DEF Whole, Kept, Read, setupVars, Sent
<1>12. CASE ~crashed
  BY <1>1, <1>3, <1>4, <1>9, <1>10, <1>11, <1>12, Forward
<1>13. CASE crashed
  BY <1>1, <1>3, <1>4, <1>5, <1>6, <1>9, <1>10, <1>13, LostNext
<1> QED BY <1>12, <1>13

(* What a command of a script can change in the loader's globals.          *)
LEMMA NotRead ==
    ASSUME Setup, NEW r, NEW m, ReadBack(r, m), S.op \notin {"readid", "readmcu"}
    PROVE  UNCHANGED <<chipId, chipMcuId>>
<1>1. chipId' = chipId
  BY DEF ReadBack
<1>2. chipMcuId' = chipMcuId
  BY DEF ReadBack, Setup
<1> QED BY <1>1, <1>2

(* A crashed manager refuses a command.                                    *)
LEMMA CmdRefusedKeeps ==
    ASSUME LoadInv, Setup', Good, fast, CmdRefused
    PROVE  Probing' /\ OwnFiles' /\ Started'
<1>1. Running /\ crashed /\ OnError /\ NCmds(S) > 0
      /\ UNCHANGED <<setupVars, mem, fast, pending, chipId, chipMcuId, crashed>>
  BY DEF CmdRefused, Sends, Refused, devVars, drvVars
<1>2. S = Read[at] /\ pending # "start" /\ pc = "run" /\ at \in 1 .. Len(Read)
  BY <1>1, AtStep
<1>3. OwnFiles' /\ Started'
  BY <1>1, <1>2, HoldsKept DEF LoadInv, Started
<1>4. PICK e : e = Read[at]
  OBVIOUS
<1>5. CASE Fail
  BY <1>3, <1>5 DEF Fail, Probing
<1>6. CASE S.on # "fail" /\ (NextStep \/ NextCmd)
  <2>1. Sent(S) => ~LastSent(Read, at)
    BY <1>1, <1>6, StepIs
  <2>2. at # Len(Identify(chip)) + 1
    BY <1>1, <1>6, StepIs
  <2>3. \/ at' = at + 1 /\ cmdNo' = 0 /\ UNCHANGED pc
        \/ at' = at /\ cmdNo' = cmdNo + 1 /\ cmdNo + 1 < NCmds(e) /\ UNCHANGED pc
    BY <1>2, <1>4, <1>6 DEF NextStep, NextCmd
  <2> QED BY <1>1, <1>2, <1>3, <1>4, <2>1, <2>2, <2>3, LostNext
<1>7. Fail \/ (S.on # "fail" /\ (NextStep \/ NextCmd))
  <2>1. S.on \in {"fail", "skip", "last"}
    BY <1>1, StepIs
  <2> QED BY <1>1, <2>1 DEF OnError
<1> QED BY <1>5, <1>6, <1>7

(* What a command that reaches the chip does to it.                        *)
LEMMA EffectIs ==
    ASSUME LoadInv, Good, fast, Sends, UNCHANGED setupVars,
           Effect(S, cmdNo) \/ UNCHANGED <<mem, pending>>
    PROVE  /\ mem \subseteq mem' /\ pending' # "start" /\ OwnFiles' /\ Started'
<1>1. Running
  BY DEF Sends
<1>2. pending # "start" /\ S.f[1] \notin {"reboot", "boot"}
  BY <1>1, AtStep, StepIs
<1>3. pending' = pending /\ mem \subseteq mem' /\ mem' \subseteq mem \cup Writes(S, cmdNo)
  BY <1>2 DEF Effect
<1>4. OwnFiles'
  BY <1>3, OwnFilesNext
<1> QED BY <1>2, <1>3, <1>4 DEF Started

(* A step that sends one.                                                  *)
LEMMA SendsIs ==
    ASSUME LoadInv, Sends
    PROVE  /\ Running /\ Sent(S) /\ NCmds(S) \in Nat \ {0} /\ cmdNo \in Nat
           /\ S.op \in {"readid", "readmcu"} => ~(cmdNo + 1 < NCmds(S))
<1>1. Running /\ NCmds(S) > 0 /\ Setup /\ cmdNo \in Nat
  BY DEF Sends, LoadInv, Setup
<1>2. PICK s : s = S
  OBVIOUS
<1>3. Sent(s)
  <2>1. 0 < NCmds(s)
    BY <1>1, <1>2 DEF NCmds
  <2> QED BY <2>1, HasCommand
<1>4. NCmds(s) \in Nat \ {0}
  BY <1>1, <1>3, Counts
<1>5. s.op \in {"readid", "readmcu"} => NCmds(s) = 1
  BY DEF NCmds
<1> QED BY <1>1, <1>2, <1>3, <1>4, <1>5

(* A confirmed command has taken effect.                                   *)
LEMMA CmdConfirmedKeeps ==
    ASSUME LoadInv, Setup', Good, fast, CmdConfirmed
    PROVE  Probing' /\ OwnFiles' /\ Started'
<1>1. Sends /\ ~crashed /\ Effect(S, cmdNo) /\ ReadBack(rev, isMcu) /\ UNCHANGED <<setupVars, fast, crashed>>
  BY DEF CmdConfirmed, Refused
<1>2. Running /\ Sent(S) /\ NCmds(S) \in Nat \ {0} /\ cmdNo \in Nat
      /\ (S.op \in {"readid", "readmcu"} => ~(cmdNo + 1 < NCmds(S)))
  BY <1>1, SendsIs
<1>3. /\ S = Read[at] /\ pc = "run" /\ at \in 1 .. Len(Read) /\ Confirmed
      /\ Len(Read) \in Nat /\ Len(Read) > Len(Identify(chip)) + 1
  BY <1>1, <1>2, AtStep
<1>4. mem \subseteq mem' /\ pending' # "start" /\ OwnFiles' /\ Started'
  BY <1>1, EffectIs
<1>5. PICK e : e = Read[at]
  OBVIOUS
<1>6. Writes(e, cmdNo) \subseteq mem'
  BY <1>1, <1>3, <1>5 DEF Effect
<1>7. S.op \notin {"readid", "readmcu"} => UNCHANGED <<chipId, chipMcuId>>
  BY <1>1, NotRead DEF LoadInv
<1>8. UNCHANGED <<chipId, chipMcuId>> => Read' = Read
  BY <1>1 DEF Read, setupVars
<1>9. S.op \in {"readid", "readmcu"} => at <= Len(Identify(chip))
  BY <1>2, StepIs
<1>10. CASE NextStep /\ (Kept(e) => ~(cmdNo + 1 < NCmds(S)))
  <2>1. at' = at + 1 /\ cmdNo' = 0 /\ UNCHANGED pc
    BY <1>10 DEF NextStep
  <2>2. Whole(e, 0)'
    <3>1. ASSUME Kept(e), NEW c \in 0 .. NCmds(e) - 1 - 0
          PROVE  Writes(e, c) \subseteq mem'
      <4>1. c = cmdNo \/ c \in 0 .. cmdNo - 1
        BY <1>2, <1>3, <1>5, <1>10, <3>1
      <4>2. c \in 0 .. cmdNo - 1 => Writes(e, c) \subseteq mem
        BY <1>3, <1>5, <3>1 DEF Confirmed
      <4> QED BY <1>4, <1>6, <4>1, <4>2
    <3>2. NCmds(e)' = NCmds(e) /\ (\A c : Writes(e, c)' = Writes(e, c)) /\ Kept(e)' = Kept(e)
      BY <1>1, StepKept DEF Kept, Sent
    <3> QED BY <3>1, <3>2 DEF Whole
  <2>3. Read' = Read \/ at <= Len(Identify(chip))
    BY <1>7, <1>8, <1>9
  <2>4. chipId' \in {chipId, rev} /\ (chipMcuId => chipMcuId')
    BY <1>1 DEF ReadBack
  <2>5. e.op = "readid" => chipId' = rev /\ (chip = "d80" /\ isMcu => chipMcuId')
    BY <1>1, <1>3, <1>5 DEF ReadBack
  <2>6. e.op = "readmcu" /\ isMcu => chipMcuId'
    BY <1>1, <1>3, <1>5 DEF ReadBack
  <2>7. Probing'
    BY <1>1, <1>2, <1>3, <1>4, <1>5, <2>1, <2>2, <2>3, <2>4, <2>5, <2>6, Forward
  <2> QED BY <1>4, <2>7
<1>11. CASE cmdNo' = cmdNo + 1 /\ UNCHANGED <<pc, at>> /\ S.op \notin {"readid", "readmcu"}
            /\ (Kept(e) => cmdNo + 1 < NCmds(S))
  <2>1. Probing'
    BY <1>1, <1>2, <1>3, <1>4, <1>5, <1>6, <1>7, <1>11, Inward
  <2> QED BY <1>4, <2>1
<1>12. CASE Fail
  BY <1>4, <1>12 DEF Fail, Probing
<1>13. CASE S.op = "poll"
  <2>1. ~Kept(e)
    BY <1>3, <1>5, <1>13 DEF Kept
  <2>2. NextStep \/ (cmdNo' = cmdNo + 1 /\ UNCHANGED <<pc, at>>) \/ Fail
    BY <1>13 DEF CmdConfirmed
  <2> QED BY <1>10, <1>11, <1>12, <1>13, <2>1, <2>2
<1>14. CASE S.op # "poll"
  <2>1. NextCmd
    BY <1>14 DEF CmdConfirmed
  <2>2. CASE cmdNo + 1 < NCmds(S)
    BY <1>2, <1>11, <2>1, <2>2 DEF NextCmd
  <2>3. CASE ~(cmdNo + 1 < NCmds(S))
    BY <1>10, <2>1, <2>3 DEF NextCmd
  <2> QED BY <2>2, <2>3
<1> QED BY <1>13, <1>14

(* A command times out: it may have reached the chip, and what was read is *)
(* not what the chip answered.                                             *)
LEMMA CmdTimedOutKeeps ==
    ASSUME LoadInv, Setup', Good, fast, CmdTimedOut
    PROVE  Probing' /\ OwnFiles' /\ Started'
<1>1. /\ Sends /\ ~crashed /\ crashed' /\ NextCmd /\ UNCHANGED <<setupVars, fast>>
      /\ Effect(S, cmdNo) \/ UNCHANGED <<mem, pending>>
      /\ \E r, m : ReadBack(r, m)
  BY DEF CmdTimedOut, Refused
<1>2. Running /\ Sent(S) /\ NCmds(S) \in Nat \ {0} /\ cmdNo \in Nat
      /\ (S.op \in {"readid", "readmcu"} => ~(cmdNo + 1 < NCmds(S)))
  BY <1>1, SendsIs
<1>3. S = Read[at] /\ pc = "run"
  BY <1>1, <1>2, AtStep
<1>4. mem \subseteq mem' /\ pending' # "start" /\ OwnFiles' /\ Started'
  BY <1>1, EffectIs
<1>5. PICK e : e = Read[at]
  OBVIOUS
<1>6. S.op \notin {"readid", "readmcu"} => UNCHANGED <<chipId, chipMcuId>>
  BY <1>1, NotRead DEF LoadInv
<1>7. UNCHANGED <<chipId, chipMcuId>> => Read' = Read
  BY <1>1 DEF Read, setupVars
<1>8. UNCHANGED <<chipId, chipMcuId>> \/ at <= Len(Identify(chip))
  BY <1>2, <1>6, StepIs
<1>9. \/ at' = at + 1 /\ cmdNo' = 0 /\ ~(cmdNo + 1 < NCmds(e)) /\ UNCHANGED pc
      \/ at' = at /\ cmdNo' = cmdNo + 1 /\ cmdNo + 1 < NCmds(e) /\ Read' = Read /\ UNCHANGED pc
  BY <1>1, <1>2, <1>3, <1>5, <1>6, <1>7 DEF NextCmd, NextStep
<1>10. Probing'
  BY <1>1, <1>2, <1>3, <1>4, <1>5, <1>8, <1>9, LostNow
<1> QED BY <1>4, <1>10

(* On a slow port the chip is only reset.                                  *)
LEMMA SlowKeeps ==
    ASSUME LoadInv, Good, ~fast,
           FileMissing \/ NoCommand \/ StartApp \/ CmdRefused \/ CmdConfirmed \/ CmdTimedOut
    PROVE  Probing' /\ OwnFiles' /\ Started'
<1>1. Running /\ UNCHANGED <<setupVars, fast>>
  BY DEF FileMissing, NoCommand, StartApp, CmdRefused, CmdConfirmed, CmdTimedOut, Sends, devVars
<1>2. PICK s : s = Current
  OBVIOUS
<1>3. s = <<[op |-> "write", f |-> <<"reboot", "any">>, on |-> "skip"]>>
  BY <1>2 DEF Current, Script, Step, RStep
<1>4. at = 1
  <2>1. at \in Nat \ {0} /\ at <= Len(s)
    BY <1>1, <1>2 DEF Running, LoadInv, Setup
  <2>2. Len(s) = 1
    BY <1>3
  <2> QED BY <2>1, <2>2
<1>5. PICK e : e = S
  OBVIOUS
<1>6. e.op = "write" /\ e.f[1] = "reboot" /\ e.f[2] = "any"
  <2>1. e = s[1]
    BY <1>2, <1>4, <1>5 DEF S
  <2> QED BY <1>3, <2>1
<1>7. pending # "start"
  BY DEF LoadInv, Started
<1>8. mem' \subseteq mem \cup Writes(e, cmdNo)
  BY <1>5 DEF FileMissing, NoCommand, StartApp, CmdRefused, CmdConfirmed, CmdTimedOut, devVars, Effect
<1>9. pending' # "start"
  <2>1. ~StartApp
    BY <1>5, <1>6 DEF StartApp
  <2>2. Effect(e, cmdNo) => pending' # "start"
    BY <1>6, <1>7 DEF Effect
  <2> QED BY <1>5, <1>7, <2>1, <2>2 DEF FileMissing, NoCommand, CmdRefused, CmdConfirmed, CmdTimedOut, devVars
<1>10. \A x \in Writes(e, cmdNo) : x[1][2] = "any"
  <2> SUFFICES ASSUME NEW w \in Words(e, cmdNo) PROVE <<e.f, w>>[1][2] = "any"
    BY DEF Writes
  <2> QED BY <1>6
<1>11. OwnWords' = OwnWords
  BY <1>1, SetupKept
<1>12. OwnFiles'
  BY <1>8, <1>10, <1>11 DEF OwnFiles, LoadInv
<1> QED BY <1>1, <1>9, <1>12 DEF Probing, Started

-----------------------------------------------------------------------------
(* No step of the device, the loader or the main driver breaks the         *)
(* invariant.                                                              *)
LEMMA LoadInvNext ==
    ASSUME LoadInv, [Next]_vars
    PROVE  LoadInv'
<1>1. Setup'
  BY SetupNext DEF LoadInv
<1>2. Setup /\ Probing /\ OwnFiles /\ Started
  BY DEF LoadInv
<1>3. UNCHANGED setupVars /\ Good' = Good
  <2>1. UNCHANGED setupVars
    BY DEF Next, Loader, vars, Plug, Unplug, Reenumerate, ReloadModules, FdrvProbe, ProbeRefuse, ProbeStart,
         Reboot, FileMissing, NoCommand, StartApp, CmdRefused, CmdConfirmed, CmdTimedOut, ProbeDone, ProbeFailed
  <2> QED BY <2>1 DEF setupVars, Good
<1>4. SUFFICES ASSUME Good PROVE Probing' /\ OwnFiles' /\ Started'
  BY <1>1, <1>3 DEF LoadInv, Probing, OwnFiles, Started
<1>5. UNCHANGED mem => OwnFiles' /\ HoldsAll' = HoldsAll
  BY <1>2, <1>3, HoldsKept
<1>6. CASE Plug \/ Reenumerate
  BY <1>6 DEF Plug, Reenumerate, Arrive, prbVars, Probing, OwnFiles, Started
<1>7. CASE Unplug
  <2>1. UNCHANGED <<fast, mem, chipId, chipMcuId, pc, at, cmdNo, crashed>> /\ pending' = "no"
    BY <1>7 DEF Unplug, drvVars, prbVars
  <2>2. Probing'
    BY <1>2, <1>3, <2>1, ProbingKept
  <2> QED BY <1>5, <2>1, <2>2 DEF Started
<1>8. CASE ReloadModules \/ FdrvProbe \/ ProbeRefuse
  <2>1. UNCHANGED <<mem, pending, fast, pc>> /\ pc = "idle"
    BY <1>8 DEF ReloadModules, FdrvProbe, ProbeRefuse, CanProbe, devVars, prbVars
  <2> QED BY <1>2, <1>3, <1>4, <1>5, <2>1 DEF Probing, Started
<1>9. CASE ProbeStart
  <2>1. UNCHANGED <<mem, pending, fast, chipId, chipMcuId>> /\ pending = "no"
        /\ at' = 1 /\ cmdNo' = 0 /\ crashed' = FALSE
    BY <1>9 DEF ProbeStart, CanProbe, devVars, drvVars
  <2>2. Written(chip, Read) /\ Read' = Read /\ chip' = chip
    BY <1>2, <1>3, <1>4, <2>1, ScriptIs DEF Read, setupVars
  <2>3. Len(Read) \in Nat /\ Len(Read) > 1 /\ Len(Identify(chip)) \in {1, 4}
    BY <2>2, LastIs
  <2>4. PICK s : s = Read[1]
    OBVIOUS
  <2>5. Kept(s)' => 0 < NCmds(s)'
    <3>1. Sent(s) => NCmds(s) \in Nat \ {0}
      BY <1>2, Counts
    <3>2. NCmds(s)' = NCmds(s)
      BY <1>3, StepKept
    <3> QED BY <3>1, <3>2 DEF Kept, Sent
  <2>6. Confirmed'
    BY <2>1 DEF Confirmed
  <2>7. Probing'
    BY <2>1, <2>2, <2>3, <2>4, <2>5, <2>6 DEF Probing
  <2> QED BY <1>5, <2>1, <2>7 DEF Started
<1>10. CASE Reboot
  <2>1. pc = "reboot" /\ pc' = "idle" /\ UNCHANGED <<mem, fast>> /\ pending' \in {pending, "reboot"}
    BY <1>10 DEF Reboot
  <2> QED BY <1>2, <1>4, <1>5, <2>1 DEF Probing, Started
<1>11. CASE ProbeDone \/ ProbeFailed
  <2>1. pc' = "idle" /\ UNCHANGED <<mem, fast, pending>>
    BY <1>11 DEF ProbeDone, ProbeFailed, devVars
  <2> QED BY <1>2, <1>3, <1>4, <1>5, <2>1 DEF Probing, Started
<1>12. CASE FileMissing \/ NoCommand \/ StartApp \/ CmdRefused \/ CmdConfirmed \/ CmdTimedOut
  <2>1. CASE ~fast
    BY <1>4, <1>12, <2>1, SlowKeeps
  <2>2. CASE fast
    BY <1>1, <1>4, <1>12, <2>2, FileMissingKeeps, NoCommandKeeps, StartAppKeeps,
       CmdRefusedKeeps, CmdConfirmedKeeps, CmdTimedOutKeeps
  <2> QED BY <2>1, <2>2
<1>13. CASE UNCHANGED vars
  <2>1. UNCHANGED <<fast, mem, chipId, chipMcuId, pc, at, cmdNo, crashed, pending>>
    BY <1>13 DEF vars, devVars, drvVars, prbVars
  <2>2. Probing'
    BY <1>2, <1>3, <2>1, ProbingKept
  <2> QED BY <1>2, <1>3, <1>5, <2>1, <2>2 DEF Started
<1> QED BY <1>6, <1>7, <1>8, <1>9, <1>10, <1>11, <1>12, <1>13 DEF Next, Loader

(* At the start nothing was written.                                       *)
LEMMA LoadInvInit == Init => LoadInv
<1> SUFFICES ASSUME Init PROVE LoadInv
  OBVIOUS
<1>1. chip \in Chips /\ rev \in Revs(chip) /\ isMcu \in BOOLEAN /\ (chip = "8800" => ~isMcu)
  BY DEF Init
<1>2. mode \in Modes /\ size \in Sizes /\ mem = {} /\ pending = "no" /\ pc = "idle"
  BY DEF Init
<1>3. fast \in BOOLEAN /\ chipId \in Revs(chip) \cup {"0"} /\ chipMcuId \in BOOLEAN
  BY DEF Init
<1>4. at \in Nat \ {0} /\ cmdNo \in Nat
  <2>1. at = 1 /\ cmdNo = 0
    BY DEF Init
  <2> QED BY <2>1
<1>5. Setup
  BY <1>1, <1>2, <1>3, <1>4 DEF Setup
<1> QED BY <1>2, <1>5 DEF LoadInv, Probing, OwnFiles, Started

(* What the invariant says of a started chip.                              *)
LEMMA LoadInvComplete == LoadInv => StartedComplete
<1> SUFFICES ASSUME LoadInv, pending = "start", Good
             PROVE  LET sc == Script(chip, rev, isMcu, mode) IN
                    /\ Needed(sc) \subseteq mem
                    /\ AllWords(sc) \subseteq mem \union LastWords(sc)
                    /\ {x \in mem : x[1][2] # "any"} \subseteq AllWords(sc) \union Needed(sc)
  BY DEF StartedComplete, Good
<1>1. fast /\ HoldsAll
  BY DEF LoadInv, Started
<1>2. Script(chip, rev, isMcu, mode) = Own
  BY <1>1 DEF Script, Own
<1> QED BY <1>1, <1>2 DEF HoldsAll, OwnWords

(* Whenever the loader has told a chip to run its firmware, the chip holds *)
(* what it needs of its own revision and nothing of another one, for files *)
(* and register tables of every size and blocks of every length: a command *)
(* that timed out crashes the manager, and the next one fails the probe,   *)
(* unless it was the last.                                                 *)
THEOREM SpecStartedComplete == Spec => []StartedComplete
<1>1. Spec => []LoadInv
  BY LoadInvInit, LoadInvNext, PTL DEF Spec
<1> QED BY <1>1, LoadInvComplete, PTL

=============================================================================
