----------------------------- MODULE UserConfig -----------------------------
(***************************************************************************)
(* The user configuration file (rwnx_platform.c): its parser, the tables   *)
(* of userconfig_info the names lead to, and the requests that carry the   *)
(* tables to the firmware of each product (rwnx_msg_tx.c).                 *)
(*                                                                         *)
(* A name of the file is a key <<group, field, i, j>>; a cell of           *)
(* userconfig_info is <<table, field, i, j>>.  In the modelled files each  *)
(* key is written with one letter; a line is a sequence of characters.     *)
(* userconfig_info is a global of the module: it outlives a device.        *)
(***************************************************************************)
EXTENDS Integers, Sequences, FiniteSets

CONSTANTS
    Products,   \* kinds of device that are plugged in
    Name,       \* letter -> key
    DigitOf,    \* digit character -> 0 .. 9
    MaxLen,     \* characters of a line
    MaxLines,   \* bound on the lines read and losses set
    Loss,       \* values of the private command that sets the loss
    Width       \* bits of a table entry (8)

ASSUME UserConfigAssumption ==
    /\ Products \subseteq {"dc0", "dc", "dln", "d81", "d80n", "x2"}
    /\ MaxLen \in Nat /\ MaxLines \in Nat /\ Loss \subseteq Int /\ Width \in Nat \ {0}

VARIABLES
    product,    \* chipid of the device
    phase,      \* "load" until the requests have been made, then "run"
    info,       \* userconfig_info
    fw,         \* what the firmware was told for a key, or None
    lines,      \* lines read and losses set so far
    want        \* ghost: per product family, what the files said of a key

configVars == <<product, phase, info, fw, lines, want>>

Letters == DOMAIN Name
Digits == DOMAIN DigitOf
Chars == Letters \cup Digits \cup {"=", "#", "-", " "}
Keys == {Name[l] : l \in Letters}
Nothing == [l |-> "none", v |-> 0]
None == 2 ^ Width     \* not an entry

(* Assignment of an int to a signed entry.                                 *)
Narrow(x) == ((x + 2 ^ (Width - 1)) % 2 ^ Width) - 2 ^ (Width - 1)

-----------------------------------------------------------------------------
(* rwnx_atoi: a second minus sign, like any other character, makes it 0.   *)
Numeral(v) == v # <<>> /\ \A i \in 1 .. Len(v) : v[i] \in Digits
Decimal[v \in Seq(Digits)] ==
    IF v = <<>> THEN 0 ELSE 10 * Decimal[SubSeq(v, 1, Len(v) - 1)] + DigitOf[v[Len(v)]]
rwnx_atoi(v) ==
    CASE Numeral(v) -> Decimal[v]
      [] v[1] = "-" /\ Numeral(Tail(v)) -> -Decimal[Tail(v)]
      [] OTHER -> 0

(* Seeded fault for the mutation runs: the first sign ends the number.     *)
ParseCharNoSign(r, c) ==
    CASE r.st = "init" /\ c = "#" -> [r EXCEPT !.st = "print"]
      [] r.st = "print" -> [r EXCEPT !.cmd = <<"#">>, !.val = Append(@, c)]
      [] r.st \in {"init", "cmd"} /\ r.cmd # <<>> /\ c = "=" ->
           [r EXCEPT !.st = "value"]
      [] r.st \in {"init", "cmd"} -> [r EXCEPT !.st = "cmd", !.cmd = Append(@, c)]
      [] r.st = "value" /\ c \in Digits -> [r EXCEPT !.val = Append(@, c)]
      [] OTHER -> r

(* rwnx_plat_userconfig_parsing, one character of a line.  The two product *)
(* families have a parser each, equal but for the table of names.          *)
ParseChar(r, c) ==
    CASE r.st = "init" /\ c = "#" -> [r EXCEPT !.st = "print"]
      [] r.st = "print" -> [r EXCEPT !.cmd = <<"#">>, !.val = Append(@, c)]
      [] r.st \in {"init", "cmd"} /\ r.cmd # <<>> /\ c = "=" ->
           [r EXCEPT !.st = "value"]
      [] r.st \in {"init", "cmd"} -> [r EXCEPT !.st = "cmd", !.cmd = Append(@, c)]
      [] r.st = "value" /\ c \in Digits \cup {"-"} -> [r EXCEPT !.val = Append(@, c)]
      [] OTHER -> r

Parsed[line \in Seq(Chars)] ==
    IF line = <<>> THEN [st |-> "init", cmd |-> <<>>, val |-> <<>>]
    ELSE ParseChar(Parsed[SubSeq(line, 1, Len(line) - 1)], line[Len(line)])

(* The newline: what set_value is called with.  A file that ends without   *)
(* one loses its last line.                                                *)
LineEnd(r) ==
    IF r.st = "value" /\ r.val # <<>> /\ Len(r.cmd) = 1 /\ r.cmd[1] \in Letters
    THEN [l |-> r.cmd[1], v |-> rwnx_atoi(r.val)] ELSE Nothing

(* What a line says: a known name up to the first "=" past its first       *)
(* character, and the number its digits and signs make after it.           *)
Says(line) ==
    LET eq  == {i \in 2 .. Len(line) : line[i] = "="}
        num == SelectSeq(SubSeq(line, 3, Len(line)), LAMBDA c : c \in Digits \cup {"-"})
    IN IF Len(line) >= 2 /\ line[1] \in Letters /\ 2 \in eq /\ num # <<>>
       THEN [l |-> line[1], v |-> rwnx_atoi(num)] ELSE Nothing

Lines == UNION {[1 .. k -> Chars] : k \in 1 .. MaxLen}
(* Every line's effect: as parsed, and as it says.                         *)
Effects == {[code |-> LineEnd(Parsed[l]), says |-> Says(l)] : l \in Lines}

-----------------------------------------------------------------------------
Band5(f) == f \in {"11a_5g", "11n_11ac_5g", "11ax_5g"}
At(tables, k) == {<<t, k[2], k[3], k[4]>> : t \in tables}

(* rwnx_plat_nvram_set_value: rates.                                       *)
LvlCells(k) ==
    CASE k[1] = "enable" -> At({"lvl", "lvl_v2", "lvl_v3"}, k)
      [] k[1] = "rate" -> At({"lvl"}, k)
      [] k[1] = "lvl" /\ ~Band5(k[2]) -> At({"lvl_v2", "lvl_v3"}, k)
      [] k[1] = "lvl" /\ Band5(k[2]) -> At({"lvl_v3"}, k)
      [] OTHER -> {}
(* Adjustments, losses, offsets and the crystal.                           *)
RfCells(k) ==
    CASE k[1] \in {"adj", "loss", "xtal"} -> At({k[1]}, k)
      [] k[1] = "ofst" /\ k[2] = "enable" -> At({"ofst", "ofst2x"}, k)
      [] k[1] = "ofst" -> At({"ofst"}, k)
      [] k[1] = "ofst2x" -> At({"ofst2x"}, k)
      [] OTHER -> {}

(* Seeded fault for the mutation runs: the table of the other family.      *)
LvlCellsX2Shared(k) == LvlCells(k)
(* rwnx_plat_nvram_set_value_8800d80x2: the 5 GHz table begins at 6 Mb/s,  *)
(* the offsets are per antenna and by channel first.                       *)
LvlCellsX2(k) ==
    CASE k[1] = "enable" -> At({"lvl_v4"}, k)
      [] k[1] = "lvl" /\ k[2] # "11a_5g" -> At({"lvl_v4"}, k)
      [] k[1] = "lvl" /\ k[2] = "11a_5g" /\ k[3] >= 4 ->
           {<<"lvl_v4", k[2], k[3] - 4, k[4]>>}
      [] OTHER -> {}
RfCellsX2(k) ==
    CASE k[1] \in {"adj", "loss", "xtal"} -> At({k[1]}, k)
      [] k[1] = "ofst" /\ k[2] = "enable" -> At({"ofst2x_v2"}, k)
      [] k[1] = "ant" -> {<<"ofst2x_v2", k[2], k[4], k[3]>>}
      [] OTHER -> {}

X2(p) == p = "x2"
DC(p) == p \in {"dc", "dc0"}
Stored(p, k) == IF X2(p) THEN LvlCellsX2(k) \cup RfCellsX2(k) ELSE LvlCells(k) \cup RfCells(k)

(* The tables a product's requests are made from: get_userconfig_...        *)
LvlTable(p) ==
    CASE DC(p) \/ p = "dln" -> "lvl_v2" [] X2(p) -> "lvl_v4" [] OTHER -> "lvl_v3"
AdjTable(p) == CASE DC(p) -> "none" [] p = "dln" -> "adj_v2" [] OTHER -> "adj"
OfstTable(p) == CASE DC(p) -> "ofst" [] p = "dln" -> "ofst2x_v3"
                  [] X2(p) -> "ofst2x_v2" [] OTHER -> "ofst2x"

(* The cell of the product's own table for a key.                          *)
Read(p, k) ==
    CASE k[1] = "lvl" /\ X2(p) /\ k[2] = "11a_5g" -> <<"lvl_v4", k[2], k[3] - 4, k[4]>>
      [] k[1] \in {"enable", "lvl"} -> <<LvlTable(p), k[2], k[3], k[4]>>
      [] k[1] = "adj" -> <<AdjTable(p), k[2], k[3], k[4]>>
      [] k[1] \in {"ofst", "ofst2x"} -> <<OfstTable(p), k[2], k[3], k[4]>>
      [] k[1] = "ant" -> <<OfstTable(p), k[2], k[4], k[3]>>
      [] OTHER -> k

(* The key that switches a key's request on.                               *)
Switch(k) == CASE k[1] \in {"enable", "lvl"} -> <<"enable", "enable", 0, 0>>
               [] k[1] \in {"ofst", "ofst2x", "ant"} -> <<"ofst", "enable", 0, 0>>
               [] OTHER -> <<k[1], "enable", 0, 0>>
Band(k) == IF Band5(k[2]) THEN "5g" ELSE "2g4"
LossOn(b) == <<"loss", "enable", 0, IF b = "5g" THEN 1 ELSE 0>>
LossVal(b) == <<"loss", "value", 0, IF b = "5g" THEN 1 ELSE 0>>

Cells == UNION {Stored(p, k) : p \in Products, k \in Keys}
(* Static initialiser of userconfig_info: levels and the old offsets are   *)
(* on, the rest is off; the entries count from their defaults, here 0.     *)
Default(c) == IF c[2] = "enable" /\ c[1] \in {"lvl", "lvl_v2", "lvl_v3", "lvl_v4", "ofst"}
              THEN 1 ELSE 0
Info(c) == IF c \in Cells THEN info[c] ELSE Default(c)

Families == {"base", "x2"}
Family(p) == IF X2(p) THEN "x2" ELSE "base"

ConfigInit ==
    /\ product \in Products
    /\ phase = "load"
    /\ info = [c \in Cells |-> Default(c)]
    /\ fw = [k \in Keys |-> None]
    /\ lines = 0
    /\ want = [f \in Families |-> [k \in Keys |-> None]]

(* rwnx_plat_userconfig_load: one line of the product's file.              *)
Line(e) ==
    /\ phase = "load" /\ lines < MaxLines /\ lines' = lines + 1
    /\ info' = IF e.code = Nothing THEN info
               ELSE [c \in Cells |-> IF c \in Stored(product, Name[e.code.l])
                                     THEN Narrow(e.code.v) ELSE info[c]]
    /\ want' = IF e.says = Nothing THEN want
               ELSE [f \in Families |-> [k \in Keys |->
                      IF /\ k = Name[e.says.l]
                         /\ k[1] \in {"adj", "loss", "xtal"} \/ f = Family(product)
                      THEN Narrow(e.says.v) ELSE want[f][k]]]
    /\ UNCHANGED <<product, phase, fw>>

(* rwnx_send_txpwr_lvl_req, _v3_req and _v4_req: the loss is taken off a   *)
(* copy.  v2 has no 5 GHz part, and the first DC chips take five rates of  *)
(* it.  "rate" names feed a table no request is made from.                 *)
SendsLvl(k) ==
    /\ k[1] = "lvl" /\ Info(Read(product, Switch(k))) # 0
    /\ LvlTable(product) = "lvl_v2" => ~Band5(k[2])
    /\ X2(product) /\ k[2] = "11a_5g" => k[3] >= 4
    /\ product = "dc0" => \/ k[2] = "11b_11ag_2g4" /\ k[3] = 3
                          \/ k[2] = "11ax_2g4" /\ k[3] \in {4, 7, 9, 11}
LvlReq(k) == Narrow(Info(Read(product, k))
                    - IF Info(LossOn(Band(k))) = 1 THEN Info(LossVal(Band(k))) ELSE 0)
(* rwnx_send_txpwr_lvl_adj_req, _adj_v2_req                                *)
SendsAdj(k) == k[1] = "adj" /\ k[2] # "enable" /\ AdjTable(product) # "none"
               /\ Info(Read(product, Switch(k))) # 0
(* rwnx_send_txpwr_ofst_req, _ofst2x_req, _ofst2x_v2_req, _ofst2x_v3_req   *)
SendsOfst(k) ==
    /\ k[1] = (CASE DC(product) -> "ofst" [] X2(product) -> "ant" [] OTHER -> "ofst2x")
    /\ k[2] # "enable" /\ Info(Read(product, Switch(k))) # 0
(* rwnx_send_rf_calib_req                                                  *)
SendsXtal(k) == k[1] = "xtal" /\ k[2] # "enable"
XtalReq(k) == IF Info(Switch(k)) # 0 THEN Info(k) ELSE 0

(* aicwf_set_rf_config_...: the requests of the product, when it starts.     *)
Configure ==
    /\ phase = "load" /\ phase' = "run"
    /\ fw' = [k \in Keys |-> CASE SendsLvl(k) -> LvlReq(k)
                               [] SendsAdj(k) \/ SendsOfst(k) -> Info(Read(product, k))
                               [] SendsXtal(k) -> XtalReq(k)
                               [] OTHER -> None]
    /\ UNCHANGED <<product, info, lines, want>>

(* set_txpwr_loss_ofst and the level request that follows it               *)
(* (aic_priv_cmd_set_txpwr_loss, set_txpwrloss_ctrl).                      *)
SetLoss(v) ==
    LET set(x, k) == CASE k \in {LossOn("2g4"), LossOn("5g")} -> 1
                       [] k \in {LossVal("2g4"), LossVal("5g")} -> Narrow(-v)
                       [] OTHER -> x
    IN /\ phase = "run" /\ lines < MaxLines /\ lines' = lines + 1
       /\ info' = [c \in Cells |-> set(info[c], c)]
       /\ want' = [f \in Families |-> [k \in Keys |-> set(want[f][k], k)]]
       /\ UNCHANGED <<product, phase>>
       /\ fw' = [k \in Keys |-> IF SendsLvl(k)' THEN LvlReq(k)' ELSE fw[k]]

(* The device goes and another comes; its firmware knows nothing yet.      *)
Replug(p) ==
    /\ phase = "run" /\ phase' = "load"
    /\ product' = p
    /\ fw' = [k \in Keys |-> None]
    /\ UNCHANGED <<info, lines, want>>

ConfigNext ==
    \/ \E e \in Effects : Line(e)
    \/ Configure
    \/ \E v \in Loss : SetLoss(v)
    \/ \E p \in Products : Replug(p)

ConfigSpec == ConfigInit /\ [][ConfigNext]_configVars

(* Seeded fault for the mutation runs: the same table for every product.   *)
get_txpwr_max_v3(power) ==
    LET L == {Info(<<"lvl_v3", k[2], k[3], k[4]>>) : k \in {x \in Keys : x[1] = "lvl"}}
    IN CHOOSE m \in L \cup {power} : \A x \in L \cup {power} : x <= m
(* get_txpwr_max: the highest level of the product's table, and the larger *)
(* loss on top of it when a loss is in force (not on the DC family).       *)
get_txpwr_max(power) ==
    LET L  == IF product = "dln" THEN {}
              ELSE {Info(Read(product, k)) : k \in {x \in Keys : SendsLvl(x)}}
        m  == CHOOSE x \in L \cup {power} : \A y \in L \cup {power} : y <= x
        l2 == Info(LossVal("2g4"))  l5 == Info(LossVal("5g"))
    IN IF ~DC(product) /\ product # "dln"
          /\ (Info(LossOn("2g4")) = 1 \/ Info(LossOn("5g")) = 1)
       THEN Narrow(m + IF l2 < l5 THEN l5 ELSE l2) ELSE m

-----------------------------------------------------------------------------
(* What the files said of a key, and whether its request is switched on.   *)
Said(k) == IF k \in Keys /\ want[Family(product)][k] # None
           THEN want[Family(product)][k] ELSE Default(Read(product, k))
(* The keys of a product's file.                                           *)
Has(p, k) ==
    CASE k[1] = "lvl" ->
           /\ LvlTable(p) = "lvl_v2" => ~Band5(k[2])
           /\ X2(p) /\ k[2] = "11a_5g" => k[3] >= 4
           /\ p = "dc0" => <<k[2], k[3]>> \in {<<"11b_11ag_2g4", 3>>, <<"11ax_2g4", 4>>}
      [] k[1] = "adj" -> ~DC(p)
      [] k[1] = "ofst" -> DC(p)
      [] k[1] = "ant" -> X2(p)
      [] k[1] = "ofst2x" -> ~DC(p) /\ ~X2(p)
      [] OTHER -> FALSE

(* Once a device runs, its firmware has been told what the lines of the    *)
(* file say of every key the file of the product has and whose request is  *)
(* on, less the loss for a level: the name, the digits, the sign, the      *)
(* table and the product's request agree all the way (rwnx_platform.c,     *)
(* rwnx_plat_userconfig_parsing, rwnx_plat_nvram_set_value; rwnx_msg_tx.c, *)
(* rwnx_send_txpwr_lvl_req and its kin).                                   *)
ConfigReachesFw ==
    phase = "run" =>
        \A k \in Keys :
            /\ Has(product, k) /\ k[2] # "enable"
            /\ want[Family(product)][k] # None /\ Said(Switch(k)) # 0
            => fw[k] = Narrow(Said(k) - IF k[1] = "lvl" /\ Said(LossOn(Band(k))) = 1
                                        THEN Said(LossVal(Band(k))) ELSE 0)

(* While no loss is in force the power reported to cfg80211 is no lower    *)
(* than any level the firmware was told (rwnx_platform.c, get_txpwr_max).  *)
PowerReported ==
    phase = "run" /\ product # "dln" /\ Info(LossOn("2g4")) # 1 /\ Info(LossOn("5g")) # 1
        => \A k \in Keys : k[1] = "lvl" /\ fw[k] # None => fw[k] <= get_txpwr_max(0)
=============================================================================
