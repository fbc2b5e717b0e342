---------------------------- MODULE MCUserConfig ----------------------------
(* An instance of UserConfig: letters for names of every group.            *)
EXTENDS UserConfig

MCName == [e |-> <<"enable", "enable", 0, 0>>,
           a |-> <<"lvl", "11ax_2g4", 4, 0>>,
           b |-> <<"lvl", "11a_5g", 5, 0>>,
           s |-> <<"loss", "enable", 0, 0>>,
           v |-> <<"loss", "value", 0, 0>>,
           j |-> <<"adj", "enable", 0, 0>>,
           k |-> <<"adj", "2g4", 1, 0>>,
           o |-> <<"ofst", "enable", 0, 0>>,
           p |-> <<"ofst", "chan_1_4", 0, 0>>,
           q |-> <<"ofst2x", "2g4", 1, 2>>,
           r |-> <<"ant", "2g4_ant0", 1, 2>>,
           x |-> <<"xtal", "enable", 0, 0>>]
MCDigitOf == [d0 |-> 0, d1 |-> 1]
MCLoss == {-1, 2}
=============================================================================
