---------------------------- MODULE MCRadioConfig ----------------------------
(***************************************************************************)
(* RadioConfig on one small radio: two slots, channels 1 and 14, and a     *)
(* flash that is empty or holds the settings of this or earlier firmware.  *)
(***************************************************************************)
EXTENDS RadioConfig

OnChannel14 == [Defaults EXCEPT !.ch = 14, !.tune = 1, !.up = TRUE,
                                !.net = "STATIC", !.ip = 2]
WithOfdm    == [Defaults EXCEPT !.mod = "OFDM", !.up = TRUE, !.mode = "STANDALONE"]

MCSaved == {NoBlob, Packed(OnChannel14), [version |-> 5, snap |-> WithOfdm],
            [version |-> 2, snap |-> WithOfdm]}
=============================================================================
