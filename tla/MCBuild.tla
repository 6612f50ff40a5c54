------------------------------- MODULE MCBuild --------------------------------
(* Two releases and three headers: the second release drops one header,    *)
(* calls for no file of another and for less of the third, so that every   *)
(* kind of leftover occurs.                                                *)
EXTENDS EOSBuild

CONSTANTS r1, r2, lobby, ui, rtc

TwoReleases == {r1, r2}
ThreeSources == {lobby, ui, rtc}
SomeHeaders == [r \in TwoReleases |-> IF r = r1 THEN ThreeSources ELSE {lobby, rtc}]
SomeFiles == [r \in TwoReleases |->
                IF r = r1 THEN {<<lobby, "structs">>, <<lobby, "enums">>,
                                <<lobby, "interfaces">>, <<ui, "handles">>,
                                <<rtc, "structs">>}
                          ELSE {<<lobby, "interfaces">>,
                                <<lobby, "packed_results">>}]
===============================================================================
