--------------------------- MODULE MCGuidProvider ---------------------------
(* Small instances of GuidProvider for TLC: answers of one to three diapasons.  The     *)
(* percentage of the last two ends within and with a diapason when they come first.     *)
EXTENDS GuidProvider

OneOrTwoDiapasons == {<< <<0, 4>> >>, << <<3, 3>> >>, << <<0, 1>> >>, << <<0, 1>>, <<2, 3>> >>,
                      << <<0, 2>>, <<1, 1>> >>, << <<1, 2>>, <<0, 1>>, <<1, 1>> >>,
                      << <<0, 3>>, <<0, 4>> >>, << <<0, 2>>, <<1, 2>> >>}
=============================================================================
