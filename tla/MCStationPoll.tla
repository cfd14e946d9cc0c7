---------------------------- MODULE MCStationPoll ----------------------------
(***************************************************************************)
(* An instance of StationPoll for TLC: pages in the manner of              *)
(* sample_live_data.html, at two times.  An input that the program does    *)
(* not know comes before, between and after those it knows; the form holds *)
(* another one, so that its end is followed by inputs.                     *)
(***************************************************************************)
EXTENDS StationPoll

SomeFields == {"inTemp", "outTemp"}

LiveData(in, out) ==
    << <<"form", "">>,
       <<"input", "CurrTime">>, <<"value", "14:16">>,
       <<"input", "inTemp">>,   <<"value", in>>,
       <<"input", "pm25in">>,   <<"value", "----">>,
       <<"input", "outTemp">>,  <<"value", out>>,
       <<"form", "">>,
       <<"input", "Apply">>,    <<"value", "Apply">>,
       <<"/form", "">>,
       <<"input", "rain_Default">>, <<"value", "Rain Reset">>,
       <<"value", "Refresh">>,
       <<"/form", "">> >>

Pages == {LiveData("68.0", "60.6"), LiveData("69.1", "-")}

\* The instance is one of those that the theorem of LineTrue speaks of.
ASSUME Live == LivePages
=============================================================================
