--------------------------- MODULE MCCalibration ---------------------------
(***************************************************************************)
(* Calibration with two channels of a client and target, and a setting for *)
(* everything, for the client, and for one of the channels.                *)
(***************************************************************************)
EXTENDS Calibration, TLC

KeyOf(ch) == [client |-> "c", target |-> "t", channel |-> ch, metric |-> "cpm_twd"]
Global    == [client |-> None, target |-> None, channel |-> None]
OfClient  == [client |-> "c", target |-> None, channel |-> None]
OfChannel == [client |-> "c", target |-> "t", channel |-> "tv"]

TwoKeys   == {KeyOf("tv"), KeyOf("fb")}
TwoFeeds  == {<<KeyOf("tv")>>, <<KeyOf("tv"), KeyOf("fb")>>}
AllScopes == {Global, OfClient, OfChannel}

Symmetry == Permutations(Threads)
=============================================================================
