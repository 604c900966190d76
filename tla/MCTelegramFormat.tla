-------------------------- MODULE MCTelegramFormat --------------------------
(* Lengths scaled down about 1:300 with the code's proportions: headers of *)
(* 8 and 7 symbols ("E" is the emoji, "a" a run of word characters, "NL"   *)
(* a newline), a 5-symbol marker under a cut margin of 6, and a limit that *)
(* leaves each channel a little more text than the cut keeps.  Contents of *)
(* up to 8 characters exceed the room after either header.                 *)
EXTENDS TelegramFormat

MCChans == <<"announcements", "dev-updates">>
MCAlphabet == {"#", " ", "*", "a"}
MCAnnHeader == <<"E", " ", "*", "a", "a", "*", "NL", "NL">>
MCDevHeader == <<"E", " ", "*", "a", "*", "NL", "NL">>
MCMarker == <<"NL", "NL", "_", "a", "_">>

=============================================================================
