------------------------- MODULE MCAddFeedChannels -------------------------
(* A guild that went through setup: two BOTS-named categories, a MARKETS  *)
(* category already holding "price-ticker" (spec 8 scenario), and three   *)
(* feed channels, one of whose messages still has the placeholder.        *)
EXTENDS AddFeedChannels, TLC

MCNew == <<"crypto-news", "price-ticker", "whale-alerts">>

MCPinned == ("crypto-news" :> <<"news-1", "news-2">>) @@ ("price-ticker" :> <<"ticker-1">>)

MCPlaceholder == {"news-1"}

MCBotsNames == {"BOTS", "Bots"}

MCInitChannels ==
  { [id |-> 1, name |-> "BOTS", kind |-> CH_CATEGORY, parent |-> NoId, ow |-> << >>],
    [id |-> 2, name |-> "MARKETS", kind |-> CH_CATEGORY, parent |-> NoId, ow |-> << >>],
    [id |-> 3, name |-> "price-ticker", kind |-> CH_TEXT, parent |-> 2, ow |-> << >>],
    [id |-> 6, name |-> "Bots", kind |-> CH_CATEGORY, parent |-> NoId, ow |-> << >>] }

MCServerRoles == {[id |-> 4, name |-> "Member"], [id |-> 5, name |-> "Unverified"]}
=============================================================================
