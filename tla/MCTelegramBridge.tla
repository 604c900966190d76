-------------------------- MODULE MCTelegramBridge --------------------------
(* The two BRIDGE_CHANNELS; Limit 2 stands for ?limit=10 so that paging    *)
(* over more messages than one fetch returns is reached with 4 messages.   *)
EXTENDS TelegramBridge, TLC

\* Two "announcements" channels, e.g. the one an earlier full-engine run
\* created and the one a rerun created after its channel listing failed.
CONSTANTS OldAnn, NewAnn

MCChans == <<"announcements", "dev-updates">>

\* One bridged channel: the paging and checkpoint cycle of a single channel.
MCOneChan == <<"announcements">>

\* A guild whose channels carry distinct names, listed in one order.
MCNameOf == [c \in Range(MCChans) |-> c]
MCListings == {MCChans}
MCOneListing == {MCOneChan}

\* The guild with both "announcements" channels; Discord does not document
\* the order of GET /guilds/{id}/channels, so either may come last.
MCDupNameOf == OldAnn :> "announcements" @@ NewAnn :> "announcements"
MCDupListings == {<<OldAnn, NewAnn>>, <<NewAnn, OldAnn>>}

\* .env lines: assignments of each required key (bare, double-quoted,
\* mixed quotes, with an inline "#"), empty assignments, a comment, a line
\* without "=" and a blank line.
MCEnvLines ==
  { <<"DISCORD_BOT_TOKEN", "=", "v">>,
    <<" ", "DISCORD_BOT_TOKEN", " ", "=", " ">>,
    <<"DISCORD_GUILD_ID", "=", DQ, "v", DQ>>,
    <<"DISCORD_GUILD_ID", "=", DQ, DQ>>,
    <<"TELEGRAM_BOT_TOKEN", "=", SQ, "v", DQ>>,
    <<"TELEGRAM_CHAT_ID", "=", "v", "#", "v">>,
    <<"#", "TELEGRAM_CHAT_ID", "=", "v">>,
    <<"TELEGRAM_CHAT_ID", " ", "v">>,
    <<" ">> }

\* A complete .env, one line per required key.
MCGoodEnv == {<<"DISCORD_BOT_TOKEN", "=", "v">>, <<"DISCORD_GUILD_ID", "=", "v">>,
              <<"TELEGRAM_BOT_TOKEN", "=", "v">>, <<"TELEGRAM_CHAT_ID", "=", "v">>}
=============================================================================
