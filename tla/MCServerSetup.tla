--------------------------- MODULE MCServerSetup ---------------------------
(* A small catalog with every permission template, a forum channel, two    *)
(* categories of channels and pinned messages, and a default guild of one  *)
(* category with one channel.                                              *)
EXTENDS ServerSetup

MCRoles == <<"Founder", "Core Team", "Moderator", "Contributor", "Member", "Unverified">>

\* Founder: ADMINISTRATOR; Core Team, Moderator, Contributor and Member
\* include STANDARD_MEMBER_PERMS (view, send, history); Unverified: view and
\* history only.
MCRolePerms ==
  [n \in Range(MCRoles) |->
     CASE n = "Founder"    -> {"ADMIN"}
       [] n = "Unverified" -> VH
       [] OTHER            -> VSH]

MCStructure ==
  << [name |-> "START HERE", tmpl |-> "read_only",
      channels |-> << [name |-> "welcome", kind |-> CH_TEXT, tmpl |-> "read_only"] >>],
     [name |-> "GOVERNANCE", tmpl |-> "community",
      channels |-> << [name |-> "proposals", kind |-> CH_FORUM, tmpl |-> "governance"],
                      [name |-> "voting", kind |-> CH_TEXT] >>],
     [name |-> "TEAM", tmpl |-> "team_only",
      channels |-> << [name |-> "team-general", kind |-> CH_TEXT, tmpl |-> "team_only"] >>] >>

MCPinnedChans == <<"welcome", "proposals", "voting">>
MCPinned == [welcome |-> <<"welcome-1", "welcome-2">>, proposals |-> <<"proposals-1">>,
             voting |-> <<"voting-1">>]

MCCleanPlaceholder == {}
MCDirtyPlaceholder == {"welcome-2"}

MCDefaultChannels ==
  { [id |-> 1, name |-> "Text Channels", kind |-> CH_CATEGORY, parent |-> NoId,
     ow |-> << >>, tmpl |-> "none", run |-> 0],
    [id |-> 2, name |-> "general", kind |-> CH_TEXT, parent |-> 1,
     ow |-> << >>, tmpl |-> "none", run |-> 0] }
=============================================================================
