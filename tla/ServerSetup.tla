---------------------------- MODULE ServerSetup ----------------------------
(***************************************************************************)
(* The full provisioning engine of marketing/scripts/setup_discord.py:     *)
(* ServerSetup.run() = delete_default_channels, create_roles,              *)
(* _validate_required_roles, create_channels, pin_messages, driven through *)
(* DiscordClient._request against a live Discord guild.                    *)
(*                                                                         *)
(* The guild (channels, roles, messages) is durable remote state; the      *)
(* script's maps role_ids / channel_ids live only for one invocation.      *)
(* Every HTTP call either succeeds or fails (non-2xx, reported as None);   *)
(* an uncaught exception from requests ends the process mid-run; the       *)
(* operator may run the script again, in dry-run mode or not.  429 retries *)
(* are absorbed inside one call (see RateLimitedRequest).                  *)
(***************************************************************************)
EXTENDS Integers, Sequences, FiniteSets, Functions

CONSTANTS
  Roles,           \* ROLES: sequence of role names, highest authority first
  Structure,       \* SERVER_STRUCTURE: sequence of category records
  PinnedChans,     \* keys of PINNED_MESSAGES in dict order
  Pinned,          \* PINNED_MESSAGES: channel name -> sequence of messages
  Placeholder,     \* messages whose text contains "URL_PLACEHOLDER"
  RolePerms,       \* ROLES[i]["permissions"]: role name -> subset of Perm \cup {"ADMIN"}
  DefaultChannels, \* channels of the guild before the first run
  FirstId,         \* first snowflake the guild hands out
  GuildId,         \* the guild id, which is also the @everyone role id
  NoId,            \* model value: "" / None, no id
  DryRunId,        \* model value: "DRY_RUN_ID" returned in dry-run mode
  MaxRuns,         \* bound: invocations of the script
  MaxFail          \* bound: failed HTTP calls and crashes in a behaviour

ASSUME MaxRuns \in Nat /\ MaxFail \in Nat /\ FirstId \in Nat

VARIABLES
  \* the guild
  srvChannels,  \* set of [id, name, kind, parent, ow, tmpl, run]
  srvRoles,     \* set of [id, name, pos, run]
  srvMsgs,      \* set of [id, ch, body, pinned]
  nextId,       \* next snowflake
  \* the process
  pc, dry, runs, fails,
  toDelete,     \* ids from GET /guilds/{id}/channels not yet deleted
  roleIds,      \* self.role_ids
  channelIds,   \* self.channel_ids
  ri, ci, chi, catId, pi, mi, msgId,
  \* history: whether any call of this run failed
  runFailed

srv  == <<srvChannels, srvRoles, srvMsgs, nextId>>
proc == <<pc, dry, runs, fails, toDelete, roleIds, channelIds,
          ri, ci, chi, catId, pi, mi, msgId, runFailed>>
vars == <<srv, proc>>

CH_TEXT == 0
CH_CATEGORY == 4
CH_FORUM == 15
NoPos == -1
Perm == {"VIEW", "SEND", "HISTORY"}
VSH  == Perm
VH   == {"VIEW", "HISTORY"}

\* Mutant: the required list forgets a role a template uses.
RequiredNoContributor == {"Founder", "Core Team", "Moderator", "Member", "Unverified"}

\* The roles _validate_required_roles insists on.
Required == {"Founder", "Core Team", "Moderator", "Contributor",
             "Member", "Unverified"}

Assign(f, k, v) == [x \in DOMAIN f \cup {k} |-> IF x = k THEN v ELSE f[x]]
RoleId(ids, n)  == IF n \in DOMAIN ids THEN ids[n] ELSE NoId
Idx(n) == CHOOSE i \in 1..Len(Roles) : Roles[i] = n

(***************************************************************************)
(* _build_overwrites: permission bitmasks are sets of permission names,    *)
(* bitwise OR is union.  Records whose role id is empty are dropped.       *)
(***************************************************************************)
OW(id, allow, deny) == [id |-> id, allow |-> allow, deny |-> deny]

\* Mutant: team_only leaves @everyone's view alone.
TemplateRecordsTeamOpen(t, ids) ==
  LET ev  == GuildId
      unv == RoleId(ids, "Unverified")
      mem == RoleId(ids, "Member")
      con == RoleId(ids, "Contributor")
  IN CASE t = "read_only"  -> << OW(ev, VH, {"SEND"}), OW(unv, VH, {"SEND"}) >>
       [] t = "community"  -> << OW(ev, {}, {"SEND"}), OW(unv, {}, {"VIEW", "SEND"}),
                                OW(mem, VSH, {}) >>
       [] t = "governance" -> << OW(ev, {}, {"SEND"}), OW(unv, {}, {"VIEW", "SEND"}),
                                OW(mem, VH, {"SEND"}), OW(con, VSH, {}) >>
       [] t = "team_only"  -> << OW(ev, {}, {}),
                                OW(RoleId(ids, "Founder"), VSH, {}),
                                OW(RoleId(ids, "Core Team"), VSH, {}),
                                OW(RoleId(ids, "Moderator"), VSH, {}) >>
       [] OTHER            -> << >>

\* Mutant: community denies Unverified send but not view.
TemplateRecordsUnvView(t, ids) ==
  LET ev  == GuildId
      unv == RoleId(ids, "Unverified")
      mem == RoleId(ids, "Member")
      con == RoleId(ids, "Contributor")
  IN CASE t = "read_only"  -> << OW(ev, VH, {"SEND"}), OW(unv, VH, {"SEND"}) >>
       [] t = "community"  -> << OW(ev, {}, {"SEND"}), OW(unv, {}, {"SEND"}),
                                OW(mem, VSH, {}) >>
       [] t = "governance" -> << OW(ev, {}, {"SEND"}), OW(unv, {}, {"VIEW", "SEND"}),
                                OW(mem, VH, {"SEND"}), OW(con, VSH, {}) >>
       [] t = "team_only"  -> << OW(ev, {}, {"VIEW"}),
                                OW(RoleId(ids, "Founder"), VSH, {}),
                                OW(RoleId(ids, "Core Team"), VSH, {}),
                                OW(RoleId(ids, "Moderator"), VSH, {}) >>
       [] OTHER            -> << >>

TemplateRecords(t, ids) ==
  LET ev  == GuildId
      unv == RoleId(ids, "Unverified")
      mem == RoleId(ids, "Member")
      con == RoleId(ids, "Contributor")
  IN CASE t = "read_only"  -> << OW(ev, VH, {"SEND"}), OW(unv, VH, {"SEND"}) >>
       [] t = "community"  -> << OW(ev, {}, {"SEND"}), OW(unv, {}, {"VIEW", "SEND"}),
                                OW(mem, VSH, {}) >>
       [] t = "governance" -> << OW(ev, {}, {"SEND"}), OW(unv, {}, {"VIEW", "SEND"}),
                                OW(mem, VH, {"SEND"}), OW(con, VSH, {}) >>
       [] t = "team_only"  -> << OW(ev, {}, {"VIEW"}),
                                OW(RoleId(ids, "Founder"), VSH, {}),
                                OW(RoleId(ids, "Core Team"), VSH, {}),
                                OW(RoleId(ids, "Moderator"), VSH, {}) >>
       [] OTHER            -> << >>

BuildOverwrites(t, ids) == SelectSeq(TemplateRecords(t, ids), LAMBDA o : o.id # NoId)

\* Discord's resolution of what a member holding the roles "held" may do in
\* channel c, when the guild gives @everyone the permissions "everyone":
\* ADMINISTRATOR passes everything; otherwise the @everyone overwrite, then
\* the union of the held roles' overwrite denies, then their allows, are
\* applied to the base permissions; without VIEW nothing else is usable.
Resolve(c, held, everyone) ==
  LET base == everyone \cup UNION {RolePerms[r.name] : r \in held}
      evOw == {c.ow[k] : k \in {k \in 1..Len(c.ow) : c.ow[k].id = GuildId}}
      rlOw == {c.ow[k] : k \in {k \in 1..Len(c.ow) : \E r \in held : r.id = c.ow[k].id}}
      p1   == (base \ UNION {o.deny : o \in evOw}) \cup UNION {o.allow : o \in evOw}
      p2   == (p1 \ UNION {o.deny : o \in rlOw}) \cup UNION {o.allow : o \in rlOw}
  IN IF "ADMIN" \in base THEN Perm
     ELSE IF "VIEW" \in p2 THEN p2 ELSE {}

\* category_def.get("perm_template", "community"); ch_def.get(.., cat's)
CatTemplate(cat) == IF "tmpl" \in DOMAIN cat THEN cat.tmpl ELSE "community"
ChTemplate(cat, ch) == IF "tmpl" \in DOMAIN ch THEN ch.tmpl ELSE CatTemplate(cat)

\* Mutant: off by one, the last role lands on @everyone's position 0.
RolePositionZeroBased(i) == Len(Roles) - i

\* Position given to the role at (1-based) catalog index i: total - idx.
RolePosition(i) == Len(Roles) - i + 1

\* Every channel definition of SERVER_STRUCTURE.
ChannelDefs == UNION {Range(Structure[c].channels) : c \in 1..Len(Structure)}

\* The channel-type lookup of pin_messages; None when no channel matches.
KindOf(n) ==
  IF \E ch \in ChannelDefs : ch.name = n
  THEN (CHOOSE ch \in ChannelDefs : ch.name = n).kind
  ELSE NoId

\* The pre-flight scan: some pinned message contains the placeholder.
HasPlaceholder ==
  \E k \in 1..Len(PinnedChans) :
    \E i \in 1..Len(Pinned[PinnedChans[k]]) : Pinned[PinnedChans[k]][i] \in Placeholder

(***************************************************************************)
(* An HTTP call outcome.  A failure is a non-2xx status, bounded by MaxFail.*)
(***************************************************************************)
Ok   == UNCHANGED <<fails, runFailed>>
Fail == /\ fails < MaxFail
        /\ fails' = fails + 1
        /\ runFailed' = TRUE

\* Mutant: the reset only deletes channels that are not categories.
ListedNoCategories(chs) == {c.id : c \in {d \in chs : d.kind # CH_CATEGORY}}

\* The channels delete_default_channels iterates over (the GET reply).
Listed(chs) == {c.id : c \in chs}

Running == pc \notin {"idle", "done", "aborted"}

Init ==
  /\ srvChannels = DefaultChannels
  /\ srvRoles = {}
  /\ srvMsgs = {}
  /\ nextId = FirstId
  /\ pc = "idle" /\ dry = FALSE /\ runs = 0 /\ fails = 0
  /\ toDelete = {} /\ roleIds = <<>> /\ channelIds = <<>>
  /\ ri = 1 /\ ci = 1 /\ chi = 1 /\ catId = NoId /\ pi = 1 /\ mi = 1
  /\ msgId = NoId /\ runFailed = FALSE

\* main(): a new invocation, with or without --dry-run; fresh ServerSetup.
Start ==
  /\ ~Running
  /\ runs < MaxRuns
  /\ runs' = runs + 1
  /\ \E d \in BOOLEAN : dry' = d
  /\ pc' = "list"
  /\ toDelete' = {} /\ roleIds' = <<>> /\ channelIds' = <<>>
  /\ ri' = 1 /\ ci' = 1 /\ chi' = 1 /\ catId' = NoId /\ pi' = 1 /\ mi' = 1
  /\ msgId' = NoId /\ runFailed' = FALSE
  /\ UNCHANGED <<srv, fails>>

(***************************************************************************)
(* delete_default_channels.  A failed GET is reported and the method just  *)
(* returns; the run goes on to create_roles.  In dry-run the stub reply is *)
(* not a list, so nothing is deleted.                                      *)
(***************************************************************************)
ListChannels ==
  /\ pc = "list"
  /\ \/ /\ dry /\ Ok
        /\ toDelete' = {} /\ pc' = "roles"
     \/ /\ ~dry /\ Ok
        /\ toDelete' = Listed(srvChannels)
        /\ pc' = "delete"
     \/ /\ ~dry /\ Fail
        /\ toDelete' = {} /\ pc' = "roles"
  /\ UNCHANGED <<srv, dry, runs, roleIds, channelIds, ri, ci, chi, catId, pi, mi, msgId>>

\* One DELETE /channels/{id}; its result is ignored.  Discord keeps the
\* children of a deleted category, with no parent.
DeleteChannel ==
  /\ pc = "delete"
  /\ \E id \in toDelete :
       /\ toDelete' = toDelete \ {id}
       /\ \/ /\ Ok
             /\ srvChannels' = { [c EXCEPT !.parent = IF c.parent = id THEN NoId ELSE c.parent]
                                 : c \in {d \in srvChannels : d.id # id} }
          \/ Fail /\ UNCHANGED srvChannels
  /\ UNCHANGED <<srvRoles, srvMsgs, nextId, pc, dry, runs, roleIds, channelIds,
                 ri, ci, chi, catId, pi, mi, msgId>>

DeleteDone ==
  /\ pc = "delete" /\ toDelete = {}
  /\ pc' = "roles"
  /\ UNCHANGED <<srv, dry, runs, fails, toDelete, roleIds, channelIds, ri, ci, chi,
                 catId, pi, mi, msgId, runFailed>>

(***************************************************************************)
(* create_roles: one POST per ROLES entry; only a truthy reply is recorded *)
(* in role_ids.  Then, unless dry-run or no role was created, one PATCH    *)
(* giving each created role position total - idx; its result is ignored.  *)
(***************************************************************************)
\* Mutant: the `if result:` guard is dropped; a failed POST records no id.
CreateRoleNoResultCheck ==
  /\ pc = "roles" /\ ri <= Len(Roles)
  /\ ri' = ri + 1
  /\ LET n == Roles[ri] IN
       \/ /\ dry /\ Ok
          /\ roleIds' = Assign(roleIds, n, DryRunId) /\ UNCHANGED srv
       \/ /\ ~dry /\ Ok
          /\ srvRoles' = srvRoles \cup {[id |-> nextId, name |-> n, pos |-> NoPos, run |-> runs]}
          /\ roleIds' = Assign(roleIds, n, nextId)
          /\ nextId' = nextId + 1
          /\ UNCHANGED <<srvChannels, srvMsgs>>
       \/ /\ ~dry /\ Fail /\ UNCHANGED srv
          /\ roleIds' = Assign(roleIds, n, NoId)
  /\ UNCHANGED <<pc, dry, runs, toDelete, channelIds, ci, chi, catId, pi, mi, msgId>>

CreateRole ==
  /\ pc = "roles" /\ ri <= Len(Roles)
  /\ ri' = ri + 1
  /\ LET n == Roles[ri] IN
       \/ /\ dry /\ Ok
          /\ roleIds' = Assign(roleIds, n, DryRunId) /\ UNCHANGED srv
       \/ /\ ~dry /\ Ok
          /\ srvRoles' = srvRoles \cup {[id |-> nextId, name |-> n, pos |-> NoPos, run |-> runs]}
          /\ roleIds' = Assign(roleIds, n, nextId)
          /\ nextId' = nextId + 1
          /\ UNCHANGED <<srvChannels, srvMsgs>>
       \/ ~dry /\ Fail /\ UNCHANGED <<srv, roleIds>>
  /\ UNCHANGED <<pc, dry, runs, toDelete, channelIds, ci, chi, catId, pi, mi, msgId>>

RolesDone ==
  /\ pc = "roles" /\ ri > Len(Roles)
  /\ pc' = "reorder"
  /\ UNCHANGED <<srv, dry, runs, fails, toDelete, roleIds, channelIds, ri, ci, chi,
                 catId, pi, mi, msgId, runFailed>>

ReorderRoles ==
  /\ pc = "reorder"
  /\ pc' = "validate"
  /\ \/ /\ dry \/ DOMAIN roleIds = {}
        /\ Ok /\ UNCHANGED srv
     \/ /\ ~dry /\ DOMAIN roleIds # {} /\ Ok
        /\ srvRoles' = { IF \E n \in DOMAIN roleIds : roleIds[n] = r.id
                         THEN [r EXCEPT !.pos = RolePosition(Idx(CHOOSE n \in DOMAIN roleIds :
                                                                      roleIds[n] = r.id))]
                         ELSE r : r \in srvRoles }
        /\ UNCHANGED <<srvChannels, srvMsgs, nextId>>
     \/ ~dry /\ DOMAIN roleIds # {} /\ Fail /\ UNCHANGED srv
  /\ UNCHANGED <<dry, runs, toDelete, roleIds, channelIds, ri, ci, chi, catId, pi, mi,
                 msgId>>

\* _validate_required_roles: sys.exit(1) when a required role is missing.
ValidateRoles ==
  /\ pc = "validate"
  /\ pc' = IF Required \ DOMAIN roleIds # {} /\ ~dry THEN "aborted" ELSE "category"
  /\ UNCHANGED <<srv, dry, runs, fails, toDelete, roleIds, channelIds, ri, ci, chi,
                 catId, pi, mi, msgId, runFailed>>

(***************************************************************************)
(* create_channels: per category one POST; on failure its channels are     *)
(* skipped.  Then one POST per channel, parent = the category's id, with   *)
(* the overwrites of its own or the category's template.                   *)
(***************************************************************************)
CreateCategory ==
  /\ pc = "category" /\ ci <= Len(Structure)
  /\ LET cat == Structure[ci] IN
       \/ /\ dry /\ Ok
          /\ catId' = DryRunId /\ chi' = 1 /\ pc' = "channel"
          /\ UNCHANGED <<srv, ci>>
       \/ /\ ~dry /\ Ok
          /\ srvChannels' = srvChannels \cup
               {[id |-> nextId, name |-> cat.name, kind |-> CH_CATEGORY, parent |-> NoId,
                 ow |-> BuildOverwrites(CatTemplate(cat), roleIds),
                 tmpl |-> CatTemplate(cat), run |-> runs]}
          /\ nextId' = nextId + 1
          /\ catId' = nextId /\ chi' = 1 /\ pc' = "channel"
          /\ UNCHANGED <<srvRoles, srvMsgs, ci>>
       \/ /\ ~dry /\ Fail
          /\ ci' = ci + 1
          /\ UNCHANGED <<srv, catId, chi, pc>>
  /\ UNCHANGED <<dry, runs, toDelete, roleIds, channelIds, ri, pi, mi, msgId>>

CreateChannel ==
  /\ pc = "channel" /\ chi <= Len(Structure[ci].channels)
  /\ chi' = chi + 1
  /\ LET cat == Structure[ci]
         ch  == cat.channels[chi]
     IN \/ /\ dry /\ Ok
           /\ channelIds' = Assign(channelIds, ch.name, DryRunId) /\ UNCHANGED srv
        \/ /\ ~dry /\ Ok
           /\ srvChannels' = srvChannels \cup
                {[id |-> nextId, name |-> ch.name, kind |-> ch.kind, parent |-> catId,
                  ow |-> BuildOverwrites(ChTemplate(cat, ch), roleIds),
                  tmpl |-> ChTemplate(cat, ch), run |-> runs]}
           /\ channelIds' = Assign(channelIds, ch.name, nextId)
           /\ nextId' = nextId + 1
           /\ UNCHANGED <<srvRoles, srvMsgs>>
        \/ ~dry /\ Fail /\ UNCHANGED <<srv, channelIds>>
  /\ UNCHANGED <<pc, dry, runs, toDelete, roleIds, ri, ci, catId, pi, mi, msgId>>

CategoryDone ==
  /\ pc = "channel" /\ chi > Len(Structure[ci].channels)
  /\ pc' = "category" /\ ci' = ci + 1
  /\ UNCHANGED <<srv, dry, runs, fails, toDelete, roleIds, channelIds, ri, chi,
                 catId, pi, mi, msgId, runFailed>>

CategoriesDone ==
  /\ pc = "category" /\ ci > Len(Structure)
  /\ pc' = "preflight"
  /\ UNCHANGED <<srv, dry, runs, fails, toDelete, roleIds, channelIds, ri, ci, chi,
                 catId, pi, mi, msgId, runFailed>>

(***************************************************************************)
(* pin_messages: the URL_PLACEHOLDER scan over every pinned message, then  *)
(* per channel with a recorded id and not a forum: for each message, POST  *)
(* it, then PUT the pin of the id it returned.                             *)
(***************************************************************************)
Preflight ==
  /\ pc = "preflight"
  /\ pc' = IF HasPlaceholder THEN "aborted" ELSE "pin_chan"
  /\ UNCHANGED <<srv, dry, runs, fails, toDelete, roleIds, channelIds, ri, ci, chi,
                 catId, pi, mi, msgId, runFailed>>

SkipPinChannel ==
  /\ pc = "pin_chan" /\ pi <= Len(PinnedChans)
  /\ PinnedChans[pi] \notin DOMAIN channelIds \/ KindOf(PinnedChans[pi]) = CH_FORUM
  /\ pi' = pi + 1
  /\ UNCHANGED <<srv, pc, dry, runs, fails, toDelete, roleIds, channelIds, ri, ci, chi,
                 catId, mi, msgId, runFailed>>

BeginPinChannel ==
  /\ pc = "pin_chan" /\ pi <= Len(PinnedChans)
  /\ PinnedChans[pi] \in DOMAIN channelIds
  /\ KindOf(PinnedChans[pi]) # CH_FORUM
  /\ pc' = "send" /\ mi' = 1
  /\ UNCHANGED <<srv, dry, runs, fails, toDelete, roleIds, channelIds, ri, ci, chi,
                 catId, pi, msgId, runFailed>>

PinsDone ==
  /\ pc = "pin_chan" /\ pi > Len(PinnedChans)
  /\ pc' = "done"
  /\ UNCHANGED <<srv, dry, runs, fails, toDelete, roleIds, channelIds, ri, ci, chi,
                 catId, pi, mi, msgId, runFailed>>

\* Mutant: send_result["id"] is not taken; the pin uses the previous id.
SendMessageStaleId ==
  /\ pc = "send"
  /\ LET n == PinnedChans[pi] IN
       /\ mi <= Len(Pinned[n])
       /\ \/ /\ dry /\ Ok
             /\ mi' = mi + 1 /\ UNCHANGED <<srv, pc, msgId>>
          \/ /\ ~dry /\ Ok
             /\ srvMsgs' = srvMsgs \cup {[id |-> nextId, ch |-> channelIds[n],
                                          body |-> Pinned[n][mi], pinned |-> FALSE]}
             /\ nextId' = nextId + 1
             /\ pc' = "pin"
             /\ UNCHANGED <<srvChannels, srvRoles, mi, msgId>>
          \/ /\ ~dry /\ Fail
             /\ mi' = mi + 1 /\ UNCHANGED <<srv, pc, msgId>>
  /\ UNCHANGED <<dry, runs, toDelete, roleIds, channelIds, ri, ci, chi, catId, pi>>

SendMessage ==
  /\ pc = "send"
  /\ LET n == PinnedChans[pi] IN
       /\ mi <= Len(Pinned[n])
       /\ \/ /\ dry /\ Ok
             /\ mi' = mi + 1 /\ UNCHANGED <<srv, pc, msgId>>
          \/ /\ ~dry /\ Ok
             /\ srvMsgs' = srvMsgs \cup {[id |-> nextId, ch |-> channelIds[n],
                                          body |-> Pinned[n][mi], pinned |-> FALSE]}
             /\ msgId' = nextId /\ nextId' = nextId + 1
             /\ pc' = "pin"
             /\ UNCHANGED <<srvChannels, srvRoles, mi>>
          \/ /\ ~dry /\ Fail
             /\ mi' = mi + 1 /\ UNCHANGED <<srv, pc, msgId>>
  /\ UNCHANGED <<dry, runs, toDelete, roleIds, channelIds, ri, ci, chi, catId, pi>>

MessagesDone ==
  /\ pc = "send" /\ mi > Len(Pinned[PinnedChans[pi]])
  /\ pc' = "pin_chan" /\ pi' = pi + 1
  /\ UNCHANGED <<srv, dry, runs, fails, toDelete, roleIds, channelIds, ri, ci, chi,
                 catId, mi, msgId, runFailed>>

PinMessage ==
  /\ pc = "pin"
  /\ pc' = "send" /\ mi' = mi + 1
  /\ \/ /\ Ok
        /\ srvMsgs' = {IF m.id = msgId THEN [m EXCEPT !.pinned = TRUE] ELSE m : m \in srvMsgs}
     \/ Fail /\ UNCHANGED srvMsgs
  /\ UNCHANGED <<srvChannels, srvRoles, nextId, dry, runs, toDelete, roleIds, channelIds,
                 ri, ci, chi, catId, pi, msgId>>

\* An exception out of requests (connection error, Ctrl-C) ends the process.
Crash ==
  /\ Running /\ ~dry
  /\ fails < MaxFail
  /\ fails' = fails + 1
  /\ pc' = "idle"
  /\ UNCHANGED <<srv, dry, runs, toDelete, roleIds, channelIds, ri, ci, chi, catId,
                 pi, mi, msgId, runFailed>>

Next ==
  \/ Start \/ ListChannels \/ DeleteChannel \/ DeleteDone
  \/ CreateRole \/ RolesDone \/ ReorderRoles \/ ValidateRoles
  \/ CreateCategory \/ CreateChannel \/ CategoryDone \/ CategoriesDone
  \/ Preflight \/ SkipPinChannel \/ BeginPinChannel \/ PinsDone
  \/ SendMessage \/ MessagesDone \/ PinMessage \/ Crash

Spec == Init /\ [][Next]_vars

(***************************************************************************)
(* Properties                                                              *)
(***************************************************************************)
Channel == [id : Nat, name : STRING, kind : Nat, parent : Nat \cup {NoId},
            ow : Seq([id : Nat, allow : SUBSET Perm, deny : SUBSET Perm]),
            tmpl : STRING, run : Nat]

TypeOK ==
  /\ srvChannels \subseteq Channel
  /\ srvRoles \subseteq [id : Nat, name : Range(Roles), pos : Int, run : Nat]
  /\ srvMsgs \subseteq [id : Nat, ch : Nat, body : STRING, pinned : BOOLEAN]
  /\ pc \in {"idle", "list", "delete", "roles", "reorder", "validate", "category",
             "channel", "preflight", "pin_chan", "send", "pin", "done", "aborted"}
  /\ runs \in 0..MaxRuns /\ fails \in 0..MaxFail
  /\ toDelete \subseteq Nat
  /\ DOMAIN roleIds \subseteq Range(Roles)
  /\ Range(roleIds) \subseteq Nat \cup {DryRunId}
  /\ Range(channelIds) \subseteq Nat \cup {DryRunId}
  /\ catId \in Nat \cup {NoId, DryRunId}

\* The roles each template of the spec's overwrite table grants or denies.
TemplateRoles(t) ==
  CASE t = "read_only"  -> {"Unverified"}
    [] t = "community"  -> {"Unverified", "Member"}
    [] t = "governance" -> {"Unverified", "Member", "Contributor"}
    [] t = "team_only"  -> {"Founder", "Core Team", "Moderator"}
    [] OTHER            -> {}

\* MED-03 (_validate_required_roles guarding create_channels): every
\* category and channel the script creates carries an overwrite record for
\* every role its template names, pointing at a live role of that name --
\* even when some role creation failed or an earlier run crashed.
ChannelsFullyProtected ==
  \A c \in srvChannels :
    \A n \in TemplateRoles(c.tmpl) :
      \E k \in 1..Len(c.ow) : \E r \in srvRoles : r.id = c.ow[k].id /\ r.name = n

\* The member roles a user can hold together: one or two live roles.
Holdings == {h \in SUBSET srvRoles : Cardinality(h) \in 1..2}

Staff == {"Founder", "Core Team", "Moderator"}

\* team_only ("only Founder/Core Team/Moderator can view+send"): in every
\* live team_only channel, whatever @everyone may do in the guild, a member
\* sees the channel only through a staff role.
TeamOnlyPrivate ==
  \A c \in srvChannels : c.tmpl = "team_only" /\ c.kind # CH_CATEGORY =>
    \A h \in Holdings :
      "VIEW" \in Resolve(c, h, Perm) => \E r \in h : r.name \in Staff

\* read_only / community / governance: a member holding only the
\* Unverified role the channel was built with can send nowhere and sees
\* only read_only channels, whatever @everyone may do in the guild.
UnverifiedConfined ==
  \A c \in srvChannels, r \in srvRoles :
    (c.kind # CH_CATEGORY /\ r.name = "Unverified" /\ r.run = c.run) =>
      LET p == Resolve(c, {r}, Perm) IN
        /\ "SEND" \notin p
        /\ "VIEW" \in p => c.tmpl = "read_only"

CatalogTopology ==
  {<<Structure[c].name, "">> : c \in 1..Len(Structure)} \cup
  UNION {{<<ch.name, Structure[c].name>> : ch \in Range(Structure[c].channels)}
         : c \in 1..Len(Structure)}
ParentName(c) ==
  IF \E p \in srvChannels : p.id = c.parent
  THEN (CHOOSE p \in srvChannels : p.id = c.parent).name ELSE ""

\* ServerSetup.run: a real run that completes with every call succeeding
\* leaves exactly the catalog's categories and channels, each under its
\* category -- nothing left over from the default guild or a crashed run.
Reconciled ==
  (pc = "done" /\ ~dry /\ ~runFailed) =>
    /\ Cardinality(srvChannels) = Cardinality(CatalogTopology)
    /\ {<<c.name, ParentName(c)>> : c \in srvChannels} = CatalogTopology

\* pin_messages (send, then pin; spec 4.3 step 4): when a real run ends with
\* every call succeeding, each live channel holds exactly the messages
\* PINNED_MESSAGES gives its name (none for a forum or a category), each
\* once and pinned -- no unpinned or stale copy left by an earlier crashed
\* or partly failed run survives.
PinsComplete ==
  (pc = "done" /\ ~dry /\ ~runFailed) =>
    \A c \in srvChannels :
      LET msgs == {m \in srvMsgs : m.ch = c.id}
          want == IF c.name \in Range(PinnedChans) /\ c.kind = CH_TEXT
                  THEN Pinned[c.name] ELSE << >>
      IN /\ Cardinality(msgs) = Len(want)
         /\ {m.body : m \in msgs} = Range(want)
         /\ \A m \in msgs : m.pinned

\* create_roles re-ordering: among the roles of one run that got a
\* position, ROLES order is hierarchy order and every one stays above
\* @everyone (position 0).
RoleHierarchy ==
  \A a, b \in srvRoles :
    /\ a.pos # NoPos => a.pos >= 1
    /\ (a.run = b.run /\ a.pos # NoPos /\ b.pos # NoPos /\ Idx(a.name) < Idx(b.name))
         => a.pos > b.pos

\* spec 3: the placeholder check is "enforced before any network effect":
\* with a placeholder in the catalog the guild is never changed.
ServerUntouchedOnPlaceholder ==
  HasPlaceholder => (srvChannels = DefaultChannels /\ srvRoles = {} /\ srvMsgs = {})

=============================================================================
