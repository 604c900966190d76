--------------------------- MODULE TelegramBridge ---------------------------
(***************************************************************************)
(* marketing/scripts/discord_telegram_bridge.py in continuous mode: every  *)
(* poll loads the checkpoint file, finds the bridged channels, and for     *)
(* each fetches up to Limit messages after its checkpoint, forwards the    *)
(* human ones to Telegram oldest first, moves the checkpoint to the newest *)
(* fetched message, and saves the checkpoint file at the end of the poll.  *)
(* Any exception inside a poll is caught by main()'s loop, which sleeps    *)
(* and polls again.  Users post to the Discord channels at any time.       *)
(* Before the loop main() reads marketing/.env with load_env (EnvLoading) *)
(* and exits when a required key is missing.                              *)
(***************************************************************************)
EXTENDS Integers, Sequences, FiniteSets, Functions, EnvLoading

SX == INSTANCE SequencesExt

CONSTANTS
  Chans,            \* BRIDGE_CHANNELS, in the order find_channel_ids yields
  Listings,         \* the orders GET /guilds/{id}/channels may list the guild's
                    \* channels that carry a bridged name (Seqs of channels)
  NameOf,           \* channel -> its name
  Limit,            \* the ?limit= of the message fetch (10 in the code)
  FirstId,          \* first message snowflake
  NoId,             \* model value: no checkpoint (state.get(ch) is None)
  TelegramMayFail,  \* whether sendMessage may answer non-200
  KillMayTruncate,  \* whether the process may be killed inside save_state
  Corrupt,          \* model value: a truncated, unparsable checkpoint file
  MaxMsgs,          \* bound: messages posted to Discord in a behaviour
  MaxFail           \* bound: failed calls and exceptions in a behaviour

ASSUME Limit \in Nat \ {0} /\ MaxMsgs \in Nat /\ MaxFail \in Nat

\* The guild's channels that carry a bridged name.
Phys == UNION {Range(l) : l \in Listings}

\* Every listing names each bridged channel; a listing without one is the
\* failed listing (find_channel_ids returns {} and the poll returns 0).
ASSUME \A l \in Listings : {NameOf[p] : p \in Range(l)} = Range(Chans)

VARIABLES
  feed,     \* channel (of Phys) -> chronological Seq of [id, human, tracked]
  nextId,
  disk,     \* .bridge_state.json: channel -> last id or NoId, or Corrupt
  tg,       \* messages delivered to the Telegram chat: Seq of <<ch, id>>
  ids,      \* channel_ids of the current poll: bridged name -> channel
  envFile,  \* marketing/.env as the process finds it at startup
  pc,       \* "start", "exit", "sleep", "fetch", "fwd", "save"
  mem,      \* the in-memory state dict of the current poll
  ck,       \* index into Chans of the channel being handled
  batch,    \* the fetched messages, oldest first
  bi,       \* index into batch
  fails,
  orphaned, \* history: <<ch, id>> of tracked messages still undelivered
            \* when a kill truncated the checkpoint file
  cuts      \* history: Len(tg) at each poll cut short before its save

vars == <<feed, nextId, disk, tg, ids, envFile, pc, mem, ck, batch, bi, fails, orphaned, cuts>>

Msg == [id : Nat, human : BOOLEAN, tracked : BOOLEAN]

Posted == UNION {Range(feed[c]) : c \in Phys}

\* Mutant: the ?limit= parameter is dropped, every newer message is returned.
ReplyNoLimit(f, last) ==
  SX!Reverse(IF last = NoId THEN f ELSE SelectSeq(f, LAMBDA m : m.id > last))

\* Mutant: with after, the newest Limit messages newer than last.
ReplyNewest(f, last) ==
  LET after == IF last = NoId THEN f ELSE SelectSeq(f, LAMBDA m : m.id > last)
  IN SX!Reverse(SubSeq(after, IF Len(after) > Limit THEN Len(after) - Limit + 1 ELSE 1,
                       Len(after)))

\* The messages GET /channels/{id}/messages?limit=Limit[&after=last] returns:
\* without after, the newest Limit; with after, the oldest Limit newer than
\* last.  Discord lists them newest first.
Reply(f, last) ==
  LET window ==
        IF last = NoId
        THEN SubSeq(f, IF Len(f) > Limit THEN Len(f) - Limit + 1 ELSE 1, Len(f))
        ELSE LET after == SelectSeq(f, LAMBDA m : m.id > last)
             IN SubSeq(after, 1, IF Len(after) > Limit THEN Limit ELSE Len(after))
  IN SX!Reverse(window)

\* Mutant: the messages.reverse() call is missing.
ChronologicalNoReverse(r) == r

\* messages.reverse(): oldest first.
Chronological(r) == SX!Reverse(r)

\* load_state: a missing or unparsable file is an empty dict.
LoadState(d) == IF d = Corrupt THEN [c \in Range(Chans) |-> NoId] ELSE d

\* find_channel_ids: result[name] = ch["id"] for every listed channel whose
\* name is bridged, so the last listed channel of a name wins.
FindChannelIds(l) ==
  [n \in Range(Chans) |->
     l[CHOOSE i \in DOMAIN l :
         NameOf[l[i]] = n /\ \A j \in DOMAIN l : NameOf[l[j]] = n => j <= i]]

\* <<c, id>> has reached the Telegram chat.
Delivered(c, id) == \E i \in 1..Len(tg) : tg[i] = <<c, id>>

Fail == fails < MaxFail /\ fails' = fails + 1

Init ==
  /\ feed = [c \in Phys |-> << >>]
  /\ nextId = FirstId
  /\ disk = [c \in Range(Chans) |-> NoId]
  /\ tg = << >>
  /\ ids = FindChannelIds(CHOOSE l \in Listings : TRUE)
  /\ envFile \in EnvFiles
  /\ pc = "start" /\ mem = disk /\ ck = 1 /\ batch = << >> /\ bi = 1 /\ fails = 0
  /\ orphaned = {} /\ cuts = {}

\* A user posts to a channel; "tracked" records whether its name already
\* had a checkpoint on disk when it was posted.
\* Posts made before the bridge has read its .env are untracked, like posts
\* made right after startup, before the first poll; they are taken there.
Post(c, human) ==
  /\ pc # "start"
  /\ nextId < FirstId + MaxMsgs
  /\ feed' = [feed EXCEPT ![c] = Append(@, [id |-> nextId, human |-> human,
                                            tracked |-> LoadState(disk)[NameOf[c]] # NoId])]
  /\ nextId' = nextId + 1
  /\ UNCHANGED <<disk, tg, ids, envFile, pc, mem, ck, batch, bi, fails, orphaned, cuts>>

\* main(): env = load_env(); with a required key absent or empty it prints
\* them and exits, otherwise the continuous loop starts.  The values only
\* serve as tokens from here on, so the file is not kept.
Startup ==
  /\ pc = "start"
  /\ pc' = IF BridgeMissing(envFile) = << >> THEN "sleep" ELSE "exit"
  /\ envFile' = << >>
  /\ UNCHANGED <<feed, orphaned, nextId, disk, tg, ids, mem, ck, batch, bi, fails, cuts>>

(***************************************************************************)
(* check_and_forward: load_state, then find_channel_ids; when the channel  *)
(* listing fails the poll returns 0 without saving.                        *)
(***************************************************************************)
BeginPoll ==
  /\ pc = "sleep"
  /\ \/ /\ mem' = LoadState(disk) /\ pc' = "fetch" /\ ck' = 1 /\ UNCHANGED fails
        /\ \E l \in Listings : ids' = FindChannelIds(l)
     \/ Fail /\ UNCHANGED <<mem, pc, ck, ids>>
  /\ UNCHANGED <<feed, orphaned, nextId, disk, tg, envFile, batch, bi, cuts>>

\* Fetch one channel's messages; a failed or empty reply skips it.
FetchMessages ==
  /\ pc = "fetch" /\ ck <= Len(Chans)
  /\ LET r == Reply(feed[ids[Chans[ck]]], mem[Chans[ck]]) IN
       \/ /\ r # << >> /\ UNCHANGED fails
          /\ batch' = Chronological(r) /\ bi' = 1 /\ pc' = "fwd" /\ UNCHANGED ck
       \/ /\ r = << >> /\ UNCHANGED fails
          /\ ck' = ck + 1 /\ UNCHANGED <<batch, bi, pc>>
       \/ Fail /\ ck' = ck + 1 /\ UNCHANGED <<batch, bi, pc>>
  /\ UNCHANGED <<ids, envFile, feed, orphaned, nextId, disk, tg, mem, cuts>>

\* Empty and bot messages are skipped (no echo loops).
SkipMessage ==
  /\ pc = "fwd" /\ bi <= Len(batch)
  /\ ~batch[bi].human
  /\ bi' = bi + 1
  /\ UNCHANGED <<ids, envFile, feed, orphaned, nextId, disk, tg, pc, mem, ck, batch, fails, cuts>>

\* telegram_send; on success the in-memory checkpoint moves to the message.
ForwardMessage ==
  /\ pc = "fwd" /\ bi <= Len(batch)
  /\ batch[bi].human
  /\ bi' = bi + 1
  /\ LET c == Chans[ck] IN
       \/ /\ tg' = Append(tg, <<ids[c], batch[bi].id>>)
          /\ mem' = [mem EXCEPT ![c] = batch[bi].id]
          /\ UNCHANGED fails
       \/ TelegramMayFail /\ Fail /\ UNCHANGED <<tg, mem>>
  /\ UNCHANGED <<ids, envFile, feed, orphaned, nextId, disk, pc, ck, batch, cuts>>

\* "Even if no new messages, update state to latest".
EndBatch ==
  /\ pc = "fwd" /\ bi > Len(batch)
  /\ mem' = [mem EXCEPT ![Chans[ck]] = batch[Len(batch)].id]
  /\ ck' = ck + 1 /\ pc' = "fetch"
  /\ UNCHANGED <<ids, envFile, feed, orphaned, nextId, disk, tg, batch, bi, fails, cuts>>

FetchDone ==
  /\ pc = "fetch" /\ ck > Len(Chans)
  /\ pc' = "save"
  /\ UNCHANGED <<ids, envFile, feed, orphaned, nextId, disk, tg, mem, ck, batch, bi, fails, cuts>>

\* Mutant: save_state is never reached (the dry_run test inverted).
SaveStateSkipped ==
  /\ pc = "save"
  /\ pc' = "sleep"
  /\ UNCHANGED <<ids, envFile, feed, orphaned, nextId, disk, tg, mem, ck, batch, bi, cuts>>
  /\ UNCHANGED fails

SaveState ==
  /\ pc = "save"
  /\ disk' = mem /\ pc' = "sleep"
  /\ UNCHANGED <<ids, envFile, feed, orphaned, nextId, tg, mem, ck, batch, bi, cuts>>
  /\ UNCHANGED fails

\* A requests exception inside the poll, raised by a channel's fetch or by
\* the send of a human message: main() prints it and sleeps; the poll's
\* in-memory progress is lost.
PollException ==
  /\ \/ pc = "fetch" /\ ck <= Len(Chans)
     \/ pc = "fwd" /\ bi <= Len(batch) /\ batch[bi].human
  /\ Fail
  /\ pc' = "sleep"
  /\ cuts' = cuts \cup {Len(tg)}
  /\ UNCHANGED <<ids, envFile, feed, orphaned, nextId, disk, tg, mem, ck, batch, bi>>

\* save_state opens the file with "w" (truncating it) before json.dump
\* writes it; the process is killed in between and restarted.
KillDuringSave ==
  /\ pc = "save" /\ KillMayTruncate
  /\ Fail
  /\ disk' = Corrupt /\ pc' = "sleep"
  /\ orphaned' = orphaned \cup
       UNION {{<<c, m.id>> : m \in {x \in Range(feed[c]) :
                                   x.human /\ x.tracked /\ ~Delivered(c, x.id)}} :
              c \in Phys}
  /\ cuts' = cuts \cup {Len(tg)}
  /\ UNCHANGED <<ids, envFile, feed, nextId, tg, mem, ck, batch, bi>>

Poll == Startup \/ BeginPoll \/ FetchMessages \/ SkipMessage \/ ForwardMessage \/ EndBatch
          \/ FetchDone \/ SaveState

Next ==
  \/ \E c \in Phys, h \in BOOLEAN : Post(c, h)
  \/ Poll
  \/ PollException
  \/ KillDuringSave

\* main() runs load_env at once, and the while True loop always polls again
\* after its sleep.
Spec == Init /\ [][Next]_vars /\ WF_vars(Poll)

(***************************************************************************)
(* Properties                                                              *)
(***************************************************************************)
TypeOK ==
  /\ feed \in [Phys -> Seq(Msg)]
  /\ ids \in [Range(Chans) -> Phys]
  /\ disk \in [Range(Chans) -> Nat \cup {NoId}] \cup {Corrupt}
  /\ mem \in [Range(Chans) -> Nat \cup {NoId}]
  /\ tg \in Seq(Phys \X Nat)
  /\ envFile \in EnvFiles
  /\ pc \in {"start", "exit", "sleep", "fetch", "fwd", "save"}
  /\ batch \in Seq(Msg) /\ Len(batch) <= Limit
  /\ fails \in 0..MaxFail
  /\ orphaned \subseteq Phys \X Nat
  /\ cuts \subseteq Nat

TrackedHuman(c, id) == \E m \in Range(feed[c]) : m.id = id /\ m.human /\ m.tracked

\* messages.reverse() + "after=": in the Telegram chat a channel's messages
\* first appear oldest first -- a message only ever shows up out of order
\* as a repeat of one delivered before.
FirstForwardOrder ==
  \A i, j \in 1..Len(tg) :
    (i < j /\ tg[i][1] = tg[j][1] /\ tg[j][2] < tg[i][2])
      => \E k \in 1..(i - 1) : tg[k] = tg[j]

\* The poll loop with after=<checkpoint> paging: when Telegram accepts
\* every send, every human message posted to a channel that already has a
\* checkpoint is eventually delivered, despite Discord errors, exceptions
\* that discard a poll, and more than Limit messages arriving at once --
\* unless a kill truncated the checkpoint file while it was pending (the
\* loss that CheckpointNeverLost shows).
EventuallyForwarded ==
  \A c \in Phys : \A id \in FirstId..(FirstId + MaxMsgs - 1) :
    [](TrackedHuman(c, id) => <>(Delivered(c, id) \/ <<c, id>> \in orphaned))

\* spec 6: the checkpoint maps a logical channel name to "the last
\* successfully forwarded message's identifier": no human message of a
\* channel of that name at or below the name's saved checkpoint (posted
\* after the name had one) is left undelivered.
CheckpointSound ==
  \A c \in Phys : \A m \in Range(feed[c]) :
    LET ckpt == LoadState(disk)[NameOf[c]] IN
      (m.human /\ m.tracked /\ ckpt # NoId /\ m.id <= ckpt) => Delivered(c, m.id)

\* spec 6: the checkpoint file maps a channel to the last forwarded id and
\* is read at the start of every poll: once a channel has a checkpoint, no
\* step loses it or moves it back, so old messages are never fetched again.
CheckpointNeverLost ==
  [][\A c \in Range(Chans) :
       LoadState(disk)[c] # NoId =>
         /\ LoadState(disk')[c] # NoId
         /\ LoadState(disk')[c] >= LoadState(disk)[c]]_disk

\* check_and_forward writes the checkpoint file once, after every channel:
\* a message reaches Telegram a second time only when a poll was cut short
\* (an exception, or a kill inside save_state) after its first delivery
\* and before the repeat -- a completed poll never causes a resend.
ForwardedTwiceOnlyAfterInterruption ==
  \A i, j \in 1..Len(tg) :
    (i < j /\ tg[i] = tg[j]) => \E n \in cuts : i <= n /\ n < j
=============================================================================
