--------------------------- MODULE TelegramFormat ---------------------------
(***************************************************************************)
(* format_for_telegram of marketing/scripts/discord_telegram_bridge.py: a  *)
(* header chosen by channel, Discord "## " headings turned into "*", and a *)
(* cut to Telegram's length limit with a truncation marker appended.       *)
(*                                                                         *)
(* Text is a sequence of symbols; a symbol stands for one character.  The  *)
(* limit (4096), the cut margin (20) and the marker are CONSTANTS so that  *)
(* a model can scale them down while keeping the same arithmetic.  Each    *)
(* step formats one Discord message of a bridged channel.                  *)
(***************************************************************************)
EXTENDS Integers, Sequences, FiniteSets, Functions

CONSTANTS
  Chans,        \* BRIDGE_CHANNELS
  Alphabet,     \* the characters message content is drawn from
  MaxContent,   \* bound: length of a message's content
  TgLimit,      \* Telegram message limit, 4096 in the code
  CutMargin,    \* the 20 of text[:max_len - 20]
  Marker,       \* "\n\n_(truncated)_"
  AnnHeader,    \* "📢 *RillCoin Announcement*\n\n"
  DevHeader     \* "🔧 *Dev Update*\n\n"

VARIABLES content, chan, out

vars == <<content, chan, out>>

Pattern == <<"#", "#", " ">>
Bold == <<"*">>

\* The header: by channel name, else "*#<name>*\n\n".
Header(ch) ==
  CASE ch = "announcements" -> AnnHeader
    [] ch = "dev-updates"   -> DevHeader
    [] OTHER                -> <<"*", "#", "a", "*", "NL", "NL">>

IsPrefixOf(p, s) == Len(p) <= Len(s) /\ SubSeq(s, 1, Len(p)) = p

\* Python str.replace: every non-overlapping occurrence, scanning from the
\* left.
RECURSIVE StrReplace(_, _, _)
StrReplace(s, old, new) ==
  IF Len(s) < Len(old) THEN s
  ELSE IF IsPrefixOf(old, s) THEN new \o StrReplace(SubSeq(s, Len(old) + 1, Len(s)), old, new)
  ELSE <<Head(s)>> \o StrReplace(Tail(s), old, new)

\* Python's s[:k]: a negative k counts from the end.
PyPrefix(s, k) ==
  LET n == IF k >= 0 THEN k ELSE Len(s) + k
  IN SubSeq(s, 1, IF n < 0 THEN 0 ELSE IF n > Len(s) THEN Len(s) ELSE n)

\* Mutant: the cut ignores the margin, so the marker overflows the limit.
TruncateNoMargin(text, maxLen) ==
  IF Len(text) > maxLen THEN PyPrefix(text, maxLen) \o Marker ELSE text

\* if len(text) > max_len: text = text[:max_len - 20] + marker
Truncate(text, maxLen) ==
  IF Len(text) > maxLen
  THEN PyPrefix(text, maxLen - CutMargin) \o Marker
  ELSE text

\* Mutant: the header is appended after the text instead of before it.
FormatHeaderLast(c, ch) ==
  LET text == StrReplace(c, Pattern, Bold)
  IN Truncate(text, TgLimit - Len(Header(ch))) \o Header(ch)

\* return header + text
FormatForTelegram(c, ch) ==
  LET text == StrReplace(c, Pattern, Bold)
  IN Header(ch) \o Truncate(text, TgLimit - Len(Header(ch)))

Inputs == UNION {[1..n -> Alphabet] : n \in 0..MaxContent}

\* Any message content, formatted for one of the bridged channels.
Init ==
  /\ content \in Inputs
  /\ chan \in Range(Chans)
  /\ out = FormatForTelegram(content, chan)

\* check_and_forward formats the message for the channel it was read from.
Format ==
  \E ch \in Range(Chans) :
    /\ chan' = ch
    /\ out' = FormatForTelegram(content, ch)
    /\ UNCHANGED content

Spec == Init /\ [][Format]_vars

(***************************************************************************)
(* Properties                                                              *)
(***************************************************************************)
TypeOK ==
  /\ content \in Inputs
  /\ chan \in Range(Chans)
  /\ out \in Seq(Alphabet \cup Range(Marker) \cup Range(Header(chan)))
  /\ IsPrefixOf(Header(chan), out)

\* "Telegram message limit is 4096 chars": the header, the text and, when
\* the text was cut, the truncation marker together stay within the limit.
WithinLimit == Len(out) <= TgLimit

Count(s, x) == Cardinality({i \in 1..Len(s) : s[i] = x})

\* Telegram's Markdown rejects an entity that is never closed.
Balanced(s) == Count(s, "*") % 2 = 0 /\ Count(s, "_") % 2 = 0

\* "Discord ## headers -> Telegram bold": a message whose own Markdown is
\* well formed is turned into text Telegram's Markdown parser accepts.
EntitiesBalanced == Balanced(content) => Balanced(out)

=============================================================================
