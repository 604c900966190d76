----------------------------- MODULE EnvLoading -----------------------------
(***************************************************************************)
(* Reading marketing/.env: the bridge's load_env, its loop over the file's *)
(* lines (identical to load_env of setup_discord.py) and its check of the  *)
(* four required keys.                                                     *)
(*                                                                         *)
(* A line is a sequence of symbols: " " (whitespace), "#", "=", the two    *)
(* quote characters DQ and SQ, "v" (a run of value characters) and the     *)
(* key names, each one symbol.  The newline that ends a line read from the *)
(* file is whitespace that line.strip() removes, so it is left out.        *)
(***************************************************************************)
EXTENDS Integers, Sequences, FiniteSets

LOCAL INSTANCE SequencesExt

CONSTANTS
  EnvLines,     \* the lines a .env file may contain
  MaxEnvLines   \* bound: lines per file

DQ == "\""
SQ == "'"

\* A key name as the text of a line (one symbol).
Key(name) == <<name>>

\* The keys the bridge's load_env requires, in the order it reports them.
Required == <<Key("DISCORD_BOT_TOKEN"), Key("DISCORD_GUILD_ID"),
              Key("TELEGRAM_BOT_TOKEN"), Key("TELEGRAM_CHAT_ID")>>

EnvFiles == UNION {[1..n -> EnvLines] : n \in 0..MaxEnvLines}

\* str.strip(chars): drop every leading and trailing symbol in C.
StripChars(s, C) ==
  LET keep == {i \in 1..Len(s) : s[i] \notin C}
  IN IF keep = {} THEN << >> ELSE SubSeq(s, Min(keep), Max(keep))

Strip(s) == StripChars(s, {" "})

\* One iteration of "for line in fh": blank lines, comments and lines
\* without "=" are skipped; otherwise line.partition("=") at the first
\* "=", the key stripped, the value stripped of whitespace, then of
\* double quotes, then of single quotes.
ParseLine(raw) ==
  LET line == Strip(raw)
      eq   == IF "=" \in ToSet(line) THEN Min({i \in 1..Len(line) : line[i] = "="}) ELSE 0
  IN IF line = << >> \/ line[1] = "#" \/ eq = 0
     THEN [ok |-> FALSE, key |-> << >>, val |-> << >>]
     ELSE [ok  |-> TRUE,
           key |-> Strip(SubSeq(line, 1, eq - 1)),
           val |-> StripChars(StripChars(Strip(SubSeq(line, eq + 1, Len(line))), {DQ}), {SQ})]

\* env[key] = value: a later line for a key replaces an earlier one.
Put(env, k, v) == [x \in DOMAIN env \cup {k} |-> IF x = k THEN v ELSE env[x]]

\* load_env: the dict the loop over the file's lines builds.
LoadEnv(file) ==
  FoldLeft(LAMBDA env, raw :
             LET p == ParseLine(raw) IN IF p.ok THEN Put(env, p.key, p.val) ELSE env,
           [x \in {} |-> << >>], file)

Value(env, k) == IF k \in DOMAIN env THEN env[k] ELSE << >>

\* The bridge's load_env: missing = [k for k in required if k not in env or
\* not env[k]]; a non-empty list is printed and the process exits.
BridgeMissing(file) ==
  SelectSeq(Required, LAMBDA k : Value(LoadEnv(file), k) = << >>)

=============================================================================
