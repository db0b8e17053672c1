--------------------------- MODULE SessionsFormat ---------------------------
(***************************************************************************)
(* The markdown format of the sessions file, native/hub/src/actors/        *)
(* context.rs: parse_markdown_items, render_markdown_items,                *)
(* deserialize_items, parse_session_command and their normalisations.      *)
(*                                                                         *)
(* A file is a sequence of its lines that are not blank.  A line is a      *)
(* group header, a group end, or words.  A word is a record: "w" is the    *)
(* word w alone, "w=v" has the value v.  What a character does to the      *)
(* parser is done by a word of its own: the marks "#", "*" and "-" before  *)
(* a title, the "&&" between two commands, and "|", which stands for a     *)
(* character a group name cannot hold in a header ("|" or ">").            *)
(***************************************************************************)
EXTENDS Integers, SequencesExt

CONSTANTS
  Lower,       \* to_ascii_lowercase, on the ids that change
  LastDigits,  \* the last characters of an id, as the words they read as in
               \* a title, for the ids longer than that
  Executable   \* normalize_executable, on the words that change

Word(w) == [word |-> w, value |-> ""]
Inline(w, v) == [word |-> w, value |-> v]
NoName == <<>>

PROVIDERS == {"codex", "claude", "kimi", "opencode", "qwen", "muse"}

(* Letters, digits, "-", "_" and "." are the characters of an id; "=" is   *)
(* none of them.                                                           *)
IsSessionId(id) == id \notin {"", "#", "*", "&&", "|", "<!--", "-->"}

(* An id in lower case is an id and stays as it is, nothing is left out of *)
(* a short id, providers are called by their names, and a word that was    *)
(* cut is none of these.                                                   *)
ASSUME FormatAssumption ==
  /\ \A id \in DOMAIN Lower : IsSessionId(Lower[id]) /\ Lower[id] \notin DOMAIN Lower
  /\ \A id \in DOMAIN LastDigits :
       LastDigits[id] \in Seq(Range(LastDigits[id])) /\ LastDigits[id] # NoName
  /\ PROVIDERS \cap DOMAIN Executable = {}
  /\ "cut" \notin DOMAIN Lower \cup DOMAIN Executable

LowerCase(id) == IF id \in DOMAIN Lower THEN Lower[id] ELSE id

(***************************************************************************)
(* The items of the list, ConfigItem.  The id of a session is its          *)
(* command_id; "id" is the id of a group, and of the end of one.           *)
(***************************************************************************)
GroupItem(id, name, color) ==
  [kind |-> "group", id |-> id, name |-> name, command_id |-> "", color |-> color, provider |-> ""]
GroupEndItem(id) ==
  [kind |-> "group_end", id |-> id, name |-> NoName, command_id |-> "", color |-> "", provider |-> ""]
SessionItem(provider, id, name) ==
  [kind |-> "session", id |-> <<>>, name |-> name, command_id |-> id, color |-> "", provider |-> provider]

ShortSessionId(id) == IF id \in DOMAIN LastDigits THEN LastDigits[id] ELSE <<Word(id)>>
GroupName(name) == IF name = NoName THEN <<Word("Group")>> ELSE name

(***************************************************************************)
(* Reading.                                                                *)
(***************************************************************************)
(* normalize_session_id: the id a word gives, or "".                       *)
NormalizeSessionId(w, provider) ==
  IF w.value # "" \/ ~IsSessionId(w.word) THEN ""
  ELSE IF provider = "codex" THEN LowerCase(w.word) ELSE w.word

NormalizeExecutable(w) == IF w.word \in DOMAIN Executable THEN Executable[w.word] ELSE w.word

(* The flags before a session id; Muse also has a subcommand. *)
ResumeFlags ==
  [claude |-> {"--resume", "-r", "--session-id"},
   kimi |-> {"--session", "--resume", "-s", "-r"},
   opencode |-> {"--session", "-s"},
   qwen |-> {"--resume", "-r"},
   muse |-> {"--resume", "--session-id", "--session", "-r", "-s"}]
Subcommands == [p \in DOMAIN ResumeFlags |-> IF p = "muse" THEN {"resume"} ELSE {}]

(* The first flag decides, by its value or by the word after it. *)
FlaggedId(p, words) ==
  LET Resumes(w) == \/ w.word \in ResumeFlags[p]
                    \/ w.value = "" /\ w.word \in Subcommands[p]
      at == SelectInSubSeq(words, 2, Len(words), Resumes)
      flag == words[at]
      inline == IF p = "kimi" THEN LowerCase(flag.value) ELSE flag.value
  IN CASE at = 0 -> ""
       [] at # 0 /\ flag.value # "" -> NormalizeSessionId(Word(inline), p)
       [] at # 0 /\ flag.value = "" ->
            IF at = Len(words) THEN "" ELSE NormalizeSessionId(words[at + 1], p)

(* codex resume <id>, codex fork <id>. *)
CodexId(words) ==
  IF Len(words) >= 3 /\ words[2] \in {Word("resume"), Word("fork")}
  THEN NormalizeSessionId(words[3], "codex") ELSE ""

(* The session a line of words resumes, as a set of at most one record. *)
ParseSessionCommand(line) ==
  LET last == SelectLastInSeq(line, LAMBDA w : w = Word("&&"))
      words == SubSeq(line, last + 1, Len(line))
      exe == NormalizeExecutable(words[1])
      id == IF exe = "codex" THEN CodexId(words)
            ELSE IF exe \in DOMAIN ResumeFlags THEN FlaggedId(exe, words) ELSE ""
  IN IF words = <<>> \/ id = "" THEN {} ELSE {[provider |-> exe, command_id |-> id]}

(* What is left of some words after the marks m at their front. *)
StripMark(m, words) ==
  SubSeq(words, IF \A i \in DOMAIN words : words[i] = Word(m) THEN Len(words) + 1
                ELSE SelectInSeq(words, LAMBDA w : w # Word(m)), Len(words))

NormalizeLabel(line) == StripMark("-", StripMark("*", StripMark("#", line)))

(* Lines.  A header whose name has a "|" does not match the group pattern: *)
(* it reads as words, its last word run together with the next "|".        *)
HeaderLine(id, name, color) == [line |-> "group", id |-> id, words |-> name, color |-> color]
EndLine == [line |-> "end", id |-> <<>>, words |-> <<>>, color |-> ""]
TextLine(words) == [line |-> "text", id |-> <<>>, words |-> words, color |-> ""]

IsHeader(l) == l.line = "group" /\ ~Contains(l.words, Word("|"))
WordsOf(l) ==
  IF l.line = "group"
  THEN <<Word("<!--")>> \o Front(GroupName(l.words)) \o <<Word("|"), Word("-->")>>
  ELSE l.words

(* The state of the loop over the lines. *)
NoGroup == <<>>
ParseStart == [items |-> <<>>, title |-> NoName, open |-> NoGroup]

CloseGroup(st) ==
  IF st.open = NoGroup THEN st
  ELSE [st EXCEPT !.items = Append(@, GroupEndItem(st.open)), !.open = NoGroup]

ParseHeader(st, l) ==
  LET closed == CloseGroup(st)
  IN [items |-> Append(closed.items, GroupItem(l.id, GroupName(l.words), l.color)),
      title |-> NoName, open |-> l.id]

(* Mutants. *)
LeavesOpen(st) == [st EXCEPT !.title = NoName]

ParseEnd(st) == [CloseGroup(st) EXCEPT !.title = NoName]

ParseCommand(st, command) ==
  LET name == IF st.title = NoName THEN ShortSessionId(command.command_id) ELSE st.title
  IN [st EXCEPT !.items = Append(@, SessionItem(command.provider, command.command_id, name)),
                !.title = NoName]

ParseLabel(st, words) ==
  LET label == NormalizeLabel(words)
  IN IF label = NoName THEN st ELSE [st EXCEPT !.title = label]

ParseLine(st, l) ==
  IF IsHeader(l) THEN ParseHeader(st, l)
  ELSE IF l.line = "end" THEN ParseEnd(st)
  ELSE LET commands == ParseSessionCommand(WordsOf(l))
       IN IF commands # {} THEN ParseCommand(st, CHOOSE c \in commands : TRUE)
          ELSE ParseLabel(st, WordsOf(l))

(* Mutants. *)
LeftOpen(lines) == FoldLeft(ParseLine, ParseStart, lines).items

ParseMarkdownItems(lines) == CloseGroup(FoldLeft(ParseLine, ParseStart, lines)).items

(***************************************************************************)
(* Writing.                                                                *)
(***************************************************************************)
NormalizeProvider(p) == IF p \in PROVIDERS THEN p ELSE "codex"

(* One item of the JSON list of a SaveConfig signal. *)
DeserializeItem(item) ==
  LET p == NormalizeProvider(item.provider)
  IN CASE item.kind = "group" -> GroupItem(item.id, GroupName(item.name), item.color)
       [] item.kind = "group_end" -> GroupEndItem(item.id)
       [] OTHER -> SessionItem(p, IF p = "codex" THEN LowerCase(item.command_id) ELSE item.command_id,
                                item.name)

DeserializeItems(items) == [i \in DOMAIN items |-> DeserializeItem(items[i])]

ResumeCommand(p, id) ==
  CASE p = "claude" -> <<Word("claude"), Word("--resume"), Word(id)>>
    [] p = "kimi" -> <<Word("kimi"), Word("--session"), Word(id)>>
    [] p = "opencode" -> <<Word("opencode"), Word("--session"), Word(id)>>
    [] p = "qwen" -> <<Word("qwen"), Word("--resume"), Word(id)>>
    [] p = "muse" -> <<Word("muse"), Word("resume"), Word(id), Word("--yolo")>>
    [] OTHER -> <<Word("codex"), Word("resume"), Word(id)>>

RenderItem(item) ==
  CASE item.kind = "group" -> <<HeaderLine(item.id, GroupName(item.name), item.color)>>
    [] item.kind = "group_end" -> <<EndLine>>
    [] OTHER ->
         LET title == IF item.name = NoName THEN ShortSessionId(item.command_id) ELSE item.name
         IN <<TextLine(<<Word("#")>> \o title),
              TextLine(ResumeCommand(item.provider, item.command_id))>>

RenderMarkdownItems(items) == FoldLeft(LAMBDA out, item : out \o RenderItem(item), <<>>, items)

(***************************************************************************)
(* fs::write truncates the file and writes it from the start: a write that *)
(* is cut short leaves the first lines and a part of the next one.  No     *)
(* part of a header or an end matches its pattern; the last word of a part *)
(* may itself be cut, to a word that is none of the format's.              *)
(***************************************************************************)
CutWord(w) == [w EXCEPT !.word = "cut"]
Parts(l) ==
  LET words == WordsOf(l)
  IN {TextLine(SubSeq(words, 1, n)) : n \in 1 .. Len(words) - 1}
       \cup {TextLine(Append(SubSeq(words, 1, n), CutWord(words[n + 1]))) : n \in 0 .. Len(words) - 1}
CutFiles(lines) ==
  {SubSeq(lines, 1, n) : n \in 0 .. Len(lines)}
    \cup UNION {{Append(SubSeq(lines, 1, n), part) : part \in Parts(lines[n + 1])} : n \in 0 .. Len(lines) - 1}
=============================================================================
