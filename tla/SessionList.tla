----------------------------- MODULE SessionList -----------------------------
(***************************************************************************)
(* The saved sessions: the list the user edits (lib/app/app_state.dart),   *)
(* and the markdown file it is written to and loaded from.                 *)
(* The order of loads and saves is the subject of SessionSync.             *)
(***************************************************************************)
EXTENDS SessionsFormat

CONSTANTS
  Sessions,   \* what the user may add: records with a provider and an id
  Names,      \* the names the user may type, trimmed
  Colors,     \* the colors of groups
  Scenarios   \* the behaviours TLC looks at: the files there may be before
              \* the app writes one, and bounds on edits of the list, on
              \* writes of the file and on writes that are cut short

(* normalize_group_id: no header of a file has an empty id.                *)
(* parseSessionInput: what the user adds has an id.                        *)
ASSUME SessionListAssumption ==
  /\ \A s \in Sessions : s.provider \in PROVIDERS /\ IsSessionId(s.id)
  /\ \A n \in Names : n \in Seq(Range(n))
  /\ \A s \in Scenarios : \A f \in s.files :
       /\ f \in Seq(Range(f))
       /\ \A i \in DOMAIN f : f[i].words \in Seq(Range(f[i].words))
       /\ \A i \in DOMAIN f : IsHeader(f[i]) => f[i].id # NoGroup

VARIABLES
  items,    \* AppState.items
  dialog,   \* the open dialog and the index it was opened for
  file,     \* the lines of the sessions file
  written,  \* the list last written, and whether the write was cut short
  left      \* what is left of the bounds of the scenario

vars == <<items, dialog, file, written, left>>

NoDialog == [asks |-> "nothing", index |-> 0]
NotWritten == [state |-> "never", list |-> <<>>]

Init == /\ \E s \in Scenarios :
             file \in s.files /\ left = [edits |-> s.edits, saves |-> s.saves, cuts |-> s.cuts]
        /\ items = ParseMarkdownItems(file)
        /\ dialog = NoDialog /\ written = NotWritten

(***************************************************************************)
(* Positions in the list.                                                  *)
(***************************************************************************)
IsGroup(item) == item.kind = "group"
IsGroupEnd(item) == item.kind = "group_end"
IsSession(item) == item.kind = "session"

(* The end of the group at g, 0 if there is none. *)
GroupEnd(list, g) ==
  IF g \in DOMAIN list /\ IsGroup(list[g])
  THEN SelectInSubSeq(list, g + 1, Len(list), IsGroupEnd) ELSE 0

(* The nearest marker before i tells the group of i, 0 if it is in none. *)
GroupOf(list, i) ==
  LET before == SelectLastInSubSeq(list, 1, i - 1, LAMBDA x : ~IsSession(x))
  IN IF before # 0 /\ IsGroup(list[before]) THEN before ELSE 0

(***************************************************************************)
(* Edits.  Every one of them ends in _applyItems.                          *)
(***************************************************************************)
ApplyItems(list) == /\ left.edits > 0 /\ left' = [left EXCEPT !.edits = @ - 1]
                    /\ items' = list
                    /\ UNCHANGED <<file, written>>

(* The smallest number that makes the slug of the name a new id. *)
Slug(name) ==
  LET words == SelectSeq(name, LAMBDA w : w.word \notin {"#", "*", "-", "&&", "|"})
  IN IF words = <<>> THEN <<Word("group")>> ELSE words
MakeUniqueGroupId(name) ==
  LET used == {items[i].id : i \in {j \in DOMAIN items : IsGroup(items[j])}}
      n == CHOOSE k \in 1 .. Len(items) + 1 :
             /\ <<Slug(name), k>> \notin used
             /\ \A m \in 1 .. k - 1 : <<Slug(name), m>> \in used
  IN <<Slug(name), n>>

AddGroup(name, color) ==
  LET id == MakeUniqueGroupId(GroupName(name))
  IN /\ dialog = NoDialog
     /\ ApplyItems(items \o <<GroupItem(id, GroupName(name), color), GroupEndItem(id)>>)
     /\ UNCHANGED dialog

(* Before the first group. *)
AddSession(s, name) ==
  LET first == SelectInSeq(items, IsGroup)
      at == IF first = 0 THEN Len(items) + 1 ELSE first
  IN /\ dialog = NoDialog
     /\ ApplyItems(InsertAt(items, at, SessionItem(s.provider, s.id, name)))
     /\ UNCHANGED dialog

(* A dialog keeps the index it was opened for; the list may be another     *)
(* one, from the file, when it is answered.                                *)
OpenDialog(asks, i) ==
  /\ dialog = NoDialog
  /\ left.edits > 0
  /\ IF asks = "rename session" THEN IsSession(items[i]) ELSE IsGroup(items[i])
  /\ dialog' = [asks |-> asks, index |-> i]
  /\ UNCHANGED <<items, file, written, left>>

CancelDialog == /\ dialog # NoDialog /\ dialog' = NoDialog
                /\ UNCHANGED <<items, file, written, left>>

RenameItem(name) ==
  LET i == dialog.index
      next == IF IsGroup(items[i]) THEN GroupName(name) ELSE name
  IN /\ dialog.asks = "rename session" /\ i \in DOMAIN items
     /\ items[i].name # next
     /\ ApplyItems([items EXCEPT ![i].name = next])
     /\ dialog' = NoDialog

UpdateGroup(name, color) ==
  LET i == dialog.index
  IN /\ dialog.asks = "edit group" /\ i \in DOMAIN items /\ IsGroup(items[i])
     /\ ApplyItems([items EXCEPT ![i].name = GroupName(name), ![i].color = color])
     /\ dialog' = NoDialog

DeleteGroup(deleteMembers) ==
  LET g == dialog.index
      end == GroupEnd(items, g)
      members == IF deleteMembers THEN <<>> ELSE SubSeq(items, g + 1, end - 1)
  IN /\ dialog.asks = "delete group" /\ end # 0
     /\ ApplyItems(SubSeq(items, 1, g - 1) \o members \o SubSeq(items, end + 1, Len(items)))
     /\ dialog' = NoDialog

DeleteSession(i) == /\ dialog = NoDialog /\ IsSession(items[i])
                    /\ ApplyItems(RemoveAt(items, i))
                    /\ UNCHANGED dialog

(***************************************************************************)
(* Dragging.  A row is dropped in front of the row at "before", or at the  *)
(* end of the list.                                                        *)
(***************************************************************************)
Clamped(n, list) == Min({Max({n, 1}), Len(list) + 1})

MoveSession(i, before) ==
  LET rest == RemoveAt(items, i)
      target == Clamped(IF before > i THEN before - 1 ELSE before, rest)
  IN InsertAt(rest, target, items[i])

(* Mutants. *)
Unsnapped(list, target) == target

(* A place inside a group moves behind its end. *)
SnapGroupInsertIndex(list, target) ==
  LET inside == {g \in DOMAIN list : /\ GroupEnd(list, g) # 0
                                     /\ g < target /\ target <= GroupEnd(list, g)}
  IN IF inside = {} THEN target ELSE GroupEnd(list, Max(inside)) + 1

MoveGroupBlock(g, before) ==
  LET end == GroupEnd(items, g)
      rest == SubSeq(items, 1, g - 1) \o SubSeq(items, end + 1, Len(items))
      dropped == IF before > g THEN before - (end - g) ELSE before
      target == SnapGroupInsertIndex(rest, Clamped(dropped, rest))
  IN IF end = 0 \/ (before > g /\ before <= end + 1) THEN items
     ELSE SubSeq(rest, 1, target - 1) \o SubSeq(items, g, end) \o SubSeq(rest, target, Len(rest))

Reorder(i, before) ==
  LET moved == IF IsGroup(items[i]) THEN MoveGroupBlock(i, before) ELSE MoveSession(i, before)
  IN /\ dialog = NoDialog /\ ~IsGroupEnd(items[i])
     /\ moved # items
     /\ ApplyItems(moved)
     /\ UNCHANGED dialog

(***************************************************************************)
(* The file.                                                               *)
(***************************************************************************)
SaveConfigFile ==
  /\ left.saves > 0 /\ left' = [left EXCEPT !.saves = @ - 1]
  /\ file' = RenderMarkdownItems(DeserializeItems(items))
  /\ written' = [state |-> "whole", list |-> items]
  /\ UNCHANGED <<items, dialog>>

(* The write fails, or the app ends, when only a part is written. *)
SaveIsCut ==
  /\ left.cuts > 0 /\ left' = [left EXCEPT !.cuts = @ - 1]
  /\ file' \in CutFiles(RenderMarkdownItems(DeserializeItems(items)))
  /\ written' = [state |-> "cut", list |-> items]
  /\ UNCHANGED <<items, dialog>>

(* The list is loaded: at the start of the app, or when the user asks. *)
LoadConfigFile ==
  /\ items # ParseMarkdownItems(file)
  /\ items' = ParseMarkdownItems(file)
  /\ UNCHANGED <<dialog, file, written, left>>

Next == \/ \E n \in Names, c \in Colors : AddGroup(n, c)
        \/ \E s \in Sessions, n \in Names : AddSession(s, n)
        \/ \E a \in {"rename session", "edit group", "delete group"}, i \in DOMAIN items :
             OpenDialog(a, i)
        \/ CancelDialog
        \/ \E n \in Names : RenameItem(n)
        \/ \E n \in Names, c \in Colors : UpdateGroup(n, c)
        \/ \E d \in BOOLEAN : DeleteGroup(d)
        \/ \E i \in DOMAIN items : DeleteSession(i)
        \/ \E i \in DOMAIN items, before \in 1 .. Len(items) + 1 : Reorder(i, before)
        \/ SaveConfigFile
        \/ SaveIsCut
        \/ LoadConfigFile

Spec == Init /\ [][Next]_vars

(***************************************************************************)
(* Properties.                                                             *)
(***************************************************************************)
(* A group and its end, with its id and nothing but sessions between them. *)
Encloses(list, g, e) ==
  /\ g < e /\ IsGroup(list[g]) /\ IsGroupEnd(list[e]) /\ list[e].id = list[g].id
  /\ \A i \in g + 1 .. e - 1 : IsSession(list[i])
Flat(list) ==
  /\ \A g \in DOMAIN list : IsGroup(list[g]) => \E e \in DOMAIN list : Encloses(list, g, e)
  /\ \A e \in DOMAIN list : IsGroupEnd(list[e]) => \E g \in DOMAIN list : Encloses(list, g, e)

(* Groups never overlap and none is left open: every group of the list has *)
(* an end of its own id and every end a group, with no marker between      *)
(* them, whatever the file held, wherever a row was dropped and whichever  *)
(* list an old dialog met.                                                 *)
GroupsAreFlat == Flat(items)

(* What an item is after it was stored: a Codex id is in lower case, and a *)
(* session without a name is called by the end of its id.                  *)
Stored(item) ==
  LET id == IF item.provider = "codex" THEN LowerCase(item.command_id) ELSE item.command_id
  IN IF IsSession(item)
     THEN SessionItem(item.provider, id, IF item.name = NoName THEN ShortSessionId(id) ELSE item.name)
     ELSE IF IsGroup(item) THEN [item EXCEPT !.name = GroupName(@)] ELSE GroupEndItem(item.id)

(* An item whose name the format can hold: no "|" in that of a group, and  *)
(* no mark in front and no command after an "&&" in that of a session.     *)
Storable(item) ==
  LET name == Stored(item).name
  IN IF IsSession(item)
     THEN NormalizeLabel(name) = name /\ ParseSessionCommand(<<Word("#")>> \o name) = {}
     ELSE ~Contains(name, Word("|"))

(* Nor is there a command in any part of its name. *)
SafelyCut(item) ==
  \A part \in Parts(RenderItem(Stored(item))[1]) : ParseSessionCommand(part.words) = {}

(* The first n items of a list, the group they end in closed. *)
FirstItems(list, n) ==
  LET g == GroupOf(list, n + 1)
  IN SubSeq(list, 1, n) \o (IF g = 0 THEN <<>> ELSE <<GroupEndItem(list[g].id)>>)

CutId(list, n) == [list EXCEPT ![n].command_id = "cut"]

SessionIds(list) ==
  {<<list[i].provider, list[i].command_id>> : i \in {j \in DOMAIN list : IsSession(list[j])}}

(* The file loads as the list that was saved, and no session of a list is  *)
(* ever lost for the name of it or of its group; a write that was cut      *)
(* short leaves the first items of the list with their groups closed, of   *)
(* which the last may have lost the end of its id.  No session comes under *)
(* the title or into the group of another.                                 *)
FileLoadsAsSaved ==
  LET list == written.list
      stored == [i \in DOMAIN list |-> Stored(list[i])]
      loaded == ParseMarkdownItems(file)
      good == \A i \in DOMAIN list : Storable(list[i])
  IN CASE written.state = "whole" ->
            /\ good => loaded = stored
            /\ SessionIds(stored) \subseteq SessionIds(loaded)
       [] written.state = "cut" /\ good /\ (\A i \in DOMAIN list : SafelyCut(list[i])) ->
            \E n \in 0 .. Len(list) :
              \/ loaded = FirstItems(stored, n)
              \/ n > 0 /\ IsSession(list[n]) /\ loaded = FirstItems(CutId(stored, n), n)
       [] OTHER -> TRUE

(* The sessions of a list with the id of the group each is in. *)
Members(list) ==
  LET at == {i \in DOMAIN list : IsSession(list[i])}
      pair == [i \in at |-> <<list[i], IF GroupOf(list, i) = 0 THEN <<>> ELSE list[GroupOf(list, i)].id>>]
  IN [x \in {pair[i] : i \in at} |-> Cardinality({i \in at : pair[i] = x})]

(* A drag of a group takes its own sessions and no other; a drag of a      *)
(* session changes the group of no other.                                  *)
DragsKeepMembers ==
  [][\A i \in DOMAIN items, before \in 1 .. Len(items) + 1 : Reorder(i, before) =>
       IF IsGroup(items[i]) THEN Members(items') = Members(items)
       ELSE \E j \in DOMAIN items : /\ items'[j] = items[i]
                                    /\ Members(RemoveAt(items', j)) = Members(RemoveAt(items, i))]_vars
=============================================================================
