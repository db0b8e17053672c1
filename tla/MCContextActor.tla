--------------------------- MODULE MCContextActor ---------------------------
(***************************************************************************)
(* Model-checking instances of ContextActor.  All signals at once are too  *)
(* many for TLC, so a behaviour of MCSpec keeps to a menu: the signal      *)
(* types the UI uses in it, how many it sends, and the lists and resets    *)
(* the files may hold.  Every step of MCSpec is a step of ContextActor.    *)
(***************************************************************************)
EXTENDS ContextActor, TLC

CONSTANTS p1, p2, h1, c1

MCPaths == {EmptyPath, p1, p2}
(* Both files, and the fallback for no file, are in one home: a reset made *)
(* under one file is read back under the other.                            *)
MCHomeOf == [p \in MCPaths |-> h1]
MCContents == {NoItems, c1}
MCNoContents == {NoItems}

(* No definition tells the two files apart. *)
FileSymmetry == Permutations({p1, p2})

ResetMenu == [types |-> {"LoadCodexAccounts"} \cup ResetOps,
              max |-> 4, lists |-> {NoItems}, resets |-> ResetOrNone]
SwitchMenu == [types |-> {"LoadCodexAccounts", "SwitchCodexAccount"} \cup ResetOps,
               max |-> 3, lists |-> {NoItems}, resets |-> ResetOrNone]
FileMenu == [types |-> {"InitApp", "LoadConfig", "SaveConfig"},
             max |-> 3, lists |-> {NoItems, c1, Torn}, resets |-> {NoReset}]
JoinMenu == [types |-> {"InitApp", "LoadConfig", "RefreshRecent",
                        "LoadCodexAccounts", "SaveCodexAccount"},
             max |-> 3, lists |-> {NoItems}, resets |-> {NoReset}]
KindsMenu == [types |-> {"LoadConfig", "LoadMuseAccounts", "LoadZcodeAccounts",
                         "RenameCodexAccount", "DeleteCodexAccount"},
              max |-> 3, lists |-> {NoItems}, resets |-> {NoReset}]

SentTypes == {sent[i].type : i \in DOMAIN sent}

(* Another signal of type t still makes a behaviour of menu m. *)
OnMenu(m, t) == /\ Len(sent) < m.max /\ t \in m.types
                /\ SentTypes \subseteq m.types
                /\ \A p \in Paths : md[p] \in m.lists
                /\ \A h \in Homes : diskReset[h] \in m.resets
                /\ elapsed \subseteq m.resets
Offered(t) == \E m \in {ResetMenu, SwitchMenu, FileMenu, JoinMenu, KindsMenu} : OnMenu(m, t)

MCNext == \/ \E t \in {u \in SignalTypes : Offered(u)} : UiSends(t)
          \/ TimePasses
          \/ \E k \in Kinds : RunRefresh(k)
          \/ ActorStep

MCSpec == Init /\ [][MCNext]_vars
=============================================================================
