----------------------------- MODULE Whiteboard -----------------------------
(***************************************************************************)
(* The whiteboard's writers.  Agents and the app's windows run the writer  *)
(* program (native/whiteboard_writer/src/main.rs), which edits             *)
(* whiteboard.md under the claim .whiteboard-write.lock and then deletes   *)
(* the temporary folders of the inputs that left it.  The app's windows    *)
(* (WhiteboardInputs, lib/app/whiteboard_input.dart) write into those      *)
(* folders meanwhile, each holding .input-write.lock in the folder it      *)
(* edits, and WhiteboardDrop (lib/app/whiteboard_drop.dart) makes folders  *)
(* that are never edited.                                                  *)
(*                                                                         *)
(* The two locks are independent: a writer never waits for a lease and a   *)
(* lease never waits for a writer other than its own.  What keeps one from *)
(* deleting under the other is the order of the steps: the writer marks a  *)
(* folder retired before it lists it, a window looks at the mark again     *)
(* after it has put its lease down.                                        *)
(*                                                                         *)
(* A post's text is the id of the request that wrote it.  Sizes, titles    *)
(* and links are left out, and so is --init, which returns at once when    *)
(* the file exists.  whiteboard.md is replaced by a rename; the files of a *)
(* folder are written in place, so a write that fails half way, or that an *)
(* exit interrupts, leaves part of a file: Torn among the files of a       *)
(* folder says that its .input.json is one nobody can parse.               *)
(***************************************************************************)
EXTENDS Naturals, Sequences, FiniteSets

CONSTANTS Procs,       \* processes of the writer program
          Windows,     \* windows of the app
          Folders,     \* names createTemp may give
          Copies,      \* names _copy may give to stored files
          Readme, Manifest,  \* README.md and .input.json
          Torn,        \* .input.json is there and no JSON
          NoOne,       \* no folder, no window, no copy
          MaxEntries,  \* MAX_ENTRIES, 6 in the code
          MaxOwned,    \* the most stored files of an input, 128 in the code
          MaxLegacy,   \* bound: posts found on the board
          MaxTasks,    \* bound: publications of agents and tasks of windows
          Budgets      \* bounds a behaviour may have: such tasks, writers killed,
                       \* windows that exit in the middle of a task, file operations
                       \* that fail, times a stored file is opened elsewhere

ASSUME WhiteboardAssumption ==
    /\ {MaxOwned, MaxLegacy, MaxTasks} \subseteq Nat
    /\ Budgets \subseteq [tasks : 0..MaxTasks, kills : Nat, exits : Nat, fails : Nat, holds : Nat]
    /\ MaxEntries \in Nat \ {0}
    /\ NoOne \notin Folders \cup Windows \cup Copies
    /\ Readme # Manifest /\ Torn \notin {Readme, Manifest}
    /\ {Readme, Manifest, Torn} \cap Copies = {}

VARIABLES
    board,   \* the posts of whiteboard.md, oldest first
    lock,    \* .whiteboard-write.lock exists
    drops,   \* the folders under whiteboard-drops
    proc,    \* the writer processes
    win,     \* the windows: the input shown and the task under way
    held,    \* stored files another program has open
    names,   \* folder and copy names already given
    left,    \* how much of each bound is left
    asked,   \* history: the requests made to writers
    done     \* history: the requests that changed the board

vars == <<board, lock, drops, proc, win, held, names, left, asked, done>>

Ids == 1..MaxLegacy + MaxTasks
Requests == [id : Ids, op : {"publish", "drop", "replace", "remove"}, folder : Folders \cup {NoOne}]
Pruning == [id |-> 0, op |-> "prune", folder |-> NoOne]
Files == {Readme, Manifest, Torn} \cup Copies

FoldersOf(s) == {s[i].folder : i \in DOMAIN s} \ {NoOne}
Legacy(n) == [i \in 1..n |-> [id |-> i, folder |-> NoOne, text |-> i]]

Idle == [at |-> "idle", req |-> Pruning, by |-> NoOne,
         out |-> <<>>, todo |-> {}, scanned |-> FALSE, cur |-> NoOne, rest |-> {}]
Unused == [dir |-> FALSE, marker |-> "none", lease |-> FALSE, files |-> {}, owned |-> {}]
Blank == [at |-> "idle", op |-> "none", folder |-> NoOne, owned |-> {}, new |-> NoOne]

Init ==
    /\ \E n \in 0..MaxLegacy : board = Legacy(n)
    /\ lock = FALSE
    /\ drops = [f \in Folders |-> Unused]
    /\ proc = [p \in Procs |-> Idle]
    /\ win = [w \in Windows |-> Blank]
    /\ held = {}
    /\ names = {}
    /\ left \in Budgets
    /\ asked = {} /\ done = {}

Use(b) == left[b] > 0 /\ left' = [left EXCEPT ![b] = @ - 1]

-----------------------------------------------------------------------------
(* The writer program. *)

\* A process starts with a request.  Before anything else it looks for the
\* marker of the folder it is given (not of one it is told to remove).
Start(p, q, w) ==
    /\ proc[p].at = "idle"
    /\ proc' = [proc EXCEPT ![p] =
                   [Idle EXCEPT !.req = q, !.by = w,
                                !.at = IF q.op \in {"drop", "replace"} /\ drops[q.folder].marker = "none"
                                       THEN "refused" ELSE "begin"]]
    /\ UNCHANGED <<board, lock, drops, held, names, done>>

NextId == MaxLegacy + Cardinality(asked) + 1

AgentPublishes(p) ==
    LET q == [id |-> NextId, op |-> "publish", folder |-> NoOne]
    IN /\ Start(p, q, NoOne)
       /\ Use("tasks") /\ asked' = asked \cup {q}
       /\ UNCHANGED win

AgentPrunes(p) ==
    /\ Start(p, Pruning, NoOne)
    /\ UNCHANGED <<win, left, asked>>

\* A task of window w succeeds or throws.  One that holds the lease has it to
\* give back (the finally of _lease); one that does not just ends.  A create
\* that throws returns no draft, a remove that succeeds leaves none, and a
\* draft takes in its new copy only when the writer has succeeded.
Leased == {"create", "save", "add"}
Leave(w, ok) == LET d == win[w] IN
    win' = [win EXCEPT ![w] =
               CASE d.op \in Leased ->
                      [d EXCEPT !.at = "unlease", !.new = NoOne,
                                !.op = IF d.op = "create" /\ ~ok THEN "failed" ELSE d.op,
                                !.owned = IF ok THEN d.owned \cup ({d.new} \ {NoOne}) ELSE d.owned]
                 [] d.op = "remove" /\ ~ok -> [d EXCEPT !.at = "idle", !.op = "none"]
                 [] OTHER -> Blank]

\* Process p ends; a window still waiting for it gets its exit code.
End(p, ok) ==
    /\ proc' = [proc EXCEPT ![p] = Idle]
    /\ IF proc[p].by = NoOne THEN UNCHANGED win ELSE Leave(proc[p].by, ok)

\* Mutant: the claim of another writer is taken over.
Steals(p) ==
    /\ proc[p].at = "begin"
    /\ lock' = TRUE
    /\ proc' = [proc EXCEPT ![p].at = "locked"]
    /\ UNCHANGED <<board, drops, win, held, names, left, asked, done>>

\* create_dir succeeded.
Acquire(p) ==
    /\ proc[p].at = "begin" /\ ~lock
    /\ lock' = TRUE
    /\ proc' = [proc EXCEPT ![p].at = "locked"]
    /\ UNCHANGED <<board, drops, win, held, names, left, asked, done>>

\* The claim of another writer, dead or alive, stayed there for five seconds.
GiveUp(p) ==
    /\ proc[p].at = "refused" \/ (proc[p].at = "begin" /\ lock)
    /\ End(p, FALSE)
    /\ UNCHANGED <<board, lock, drops, held, names, left, asked, done>>

InputAt(s, f) == {i \in DOMAIN s : s[i].folder = f}

\* Requests write_board_with refuses once it has read the board.
Refused(q) ==
    \/ /\ q.op = "remove"
       /\ drops[q.folder].marker = "none" \/ InputAt(board, q.folder) = {}
    \/ /\ q.op = "replace"
       /\ drops[q.folder].marker # "live" \/ Cardinality(InputAt(board, q.folder)) # 1

First(s, f) == CHOOSE i \in InputAt(s, f) : \A j \in InputAt(s, f) : i <= j
Without(s, i) == SubSeq(s, 1, i - 1) \o SubSeq(s, i + 1, Len(s))
Newest(s) == IF Len(s) > MaxEntries THEN SubSeq(s, Len(s) - MaxEntries + 1, Len(s)) ELSE s

Edited(s, q) ==
    CASE q.op \in {"publish", "drop"} -> Append(s, [id |-> q.id, folder |-> q.folder, text |-> q.id])
      [] q.op = "replace" -> [s EXCEPT ![First(s, q.folder)].text = q.id]
      [] q.op = "remove" -> Without(s, First(s, q.folder))
      [] OTHER -> s

\* The claim goes on every way out (Drop for BoardLock).
ReadBoard(p) ==
    LET q == proc[p].req
        out == Newest(Edited(board, q))
    IN /\ proc[p].at = "locked"
       /\ IF Refused(q)
          THEN lock' = FALSE /\ End(p, FALSE)
          ELSE /\ proc' = [proc EXCEPT ![p] = [@ EXCEPT !.at = "edited", !.out = out,
                                                        !.todo = FoldersOf(board) \ FoldersOf(out)]]
               /\ UNCHANGED <<lock, win>>
       /\ UNCHANGED <<board, drops, held, names, left, asked, done>>

\* The output is too large, or the temporary file cannot be written.
WriteFails(p) ==
    /\ proc[p].at = "edited" /\ Use("fails")
    /\ lock' = FALSE
    /\ End(p, FALSE)
    /\ UNCHANGED <<board, drops, held, names, asked, done>>

\* The rename that publishes.
Rename(p) ==
    /\ proc[p].at = "edited"
    /\ board' = proc[p].out
    /\ done' = done \cup ({proc[p].req} \ {Pruning})
    /\ proc' = [proc EXCEPT ![p].at = "cleaning"]
    /\ UNCHANGED <<lock, drops, win, held, names, left, asked>>

\* cleanup_drops, first loop: the folder of a post that left is marked.
Retire(p, f) ==
    /\ proc[p].at = "cleaning" /\ ~proc[p].scanned /\ f \in proc[p].todo
    /\ IF drops[f].marker = "none"
       THEN /\ proc' = [proc EXCEPT ![p].todo = @ \ {f}]
            /\ UNCHANGED drops
       ELSE /\ proc' = [proc EXCEPT ![p].at = "listing", ![p].cur = f, ![p].todo = @ \ {f}]
            /\ drops' = [drops EXCEPT ![f].marker = "retired"]
    /\ UNCHANGED <<board, lock, win, held, names, left, asked, done>>

\* The mark cannot be written, or only part of it, which nobody takes for a
\* marker: the folder is given up for good.
RetireFails(p, f) ==
    /\ proc[p].at = "cleaning" /\ ~proc[p].scanned /\ f \in proc[p].todo
    /\ Use("fails")
    /\ proc' = [proc EXCEPT ![p].todo = @ \ {f}]
    /\ \E m \in {drops[f].marker, "none"} : drops' = [drops EXCEPT ![f].marker = m]
    /\ UNCHANGED <<board, lock, win, held, names, asked, done>>

\* Second loop: every folder that is there, for what an earlier writer could
\* not delete.
Scan(p) ==
    /\ proc[p].at = "cleaning" /\ ~proc[p].scanned /\ proc[p].todo = {}
    /\ proc' = [proc EXCEPT ![p] = [@ EXCEPT !.scanned = TRUE,
                                             !.todo = {f \in Folders : drops[f].dir} \ FoldersOf(proc[p].out)]]
    /\ UNCHANGED <<board, lock, drops, win, held, names, left, asked, done>>

\* Mutant: folders not on the board are taken for abandoned.
SweepsStaged(p, f) ==
    /\ proc[p].at = "cleaning" /\ proc[p].scanned /\ f \in proc[p].todo
    /\ proc' = IF drops[f].marker # "none"
               THEN [proc EXCEPT ![p].at = "listing", ![p].cur = f, ![p].todo = @ \ {f}]
               ELSE [proc EXCEPT ![p].todo = @ \ {f}]
    /\ UNCHANGED <<board, lock, drops, win, held, names, left, asked, done>>

Sweep(p, f) ==
    /\ proc[p].at = "cleaning" /\ proc[p].scanned /\ f \in proc[p].todo
    /\ proc' = IF drops[f].marker = "retired"
               THEN [proc EXCEPT ![p].at = "listing", ![p].cur = f, ![p].todo = @ \ {f}]
               ELSE [proc EXCEPT ![p].todo = @ \ {f}]
    /\ UNCHANGED <<board, lock, drops, win, held, names, left, asked, done>>

\* The files remove_owned_drop may delete.
Allowed(f) == {Readme, Manifest} \cup (IF Manifest \in drops[f].files THEN drops[f].owned ELSE {})

\* A folder whose contents remove_owned_drop accepts: no lease, no stranger, no
\* torn manifest.
Removable(f) ==
    /\ ~drops[f].lease
    /\ drops[f].files \subseteq Allowed(f)
    /\ Manifest \in drops[f].files => Cardinality(drops[f].owned) <= MaxOwned

Listed(p) ==
    /\ proc[p].at = "listing"
    /\ proc' = [proc EXCEPT ![p] = IF Removable(@.cur)
                                   THEN [@ EXCEPT !.at = "deleting", !.rest = drops[proc[p].cur].files]
                                   ELSE [@ EXCEPT !.at = "cleaning", !.cur = NoOne]]
    /\ UNCHANGED <<board, lock, drops, win, held, names, left, asked, done>>

Delete(p, x) ==
    /\ proc[p].at = "deleting" /\ x \in proc[p].rest
    /\ IF x \in held
       THEN /\ proc' = [proc EXCEPT ![p] = [@ EXCEPT !.at = "cleaning", !.cur = NoOne, !.rest = {}]]
            /\ UNCHANGED drops
       ELSE /\ proc' = [proc EXCEPT ![p].rest = @ \ {x}]
            /\ drops' = [drops EXCEPT ![proc[p].cur].files = @ \ {x}]
    /\ UNCHANGED <<board, lock, win, held, names, left, asked, done>>

\* The marker goes last, then the folder if nothing has appeared in it.
Unmark(p) ==
    /\ proc[p].at = "deleting" /\ proc[p].rest = {}
    /\ drops' = [drops EXCEPT ![proc[p].cur].marker = "none"]
    /\ proc' = [proc EXCEPT ![p].at = "empty"]
    /\ UNCHANGED <<board, lock, win, held, names, left, asked, done>>

RemoveDir(p) ==
    /\ proc[p].at = "empty"
    /\ drops' = [drops EXCEPT ![proc[p].cur].dir = @ /\ (drops[proc[p].cur].lease \/ drops[proc[p].cur].files # {})]
    /\ proc' = [proc EXCEPT ![p] = [@ EXCEPT !.at = "cleaning", !.cur = NoOne]]
    /\ UNCHANGED <<board, lock, win, held, names, left, asked, done>>

Release(p) ==
    /\ proc[p].at = "cleaning" /\ proc[p].scanned /\ proc[p].todo = {}
    /\ lock' = FALSE
    /\ End(p, TRUE)
    /\ UNCHANGED <<board, drops, held, names, left, asked, done>>

Kill(p) ==
    /\ proc[p].at # "idle" /\ Use("kills")
    /\ End(p, FALSE)
    /\ UNCHANGED <<board, lock, drops, held, names, asked, done>>

\* The user removes the claim of a killed writer, no writer running.
ClearLock ==
    /\ lock /\ \A p \in Procs : proc[p].at = "idle"
    /\ lock' = FALSE
    /\ UNCHANGED <<board, drops, proc, win, held, names, left, asked, done>>

-----------------------------------------------------------------------------
(* The app's windows.  A window runs one task at a time (_serially). *)

Go(w, at) == win' = [win EXCEPT ![w].at = at]
Live(w) == drops[win[w].folder].marker = "live"   \* _validate passes

\* A window shows an input tab and loads what its manifest owns.
Load(w, f) ==
    /\ win[w].at = "idle" /\ drops[f].marker = "live"
    /\ Manifest \in drops[f].files /\ Torn \notin drops[f].files
    /\ win' = [win EXCEPT ![w] = [Blank EXCEPT !.folder = f, !.owned = drops[f].owned]]
    /\ UNCHANGED <<board, lock, drops, proc, held, names, left, asked, done>>

\* createTemp, for an input tab (create) or for a drop that is never edited.
MakeFolder(w, f, op) ==
    /\ win[w].at = "idle" /\ f \notin names /\ Use("tasks")
    /\ names' = names \cup {f}
    /\ drops' = [drops EXCEPT ![f].dir = TRUE]
    /\ win' = [win EXCEPT ![w] = [Blank EXCEPT !.at = "mark", !.op = op, !.folder = f]]
    /\ UNCHANGED <<board, lock, proc, held, asked, done>>

Mark(w) ==
    /\ win[w].at = "mark"
    /\ drops' = [drops EXCEPT ![win[w].folder].marker = "live"]
    /\ Go(w, IF win[w].op = "drop" THEN "readme" ELSE "validate")
    /\ UNCHANGED <<board, lock, proc, held, names, left, asked, done>>

\* save, remove, and add or store with a file to copy.
Begin(w, op) ==
    /\ win[w].at = "idle" /\ win[w].folder # NoOne /\ Use("tasks")
    /\ IF op = "add"
       THEN \E x \in Copies \ names : /\ names' = names \cup {x}
                                      /\ win' = [win EXCEPT ![w] = [@ EXCEPT !.at = "validate", !.op = op, !.new = x]]
       ELSE /\ win' = [win EXCEPT ![w] = [@ EXCEPT !.at = "validate", !.op = op]]
            /\ UNCHANGED names
    /\ UNCHANGED <<board, lock, drops, proc, held, asked, done>>

\* A task that throws before it has the lease; a create has no draft yet.
Abandon(w) ==
    win' = [win EXCEPT ![w] = IF @.op = "create" THEN Blank
                              ELSE [@ EXCEPT !.at = "idle", !.op = "none", !.new = NoOne]]

Validate(w) ==
    /\ win[w].at = "validate"
    /\ IF Live(w) THEN Go(w, IF win[w].op = "remove" THEN "run" ELSE "lease") ELSE Abandon(w)
    /\ UNCHANGED <<board, lock, drops, proc, held, names, left, asked, done>>

\* lock.create(exclusive: true), outside the try of _lease.
Lease(w) ==
    /\ win[w].at = "lease"
    /\ IF drops[win[w].folder].dir /\ ~drops[win[w].folder].lease
       THEN /\ drops' = [drops EXCEPT ![win[w].folder].lease = TRUE]
            /\ Go(w, "check")
       ELSE Abandon(w) /\ UNCHANGED drops
    /\ UNCHANGED <<board, lock, proc, held, names, left, asked, done>>

\* Mutant: the marker is not looked at again.
Unchecked(w) ==
    /\ win[w].at = "check"
    /\ Go(w, IF win[w].op = "add" THEN "reserve" ELSE "manifest")
    /\ UNCHANGED <<board, lock, drops, proc, held, names, left, asked, done>>

\* The second _validate, now that the lease is down.
Check(w) ==
    /\ win[w].at = "check"
    /\ IF Live(w) THEN Go(w, IF win[w].op = "add" THEN "reserve" ELSE "manifest") ELSE Leave(w, FALSE)
    /\ UNCHANGED <<board, lock, drops, proc, held, names, left, asked, done>>

\* Mutant: the manifest is written from the draft alone.
DraftOnly(w) == win[w].owned \cup ({win[w].new} \ {NoOne})

\* _manifest: what the file already owns is kept.
Merged(w) == drops[win[w].folder].owned \cup win[w].owned \cup ({win[w].new} \ {NoOne})

\* _manifest reads the file before it writes it.
Writable(w) == Torn \notin drops[win[w].folder].files /\ Cardinality(Merged(w)) <= MaxOwned

WriteManifest(w, next) ==
    IF Writable(w)
    THEN /\ drops' = [drops EXCEPT ![win[w].folder].files = @ \cup {Manifest},
                                    ![win[w].folder].owned = Merged(w)]
         /\ Go(w, next)
    ELSE Leave(w, FALSE) /\ UNCHANGED drops

\* _copy names the file in the manifest before it makes it.
Reserve(w) ==
    /\ win[w].at = "reserve"
    /\ WriteManifest(w, "copy")
    /\ UNCHANGED <<board, lock, proc, held, names, left, asked, done>>

Copy(w) ==
    /\ win[w].at = "copy"
    /\ drops' = [drops EXCEPT ![win[w].folder].files = @ \cup {win[w].new}]
    /\ Go(w, "manifest")
    /\ UNCHANGED <<board, lock, proc, held, names, left, asked, done>>

\* _write validates a third time.
SaveManifest(w) ==
    /\ win[w].at = "manifest"
    /\ IF Live(w) THEN WriteManifest(w, "readme") ELSE Leave(w, FALSE) /\ UNCHANGED drops
    /\ UNCHANGED <<board, lock, proc, held, names, left, asked, done>>

SaveReadme(w) ==
    /\ win[w].at = "readme"
    /\ drops' = [drops EXCEPT ![win[w].folder].files = @ \cup {Readme}]
    /\ Go(w, "run")
    /\ UNCHANGED <<board, lock, proc, held, names, left, asked, done>>

WriterOp(op) == CASE op \in {"create", "drop"} -> "drop" [] op = "remove" -> "remove" [] OTHER -> "replace"

\* writeInput starts the writer.
RunWriter(w, p) ==
    LET q == [id |-> NextId, op |-> WriterOp(win[w].op), folder |-> win[w].folder]
    IN /\ win[w].at = "run"
       /\ Start(p, q, w)
       /\ asked' = asked \cup {q}
       /\ Go(w, "wait")
       /\ UNCHANGED left

\* What the write under way leaves when it is cut short: nothing, or part of
\* the file.
Half(w) ==
    CASE win[w].at = "reserve" -> IF Writable(w) THEN {Torn} ELSE {}
      [] win[w].at = "copy" -> {win[w].new}
      [] win[w].at = "manifest" -> IF Live(w) /\ Writable(w) THEN {Torn} ELSE {}
      [] win[w].at = "readme" -> {Readme}
      [] OTHER -> {}

CutShort(w) ==
    \E part \in SUBSET Half(w) : drops' = [drops EXCEPT ![win[w].folder].files = @ \cup part]

\* An operation of the task throws.
Throw(w) ==
    /\ win[w].at \in {"reserve", "copy", "manifest", "readme", "run"} /\ Use("fails")
    /\ CutShort(w)
    /\ Leave(w, FALSE)
    /\ UNCHANGED <<board, lock, proc, held, names, asked, done>>

\* Mutant: the lease file is left behind.
KeepsLease(w) ==
    /\ win[w].at = "unlease"
    /\ win' = [win EXCEPT ![w] = IF @.op = "failed" THEN Blank ELSE [@ EXCEPT !.at = "idle", !.op = "none"]]
    /\ UNCHANGED <<board, lock, drops, proc, held, names, left, asked, done>>

Unlease(w) ==
    /\ win[w].at = "unlease"
    /\ drops' = [drops EXCEPT ![win[w].folder].lease = FALSE]
    /\ win' = [win EXCEPT ![w] = IF @.op = "failed" THEN Blank ELSE [@ EXCEPT !.at = "idle", !.op = "none"]]
    /\ UNCHANGED <<board, lock, proc, held, names, left, asked, done>>

\* The app ends in the middle of a task; a writer it has started goes on.
Exit(w) ==
    /\ win[w].at # "idle" /\ Use("exits")
    /\ CutShort(w)
    /\ win' = [win EXCEPT ![w] = Blank]
    /\ proc' = [p \in Procs |-> IF proc[p].by = w THEN [proc[p] EXCEPT !.by = NoOne] ELSE proc[p]]
    /\ UNCHANGED <<board, lock, held, names, asked, done>>

-----------------------------------------------------------------------------
(* Another program opens and closes a stored file, which on Windows keeps it *)
(* from being deleted.                                                       *)

OpenFile(f, x) ==
    /\ x \in (Copies \cap drops[f].files) \ held /\ Use("holds")
    /\ held' = held \cup {x}
    /\ UNCHANGED <<board, lock, drops, proc, win, names, asked, done>>

CloseFile(x) ==
    /\ x \in held
    /\ held' = held \ {x}
    /\ UNCHANGED <<board, lock, drops, proc, win, names, left, asked, done>>

-----------------------------------------------------------------------------
WriterStep(p) ==
    \/ Acquire(p) \/ GiveUp(p) \/ ReadBoard(p) \/ WriteFails(p) \/ Rename(p)
    \/ \E f \in Folders : Retire(p, f) \/ RetireFails(p, f) \/ Sweep(p, f)
    \/ Scan(p) \/ Listed(p) \/ Unmark(p) \/ RemoveDir(p) \/ Release(p)
    \/ \E x \in Files : Delete(p, x)

WindowStep(w) ==
    \/ Mark(w) \/ Validate(w) \/ Lease(w) \/ Check(w) \/ Reserve(w) \/ Copy(w)
    \/ SaveManifest(w) \/ SaveReadme(w) \/ Throw(w) \/ Unlease(w)
    \/ \E p \in Procs : RunWriter(w, p)

Asks(w) ==
    \/ \E f \in Folders : Load(w, f) \/ \E op \in {"create", "drop"} : MakeFolder(w, f, op)
    \/ \E op \in {"save", "add", "remove"} : Begin(w, op)

Next ==
    \/ \E p \in Procs : AgentPublishes(p) \/ AgentPrunes(p) \/ WriterStep(p) \/ Kill(p)
    \/ \E w \in Windows : Asks(w) \/ WindowStep(w) \/ Exit(w)
    \/ ClearLock
    \/ \E f \in Folders, x \in Copies : OpenFile(f, x)
    \/ \E x \in Copies : CloseFile(x)

Spec == Init /\ [][Next]_vars

\* The scheduling behind the liveness property: processes and tasks that have
\* begun go on unless an operation fails, a window that starts a writer gets one
\* (the pool of process names may be taken, the system's is not), and somebody
\* keeps pruning.
Fairness ==
    /\ \A p \in Procs : /\ WF_vars(AgentPrunes(p))
                        /\ WF_vars(\/ Acquire(p) \/ GiveUp(p) \/ ReadBoard(p) \/ Rename(p)
                                   \/ Scan(p) \/ Listed(p) \/ Unmark(p) \/ RemoveDir(p) \/ Release(p)
                                   \/ \E f \in Folders : Retire(p, f) \/ Sweep(p, f)
                                   \/ \E x \in Files : Delete(p, x))
    /\ \A w \in Windows : WF_vars(WindowStep(w)) /\ SF_vars(\E p \in Procs : RunWriter(w, p))
FairSpec == Spec /\ Fairness

-----------------------------------------------------------------------------
(* Properties. *)

Board == INSTANCE WhiteboardBoard WITH posts <- board, Initial <- {Legacy(n) : n \in 0..MaxLegacy}

\* Whatever writers run at once, fail or are killed, whiteboard.md changes as
\* if each request were applied once, at one moment, to the board of that
\* moment: nobody's post is lost to a writer that read the board earlier.
\* (write_board_with: read, edit and rename under BoardLock.)
BoardSpec == Board!Spec

\* A window past the second _validate, holding its lease.
Editing(w) == /\ win[w].op \in Leased
              /\ win[w].at \in {"reserve", "copy", "manifest", "readme", "run", "wait"}

\* No writer deletes a file from a folder while a window edits it, although
\* neither waits for the other's lock: the mark-then-list of cleanup_drops and
\* the lease-then-look of _lease exclude each other.
EditedFilesStay ==
    [][\A w \in Windows : Editing(w) => drops[win[w].folder].files \subseteq drops'[win[w].folder].files]_vars

\* Every input on the board still has its folder, its live marker and the
\* README its prompt tells an agent to read, whoever else retires folders.
InputsAreReadable ==
    \A f \in FoldersOf(board) : drops[f].dir /\ drops[f].marker = "live" /\ Readme \in drops[f].files

\* The stored files of an input that has not been retired are all named by its
\* manifest, and no more than cleanup accepts, whatever window saved an older
\* draft last or stopped between two steps: so cleanup can recognise them.
\* The one exception is a manifest whose own write was cut short, which names
\* nothing any more: no cleanup takes that folder.
CopiesAreOwned ==
    \A f \in Folders : drops[f].marker = "live" /\ Torn \notin drops[f].files =>
        /\ drops[f].files \cap Copies \subseteq drops[f].owned
        /\ drops[f].files \cap Copies # {} => Manifest \in drops[f].files
        /\ Cardinality(drops[f].owned) <= MaxOwned

\* "A locked video can be retried by the next publisher" (main.rs): a retired
\* folder nobody has claimed or is deleting holds only files that
\* remove_owned_drop may delete.
RetryCanFinish ==
    \A f \in Folders :
        /\ drops[f].marker = "retired" /\ ~drops[f].lease
        /\ \A p \in Procs : proc[p].cur # f
        => Removable(f)

\* With publishers coming by and nothing failing, the folder of an input that
\* left the board is cleaned up in the end, also when it was being edited at
\* the time.
LeftInputsGo == \A f \in Folders : drops[f].marker = "retired" ~> drops[f].marker = "none"
=============================================================================
