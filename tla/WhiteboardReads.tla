--------------------------- MODULE WhiteboardReads ---------------------------
(***************************************************************************)
(* The whiteboard's reads (native/hub/src/actors/whiteboard.rs): listen    *)
(* with its one worker and its pending requests, the history of a Codex    *)
(* session through the caches of locations, connections and answers, and   *)
(* lists of recent sessions through RecentCache.                           *)
(*                                                                         *)
(* A request with a session asks for that session's history, one without   *)
(* asks for a provider's recent sessions.  Each step of the worker looks   *)
(* at the disk once; Codex writes its logs and its database in between.    *)
(* Logs only grow, and a log's version in RecentCache is its size.  The    *)
(* file system tells when a file was created, so a replaced database is    *)
(* known by its number.                                                    *)
(***************************************************************************)
EXTENDS RecentCache, ResponseLog

CONSTANTS
    Sessions,         \* sessions of the Codex database
    InitialTail, MaxTail,   \* INITIAL_TAIL_BYTES, MAX_TAIL_BYTES, in units
    LocationTime,     \* how long a location is used, in ticks
    MaxLocations,     \* entries of LOCATIONS
    MaxResponses,     \* entries of RESPONSE_CACHE
    MaxCacheText,     \* MAX_CACHE_BYTES, in texts
    Scenarios         \* bounds a behaviour may have, and the logs it starts with

Bounds == {"calls", "appends", "touches", "moves", "locks", "faults", "ticks", "tabs"}

ASSUME ReadsAssumption ==
    /\ Files # <<>>
    /\ {InitialTail, MaxTail} \subseteq Nat \ {0} /\ InitialTail <= MaxTail
    /\ LocationTime \in Nat \ {0} /\ {MaxLocations, MaxResponses, MaxCacheText} \subseteq Nat
    /\ \A s \in Scenarios :
         /\ s.bounds \in [Bounds -> Nat]
         /\ s.menu.asks \subseteq Sessions \cup {Nothing}
         /\ s.menu.limits \subseteq 1 .. 3 /\ s.menu.providers \subseteq Providers
         /\ s.logs \cup {s.rest} \subseteq [records : Seq(Records), partial : BOOLEAN]
         /\ \A l \in s.logs \cup {s.rest} : Written(l.records)

VARIABLES
    log,        \* disk: the rollout in each Codex file
    rows,       \* disk: the rollout of each session, in every database there has been
    left,       \* the scenario, and what is left of its bounds
    calls,      \* requests sent by the UI, in order
    inbox,      \* requests the listener has not received
    pending,    \* PendingReads: recent, taken in the order of its numbers, and history
    worker,     \* the request being read and how far it is
    connection, \* DATABASE_CACHE: the number of the database it is open on, or 0
    locations,  \* LOCATIONS
    responses,  \* RESPONSE_CACHE
    moved       \* history: when each session's rollout last changed

diskVars == <<log, rows, moved>>
queueVars == <<calls, inbox, pending>>
cacheVars == <<connection, locations, responses>>
vars == <<recentVars, diskVars, left, queueVars, worker, cacheVars>>

Rested == [step |-> "idle", id |-> 0, path |-> Nothing, size |-> 0, tail |-> 0,
           cached |-> FALSE, ok |-> FALSE, texts |-> <<>>, bounded |-> FALSE,
           sizes |-> <<>>, at |-> 0]

Database == Len(rows)
Row(s) == rows[Database][s]
Call == calls[worker.id]
Spend(b) == left.bounds[b] > 0 /\ left' = [left EXCEPT !.bounds[b] = @ - 1]

Init ==
    /\ RecentInit
    /\ \E s \in Scenarios :
         /\ left = [bounds |-> s.bounds, menu |-> s.menu]
         /\ log \in {[f \in ToSet(Files) |-> IF f = Files[1] THEN l ELSE s.rest] : l \in s.logs}
    /\ file = [s \in Sources |-> IF s[1] = "codex" /\ s[2] \in ToSet(Files)
                                   THEN Size(log[s[2]]) ELSE 0]
    /\ rows = <<[s \in Sessions |-> Files[1]]>>
    /\ moved = [s \in Sessions |-> -LocationTime]
    /\ calls = <<>> /\ inbox = <<>>
    /\ pending = [recent |-> {}, history |-> 0]
    /\ worker = Rested
    /\ connection = 0 /\ locations = <<>> /\ responses = <<>>

-----------------------------------------------------------------------------
(* Requests and answers.                                                   *)

(* The UI sends a request. *)
Ask(session, provider, limit) ==
    /\ Spend("calls")
    /\ calls' = Append(calls, [session |-> session, provider |-> provider, limit |-> limit,
                               replies |-> 0, superseded |-> FALSE])
    /\ inbox' = Append(inbox, Len(calls) + 1)
    /\ UNCHANGED <<recentVars, diskVars, pending, worker, cacheVars>>

(* send_read_result, or the answer to a superseded request *)
Replied(id, superseded) ==
    [calls EXCEPT ![id].replies = @ + 1, ![id].superseded = superseded]

(* Mutants. *)
AnyProvider(id) ==
    IF calls[id].session # Nothing
      THEN [queue |-> [pending EXCEPT !.history = id], replaced |-> {pending.history} \ {0}]
      ELSE [queue |-> [pending EXCEPT !.recent = {id}], replaced |-> pending.recent]

Unanswered(id) ==
    [queue |-> IF calls[id].session # Nothing THEN [pending EXCEPT !.history = id]
               ELSE [pending EXCEPT !.recent = @ \cup {id}],
     replaced |-> {}]

(* PendingReads.replace: what is pending then, and the request that goes. *)
Replace(id) ==
    IF calls[id].session # Nothing
      THEN [queue |-> [pending EXCEPT !.history = id], replaced |-> {pending.history} \ {0}]
      ELSE LET same == {r \in pending.recent : calls[r].provider = calls[id].provider} IN
           [queue |-> [pending EXCEPT !.recent = (@ \ same) \cup {id}], replaced |-> same]

(* listen: the worker starts on a request. *)
Start(id) ==
    worker' = [Rested EXCEPT !.step = "start", !.id = id, !.at = now,
                             !.sizes = [f \in ToSet(Files) |-> Size(log[f])]]

(* listen with an idle worker: PendingReads.take, or the next request. *)
StartPending ==
    /\ worker.step = "idle"
    /\ \/ /\ pending.history # 0
          /\ Start(pending.history)
          /\ pending' = [pending EXCEPT !.history = 0]
          /\ inbox' = inbox
       \/ /\ pending.history = 0
          /\ \E id \in pending.recent :
               /\ \A other \in pending.recent : id <= other
               /\ Start(id)
               /\ pending' = [pending EXCEPT !.recent = @ \ {id}]
          /\ inbox' = inbox
       \/ /\ pending.history = 0 /\ pending.recent = {} /\ inbox # <<>>
          /\ Start(inbox[1])
          /\ inbox' = Tail(inbox)
          /\ UNCHANGED pending
    /\ UNCHANGED <<recentVars, diskVars, left, calls, cacheVars>>

(* listen while the worker reads: a request waits, and the one it replaces *)
(* is answered at once.                                                    *)
Receive ==
    /\ worker.step # "idle" /\ inbox # <<>>
    /\ LET r == Replace(inbox[1]) IN
         /\ pending' = r.queue
         /\ calls' = [i \in DOMAIN calls |->
                        IF i \in r.replaced THEN Replied(i, TRUE)[i] ELSE calls[i]]
    /\ inbox' = Tail(inbox)
    /\ UNCHANGED <<recentVars, diskVars, left, worker, cacheVars>>

(* listen: the worker is done and its result is sent. *)
SendReadResult ==
    /\ worker.step = "done"
    /\ calls' = Replied(worker.id, FALSE)
    /\ worker' = Rested
    /\ UNCHANGED <<recentVars, diskVars, left, inbox, pending, cacheVars>>

-----------------------------------------------------------------------------
(* The worker: read_request.                                               *)

Failed == [worker EXCEPT !.step = "done"]
Answered(texts, bounded) ==
    [worker EXCEPT !.step = "done", !.ok = TRUE, !.texts = texts, !.bounded = bounded]

(* read_request: the location of the session if it was looked up lately. *)
LocationsOf(session) == {i \in DOMAIN locations : locations[i].session = session}
KnownLocations == {i \in LocationsOf(Call.session) : now - locations[i].checked < LocationTime}

ReadRequest ==
    /\ worker.step = "start"
    /\ IF Call.session = Nothing
         THEN AskLoad("board", Call.provider) /\ worker' = [worker EXCEPT !.step = "recents"]
         ELSE /\ worker' = IF Call.provider # "codex" THEN Failed
                           ELSE IF KnownLocations = {} THEN [worker EXCEPT !.step = "query"]
                           ELSE [worker EXCEPT !.step = "stat",
                                   !.path = locations[CHOOSE i \in KnownLocations : TRUE].path]
              /\ UNCHANGED load
    /\ UNCHANGED <<file, now, recents, headers, diskVars, left, queueVars, cacheVars>>

(* read_request: the known location is not a file at the moment. *)
LocationGone ==
    /\ worker.step = "start" /\ Call.session # Nothing /\ Call.provider = "codex"
    /\ KnownLocations # {}
    /\ Spend("faults")
    /\ worker' = [worker EXCEPT !.step = "query"]
    /\ UNCHANGED <<recentVars, diskVars, queueVars, cacheVars>>

(* read_connection: the row is found and its location kept. *)
Found(row, cached) ==
    /\ locations' = LastOf(Append(Without(locations, LocationsOf(Call.session)),
                                  [session |-> Call.session, path |-> row, checked |-> now]),
                           MaxLocations)
    /\ worker' = [worker EXCEPT !.step = "stat", !.path = row, !.cached = cached]

(* read_cached_database: the open connection serves while its file is the  *)
(* one at the path.                                                        *)
Reusable == connection = Database
Opened == IF Reusable THEN connection ELSE Database

QueryDatabase ==
    /\ worker.step = "query"
    /\ connection' = Opened
    /\ Found(rows[Opened][Call.session], TRUE)
    /\ UNCHANGED <<recentVars, diskVars, left, queueVars, responses>>

(* The database is locked: read_request copies it and reads the copy. *)
LockedDatabase ==
    /\ worker.step = "query"
    /\ Spend("locks")
    /\ connection' = 0
    /\ worker' = [worker EXCEPT !.step = "snapshot"]
    /\ UNCHANGED <<recentVars, diskVars, queueVars, locations, responses>>

ReadSnapshot ==
    /\ worker.step = "snapshot"
    /\ Found(Row(Call.session), FALSE)
    /\ UNCHANGED <<recentVars, diskVars, left, queueVars, connection, responses>>

(* Mutant. *)
AnySize(e) == e.path = worker.path /\ e.limit >= Call.limit

(* read_response_payload: which cached answers serve the log as it is. *)
Serves(e) ==
    e.path = worker.path /\ e.size = Size(log[worker.path]) /\ e.limit >= Call.limit

FirstOf(q, n) == SubSeq(q, 1, Min({n, Len(q)}))

ReadResponsePayload ==
    LET kept == {i \in DOMAIN responses : responses[i].path = worker.path}
        hits == {i \in kept : Serves(responses[i])}
        hit == responses[CHOOSE i \in hits : TRUE]
        others == Without(responses, kept)
    IN /\ worker.step = "stat"
       /\ IF hits # {}
            THEN /\ responses' = Append(others, hit)
                 /\ worker' = Answered(FirstOf(hit.texts, Call.limit), hit.bounded)
            ELSE /\ responses' = others
                 /\ worker' = [worker EXCEPT !.step = "window", !.tail = InitialTail,
                                             !.size = Size(log[worker.path])]
       /\ UNCHANGED <<recentVars, diskVars, left, queueVars, connection, locations>>

(* trim_response_cache *)
Trimmed(cache) ==
    LET text(k) == FoldLeft(LAMBDA n, e : n + Len(e.texts), 0, SubSeq(cache, k + 1, Len(cache)))
        fits == {k \in 0 .. Len(cache) : Len(cache) - k <= MaxResponses /\ text(k) <= MaxCacheText}
    IN SubSeq(cache, Min(fits) + 1, Len(cache))

(* read_responses, one window; the result is kept under the size the log   *)
(* had before the first one was read.                                      *)
ReadWindow ==
    /\ worker.step = "window"
    /\ \E w \in Window(log[worker.path], Call.limit, worker.tail) :
         LET last == Len(w.texts) >= Call.limit \/ ~w.bounded \/ worker.tail = MaxTail IN
           /\ connection' = IF w.failed /\ worker.cached THEN 0 ELSE connection
           /\ worker' = IF w.failed THEN Failed
                        ELSE IF last THEN Answered(w.texts, w.bounded)
                        ELSE [worker EXCEPT !.tail = Min({4 * @, MaxTail})]
           /\ responses' = IF w.failed \/ ~last \/ Len(w.texts) > MaxCacheText THEN responses
                           ELSE Trimmed(Append(responses,
                                  [path |-> worker.path, size |-> worker.size, limit |-> Call.limit,
                                   texts |-> w.texts, bounded |-> w.bounded]))
    /\ UNCHANGED <<recentVars, diskVars, left, queueVars, locations>>

(* A file or the database cannot be read: the error is the answer, and the *)
(* connection it came through is closed.                                   *)
ReadFails ==
    /\ worker.step \in {"query", "snapshot", "stat", "window"}
    /\ Spend("faults")
    /\ connection' = IF worker.cached \/ worker.step = "query" THEN 0 ELSE connection
    /\ worker' = Failed
    /\ UNCHANGED <<recentVars, diskVars, queueVars, locations, responses>>

(* recent_cache::load has returned to the worker. *)
RecentsRead ==
    /\ worker.step = "recents"
    /\ load["board"].st \in {"loaded", "failed"}
    /\ worker' = [worker EXCEPT !.step = "done", !.ok = load["board"].st = "loaded"]
    /\ load' = [load EXCEPT !["board"] = Idle]
    /\ UNCHANGED <<file, now, recents, headers, diskVars, left, queueVars, cacheVars>>

(* recent_cache::load, one step of either actor; Codex's list is read      *)
(* through the same connection as the histories (load_recent_codex).       *)
readVars == <<diskVars, left, queueVars, worker, locations, responses>>
LoadBegins(a) == BeginLoad(a) /\ UNCHANGED <<readVars, connection>>
LoadTracks(a) == TrackStep(a) /\ UNCHANGED <<readVars, connection>>
LoadReads(a) ==
    /\ ReadStep(a)
    /\ connection' = IF Step(a).src = <<"codex", "db">> THEN Opened ELSE connection
    /\ UNCHANGED readVars
LoadReadsHeader(a) == HeaderStep(a, TRUE) /\ UNCHANGED <<readVars, connection>>
LoadEnds(a) == EndLoad(a) /\ UNCHANGED <<readVars, connection>>
LoadFails(a) ==
    /\ FailLoad(a) \/ SkipStep(a) \/ HeaderStep(a, FALSE)
    /\ Spend("faults")
    /\ connection' = IF Step(a).src = <<"codex", "db">> THEN 0 ELSE connection
    /\ UNCHANGED <<diskVars, queueVars, worker, locations, responses>>

(* terminal_tabs::read: the names of a running provider's sessions, which  *)
(* are not looked up for Codex.                                            *)
TabsAsk(p) ==
    /\ load["tabs"] = Idle /\ p # "codex"
    /\ Spend("tabs")
    /\ AskLoad("tabs", p)
    /\ UNCHANGED <<file, now, recents, headers, diskVars, queueVars, worker, cacheVars>>

TabsRead ==
    /\ load["tabs"].st \in {"loaded", "failed"}
    /\ load' = [load EXCEPT !["tabs"] = Idle]
    /\ UNCHANGED <<file, now, recents, headers, readVars, connection>>

-----------------------------------------------------------------------------
(* External: Codex and the other providers write their files; time passes. *)

(* A record is written, at once or in two parts. *)
Write(f, new) ==
    /\ Spend("appends")
    /\ log' = [log EXCEPT ![f] = new]
    /\ file' = [file EXCEPT ![<<"codex", f>>] = Size(new)]
    /\ UNCHANGED <<now, recents, headers, load, rows, moved, queueVars, worker, cacheVars>>

AppendRecord(f, r) == Write(f, [records |-> Append(log[f].records, r), partial |-> FALSE])
AppendPart(f) == ~log[f].partial /\ Write(f, [log[f] EXCEPT !.partial = TRUE])

Touch(s) ==
    /\ ~(s[1] = "codex" /\ s[2] \in ToSet(Files))
    /\ Spend("touches")
    /\ file' = [file EXCEPT ![s] = @ + 1]
    /\ UNCHANGED <<now, recents, headers, load, diskVars, queueVars, worker, cacheVars>>

(* A session gets another rollout, by a commit to the database (in its WAL *)
(* file) or with a database that replaces the old one.                     *)
Move(s, f, source, new) ==
    /\ Row(s) # f
    /\ Spend("moves")
    /\ rows' = new
    /\ moved' = [moved EXCEPT ![s] = now]
    /\ file' = [file EXCEPT ![<<"codex", source>>] = @ + 1]
    /\ UNCHANGED <<now, recents, headers, load, log, queueVars, worker, cacheVars>>

CommitRow(s, f) == Move(s, f, "wal", [rows EXCEPT ![Database][s] = f])
ReplaceDatabase(s, f) == Move(s, f, "db", Append(rows, [rows[Database] EXCEPT ![s] = f]))

Tick ==
    /\ Spend("ticks")
    /\ now' = now + 1
    /\ UNCHANGED <<file, recents, headers, load, diskVars, queueVars, worker, cacheVars>>

-----------------------------------------------------------------------------
World ==
    \/ \E session \in left.menu.asks, p \in left.menu.providers, limit \in left.menu.limits : Ask(session, p, limit)
    \/ \E p \in left.menu.providers : TabsAsk(p)
    \/ \E f \in ToSet(Files) : AppendPart(f)
    \/ \E f \in ToSet(Files) : 
         \E r \in {c \in Continuations(log[f].records) : c.kind \in left.menu.kinds} : AppendRecord(f, r)
    \/ \E s \in {x \in Sources : x[1] \in left.menu.providers} : Touch(s)
    \/ \E s \in Sessions, f \in ToSet(Files) : CommitRow(s, f) \/ ReplaceDatabase(s, f)
    \/ Tick

Listen == StartPending \/ Receive \/ SendReadResult
Work ==
    \/ ReadRequest \/ QueryDatabase \/ ReadSnapshot \/ ReadResponsePayload
    \/ ReadWindow \/ RecentsRead
Trouble == LocationGone \/ LockedDatabase \/ ReadFails \/ \E a \in Actors : LoadFails(a)
LoadGoesOn(a) ==
    LoadBegins(a) \/ LoadTracks(a) \/ LoadReads(a) \/ LoadReadsHeader(a) \/ LoadEnds(a)

Next ==
    \/ World \/ Listen \/ Work \/ Trouble \/ TabsRead
    \/ \E a \in Actors : LoadGoesOn(a)

Spec == Init /\ [][Next]_vars

(* The listener task, its worker and the terminal discovery's thread run;  *)
(* the mutex that the last two share is passed on when it is released.     *)
FairSpec ==
    /\ Spec
    /\ WF_vars(Listen)
    /\ WF_vars(Work \/ LoadGoesOn("board"))
    /\ WF_vars(TabsRead \/ LoadGoesOn("tabs"))

-----------------------------------------------------------------------------
(* Requests of one kind: listen keeps one history and one list of recent   *)
(* sessions per provider.                                                  *)
SameKind(a, b) ==
    (a.session = Nothing) = (b.session = Nothing) /\ (a.session = Nothing => a.provider = b.provider)

(* Every request is answered at most once, and called superseded only when *)
(* a newer one of its kind has been made, so the newest is really read.    *)
SupersededByNewer ==
    \A i \in DOMAIN calls :
      /\ calls[i].replies <= 1
      /\ calls[i].superseded => \E j \in i + 1 .. Len(calls) : SameKind(calls[i], calls[j])

(* A history that is served, from the log or from a cache, holds exactly   *)
(* the latest answers of the log as it was at some time since the request  *)
(* was taken up (all of them, unless the largest window ended them), and   *)
(* the log is the session's own, or was until less than LocationTime ago.  *)
HistoryIsCurrent ==
    worker.step = "done" /\ worker.ok /\ Call.session # Nothing =>
      LET f == worker.path IN
        /\ f = Row(Call.session) \/ worker.at - moved[Call.session] < LocationTime
        /\ Len(worker.texts) <= Call.limit
        /\ \E n \in worker.sizes[f] .. Size(log[f]) :
             LatestAnswers(Upto(log[f], n).records, Call.limit, worker.texts, ~worker.bounded)
        /\ Len(worker.texts) < Call.limit /\ Size(log[f]) <= MaxTail => ~worker.bounded

(* Every request is answered. *)
ReadsAreAnswered ==
    \A i \in 1 .. 3 : i \in DOMAIN calls ~> i \in DOMAIN calls /\ calls[i].replies = 1
=============================================================================
