---------------------------- MODULE RecentCache -----------------------------
(***************************************************************************)
(* The cache of recent sessions (native/hub/src/actors/recent_cache.rs)    *)
(* and the order in which each provider's loader looks at its files.       *)
(*                                                                         *)
(* A loader observes ("tracks") the stamps of its sources and reads them;  *)
(* the result is kept under those stamps and served again while they match *)
(* and for at most REDISCOVERY_INTERVAL.  Providers write their files at   *)
(* any time.  A source is a version number, which its stamp (size, times)  *)
(* identifies; what a loader learns is the set of versions it has seen,    *)
(* or found unreadable, which most loaders pass over.                      *)
(* Files of a provider are few enough for its candidate limits.  One       *)
(* sessions file is open, so a cache key is a provider.                    *)
(*                                                                         *)
(* Two threads load: the whiteboard's worker (actor "board") and the       *)
(* terminal discovery (actor "tabs", terminal_tabs.rs).  The cache's mutex *)
(* is held for the whole of a load.                                        *)
(***************************************************************************)
EXTENDS Integers, Sequences, FiniteSets, SequencesExt

CONSTANTS
    Providers,        \* providers whose sessions are listed
    Files,            \* session files, in the order a loader meets them
    Subagents,        \* Codex rollouts that belong to subagents
    MaxWatchedPaths,  \* MAX_WATCHED_PATHS
    MaxWatchedDirs,   \* the share of it that directories may take
    MaxEntries,       \* cached results
    MaxHeaders,       \* entries of HEADER_CACHE
    Rediscovery       \* REDISCOVERY_INTERVAL, in ticks of the clock

ASSUME RecentAssumption ==
    /\ Providers \subseteq {"codex", "kimi", "opencode", "qwen", "muse", "zcode", "claude"}
    /\ Files \in Seq(STRING \ {"db", "wal", "dir"})
    /\ \A i, j \in DOMAIN Files : Files[i] = Files[j] => i = j
    /\ Subagents \subseteq ToSet(Files)
    /\ {MaxWatchedPaths, MaxWatchedDirs, MaxEntries, MaxHeaders} \subseteq Nat
    /\ Rediscovery \in Nat \ {0}

VARIABLES
    file,      \* disk: the version of each source
    now,       \* the clock
    recents,   \* CACHE, least recently used first
    headers,   \* HEADER_CACHE
    load       \* the load each actor is in

recentVars == <<file, now, recents, headers, load>>

Actors == {"board", "tabs"}
IsDirectory(s) == s[2] = "dir"

Nothing == ""   \* an empty string

Idle == [st |-> "idle", provider |-> Nothing, at |-> 0, stat |-> 0, tracked |-> {}, seen |-> {},
         listed |-> {}, untold |-> {}, from |-> <<>>, hit |-> FALSE, age |-> 0]

(* What the cache starts with; versions and clock are the world's. *)
RecentInit ==
    /\ now = 0
    /\ recents = <<>>
    /\ headers = <<>>
    /\ load = [a \in Actors |-> Idle]

-----------------------------------------------------------------------------
(* The loaders, as the order in which they track and read their sources.   *)

Track(p, x) == [op |-> "track", src |-> <<p, x>>]
Read(p, x) == [op |-> "read", src |-> <<p, x>>]
Header(p, x) == [op |-> "header", src |-> <<p, x>>]

(* The n steps of each file, one file after the other. *)
ForEachFile(n, Steps(_)) ==
    [i \in 1 .. n * Len(Files) |->
       Steps(Files[((i - 1) \div n) + 1])[((i - 1) % n) + 1]]

(* recent_cache::track_database *)
TrackDatabase(p) == <<Track(p, "db"), Track(p, "wal"), Track(p, "dir")>>
ReadDatabase(p) == <<Read(p, "db"), Read(p, "wal")>>

(* load_recent_codex and read_sessions: a rollout's time and header are    *)
(* looked at before the rollout is tracked, and its fork after.            *)
CodexLoader(p) ==
    TrackDatabase(p) \o ReadDatabase(p)
      \o ForEachFile(4, LAMBDA f : <<Read(p, f), Header(p, f), Track(p, f), Read(p, f)>>)

(* claude_sessions::load: times first, for all the files, then the files. *)
ClaudeLoader(p) ==
    <<Track(p, "dir"), Read(p, "dir")>>
      \o ForEachFile(1, LAMBDA f : <<Read(p, f)>>)
      \o ForEachFile(2, LAMBDA f : <<Track(p, f), Read(p, f)>>)

(* load_recent_qwen_contexts: as Claude's, all files tracked before the    *)
(* first is read.                                                          *)
QwenLoader(p) ==
    <<Track(p, "dir"), Read(p, "dir")>>
      \o ForEachFile(1, LAMBDA f : <<Read(p, f)>>)
      \o ForEachFile(1, LAMBDA f : <<Track(p, f)>>)
      \o ForEachFile(1, LAMBDA f : <<Read(p, f)>>)

(* load_recent_muse_contexts: the times that only order the candidates are *)
(* left out.                                                               *)
MuseLoader(p) ==
    <<Track(p, "dir"), Read(p, "dir")>>
      \o ForEachFile(2, LAMBDA f : <<Track(p, f), Read(p, f)>>)

(* load_recent_kimi_contexts: index and folders ("dir") before the states. *)
KimiLoader(p) ==
    <<Track(p, "dir"), Track(p, "db"), Read(p, "db"), Read(p, "dir")>>
      \o ForEachFile(1, LAMBDA f : <<Track(p, f)>>)
      \o ForEachFile(1, LAMBDA f : <<Read(p, f)>>)

(* load_recent_zcode_contexts *)
ZcodeLoader(p) == TrackDatabase(p) \o TrackDatabase(p) \o ReadDatabase(p)

(* load_recent_opencode_contexts *)
OpencodeLoader(p) == TrackDatabase(p) \o ReadDatabase(p)

(* load, its choice of the loader *)
Loader ==
    [p \in Providers |->
       CASE p = "codex" -> CodexLoader(p)
         [] p = "claude" -> ClaudeLoader(p)
         [] p = "qwen" -> QwenLoader(p)
         [] p = "muse" -> MuseLoader(p)
         [] p = "kimi" -> KimiLoader(p)
         [] p = "zcode" -> ZcodeLoader(p)
         [] p = "opencode" -> OpencodeLoader(p)]

(* What the loaders look at: a provider's database ("db", with its "wal"), *)
(* its folders ("dir") and its session files.                              *)
Sources == UNION {{Loader[p][i].src : i \in DOMAIN Loader[p]} : p \in Providers}

(* Sources whose data a loader reads before it tracks them. *)
TrackedLate ==
    {s \in Sources : \E i \in DOMAIN Loader[s[1]] :
       /\ Loader[s[1]][i].src = s /\ Loader[s[1]][i].op = "read"
       /\ \A j \in 1 .. i : Loader[s[1]][j] # [op |-> "track", src |-> s]}

-----------------------------------------------------------------------------
(* Mutants. *)
AnyStamp(entry) == now - entry.scanned < Rediscovery

(* track *)
Tracked(tracked, s) ==
    IF \/ Cardinality(tracked) >= MaxWatchedPaths
       \/ \E t \in tracked : t[1] = s
       \/ IsDirectory(s) /\ Cardinality({t \in tracked : IsDirectory(t[1])}) >= MaxWatchedDirs
      THEN tracked
      ELSE tracked \cup {<<s, file[s]>>}

Unchanged(tracked) == \A s \in tracked : file[s[1]] = s[2]

(* load, its test of a cached result *)
Valid(entry) == now - entry.scanned < Rediscovery /\ Unchanged(entry.tracked)

(* Sources that a loader goes on without when it cannot read them. *)
PassedOver(s) ==
    \/ s[1] \in {"qwen", "muse"}
    \/ s[1] = "kimi" /\ s[2] # "db"
    \/ s[1] = "codex" /\ s[2] \notin {"db", "wal"}

(* rollout_is_subagent: the header names a subagent once it is written. *)
RolloutIsSubagent(f) == f \in Subagents /\ file[<<"codex", f>>] >= 1

(* The last n elements: what pop_front leaves of a queue with n places. *)
LastOf(queue, n) == SubSeq(queue, IF Len(queue) > n THEN Len(queue) - n + 1 ELSE 1, Len(queue))

(* A queue without the element at the place in at, if there is one. *)
Without(queue, at) == IF at = {} THEN queue ELSE RemoveAt(queue, CHOOSE i \in at : TRUE)

(* load asked for by an actor, up to the mutex. *)
AskLoad(a, p) ==
    load' = [load EXCEPT ![a] = [Idle EXCEPT !.st = "asked", !.provider = p, !.from = file]]

(* Where the result of a provider is kept, at most at one place. *)
KeptFor(p) == {i \in DOMAIN recents : recents[i].provider = p}

(* load once it has the mutex: a valid result is served and becomes the    *)
(* most recently used, another one is dropped and the sources are read.    *)
BeginLoad(a) ==
    LET kept == KeptFor(load[a].provider)
    IN /\ load[a].st = "asked"
       /\ \A b \in Actors : load[b].st # "loading"
       /\ \/ \E i \in kept :
               LET e == recents[i] IN
               /\ Valid(e)
               /\ load' = [load EXCEPT ![a].st = "loaded", ![a].hit = TRUE,
                                      ![a].age = now - e.scanned, ![a].tracked = e.tracked,
                                      ![a].seen = e.seen, ![a].listed = e.listed,
                                      ![a].untold = e.untold]
               /\ recents' = Append(Without(recents, kept), e)
          \/ /\ ~\E i \in kept : Valid(recents[i])
             /\ load' = [load EXCEPT ![a].st = "loading", ![a].at = 1]
             /\ recents' = Without(recents, kept)
       /\ UNCHANGED <<file, now, headers>>

Step(a) == Loader[load[a].provider][load[a].at]
InLoader(a, op) ==
    /\ load[a].st = "loading" /\ load[a].at <= Len(Loader[load[a].provider])
    /\ Step(a).op = op

TrackStep(a) ==
    /\ InLoader(a, "track")
    /\ load' = [load EXCEPT ![a].at = @ + 1, ![a].tracked = Tracked(@, Step(a).src)]
    /\ UNCHANGED <<file, now, recents, headers>>

(* A source is read; stat is the version just seen, for the header cache. *)
ReadStep(a) ==
    LET s == Step(a).src IN
      /\ InLoader(a, "read")
      /\ load' = [load EXCEPT ![a].at = @ + 1, ![a].stat = file[s],
                              ![a].seen = @ \cup {<<s, file[s]>>}]
      /\ UNCHANGED <<file, now, recents, headers>>

(* Where the header of a rollout is kept, at most at one place. *)
HeadersOf(s) == {i \in DOMAIN headers : headers[i].src = s}

(* cached_rollout_is_subagent: the header is kept under the time and size  *)
(* taken before it was read, and so is that it could not be read, which    *)
(* counts as no subagent's.  A subagent's rollout is not listed.           *)
HeaderStep(a, readable) ==
    LET s == Step(a).src
        known == {headers[i] : i \in {j \in HeadersOf(s) : headers[j].version = load[a].stat}}
        read == [src |-> s, version |-> load[a].stat, told |-> readable,
                 subagent |-> readable /\ RolloutIsSubagent(s[2])]
    IN /\ InLoader(a, "header")
       /\ readable \/ known = {}
       /\ \E entry \in IF known # {} THEN known ELSE {read} :
            /\ headers' = LastOf(Append(Without(headers, HeadersOf(s)), entry), MaxHeaders)
            /\ load' = [load EXCEPT ![a].at = @ + (IF entry.subagent THEN 3 ELSE 1),
                                    ![a].listed = IF entry.subagent THEN @ ELSE @ \cup {s[2]},
                                    ![a].untold = IF entry.told THEN @
                                                  ELSE @ \cup {<<s, entry.version>>}]
       /\ UNCHANGED <<file, now, recents>>

(* load, the rest: a result whose sources changed while they were read is  *)
(* kept with an age that makes the next load read again.                   *)
EndLoad(a) ==
    /\ load[a].st = "loading" /\ load[a].at > Len(Loader[load[a].provider])
    /\ recents' = LastOf(Append(recents,
         [provider |-> load[a].provider, tracked |-> load[a].tracked,
          seen |-> load[a].seen, listed |-> load[a].listed, untold |-> load[a].untold,
          scanned |-> IF Unchanged(load[a].tracked) THEN now ELSE now - Rediscovery]), MaxEntries)
    /\ load' = [load EXCEPT ![a].st = "loaded", ![a].at = 0, ![a].stat = 0]
    /\ UNCHANGED <<file, now, headers>>

(* A source cannot be read, and the loader goes on: the file is left out,  *)
(* or its folder, or its fork.  A rollout without a size and times is      *)
(* listed, and its header not looked at.                                   *)
SkipStep(a) ==
    LET s == Step(a).src
        after == load[a].at + 1
        unlooked == /\ after <= Len(Loader[load[a].provider])
                    /\ Loader[load[a].provider][after].op = "header"
    IN /\ InLoader(a, "read") /\ PassedOver(s)
       /\ load' = [load EXCEPT ![a].at = IF unlooked THEN after + 1 ELSE after,
                               ![a].seen = @ \cup {<<s, file[s]>>},
                               ![a].listed = @ \cup (IF unlooked THEN {s[2]} ELSE {}),
                               ![a].untold = @ \cup (IF unlooked THEN {<<s, file[s]>>} ELSE {})]
       /\ UNCHANGED <<file, now, recents, headers>>

(* Another source cannot be read: the loader's error is the answer and     *)
(* nothing is kept.                                                        *)
FailLoad(a) ==
    /\ InLoader(a, "read") /\ ~PassedOver(Step(a).src)
    /\ load' = [load EXCEPT ![a] = [Idle EXCEPT !.st = "failed", !.provider = load[a].provider]]
    /\ UNCHANGED <<file, now, recents, headers>>

-----------------------------------------------------------------------------
(* A rollout whose header could not be read, at a version no older than    *)
(* when the list was asked for, by this load or by one whose answer is     *)
(* remembered for that version.                                            *)
Untold(l, f) == \E v \in l.untold : v[1] = <<"codex", f>> /\ v[2] >= l.from[v[1]]

(* A list of recent sessions rests on no version of a source that was out  *)
(* of date when the list was asked for, whether it was read or found       *)
(* unreadable, and shows no subagent that could be told by then, unless    *)
(* its header could not be read.  The one exception is a result served     *)
(* within REDISCOVERY_INTERVAL of its load, and only for a source that the *)
(* loader reads before it tracks it, or for which it had no stamp left.    *)
RecentsAreCurrent ==
    \A a \in Actors : load[a].st = "loaded" =>
      LET l == load[a]
          excused(s) == l.hit /\ l.age < Rediscovery /\
                          (s \in TrackedLate \/ \A t \in l.tracked : t[1] # s)
      IN /\ \A v \in l.seen : v[2] >= l.from[v[1]] \/ excused(v[1])
         /\ \A f \in l.listed \cap Subagents :
              l.from[<<"codex", f>>] = 0 \/ Untold(l, f) \/ excused(<<"codex", f>>)
=============================================================================
