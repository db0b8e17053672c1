--------------------------- MODULE WhiteboardBoard ---------------------------
(***************************************************************************)
(* What the whiteboard promises its publishers: a sequence of at most      *)
(* MaxEntries posts, oldest first, on which each request takes effect at   *)
(* most once and at one moment, on the posts as they are at that moment.   *)
(* A post leaves only because MaxEntries newer ones follow it or because   *)
(* its input tab is removed; rewriting an input keeps its place.           *)
(***************************************************************************)
EXTENDS Naturals, Sequences

CONSTANTS MaxEntries,
          Initial,   \* the boards that may be found
          Requests   \* what may be asked: [id, op, folder]

VARIABLES
    posts,  \* the entries of whiteboard.md: [id, folder, text]
    asked,  \* the requests made
    done    \* the requests that have taken effect

\* t is what remains of s when the oldest entries beyond MaxEntries are cut.
CutTo(s, t) ==
    \E k \in 0..Len(s) : /\ t = SubSeq(s, k + 1, Len(s))
                         /\ k = 0 \/ Len(t) = MaxEntries
                         /\ Len(t) <= MaxEntries

Publish(q) == CutTo(Append(posts, [id |-> q.id, folder |-> q.folder, text |-> q.id]), posts')

Rewrite(q) ==
    \E i \in DOMAIN posts : /\ posts[i].folder = q.folder
                            /\ CutTo([posts EXCEPT ![i].text = q.id], posts')

Remove(q) ==
    \E i \in DOMAIN posts :
        /\ posts[i].folder = q.folder
        /\ CutTo(SubSeq(posts, 1, i - 1) \o SubSeq(posts, i + 1, Len(posts)), posts')

\* A publisher may clean the board without adding to it.
Prune == CutTo(posts, posts') /\ UNCHANGED <<asked, done>>

Ask(q) ==
    /\ q \notin asked
    /\ asked' = asked \cup {q}
    /\ UNCHANGED <<posts, done>>

Apply(q) ==
    /\ q \in asked \ done
    /\ done' = done \cup {q}
    /\ \/ q.op \in {"publish", "drop"} /\ Publish(q)
       \/ q.op = "replace" /\ Rewrite(q)
       \/ q.op = "remove" /\ Remove(q)
    /\ UNCHANGED asked

Init == posts \in Initial /\ asked = {} /\ done = {}

Next == Prune \/ \E q \in Requests : Ask(q) \/ Apply(q)

Spec == Init /\ [][Next]_<<posts, asked, done>>
=============================================================================
