---------------------------- MODULE ResponseLog -----------------------------
(***************************************************************************)
(* A Codex rollout as native/hub/src/actors/whiteboard.rs reads it for the *)
(* answers of a session: records appended by Codex, the last of them       *)
(* perhaps half written.  A read looks at a tail of the file and widens it *)
(* until it has answers enough.                                            *)
(*                                                                         *)
(* A record takes two units of the file and a half-written one takes one,  *)
(* so a tail can begin within a record.  An answer's text is the number of *)
(* the turn it answers; Blank is a text of white space or no text at all.  *)
(***************************************************************************)
EXTENDS Naturals, Sequences, SequencesExt

CONSTANTS Turns        \* numbers of turns, from 1

Blank == 0
NoTurn == 0            \* an empty turn id

Kinds == {"started", "final", "complete", "aborted", "other", "huge"}
Records == [kind : Kinds, turn : Nat, text : Nat]
Record(k, t, x) == [kind |-> k, turn |-> t, text |-> x]
Other == Record("other", NoTurn, Blank)   \* any other record, or one that does not parse
Huge == Record("huge", NoTurn, Blank)     \* longer than MAX_RECORD_BYTES

(* What Codex appends (external): a turn starts, gives its final answer and *)
(* completes, with the answer repeated in the completion or not, or it is   *)
(* aborted or left; a completion may be written twice in a row, as in the   *)
(* test completed_answers_only_newest_first_without_duplicates.             *)
Continuations(records) ==
    LET turns == {records[i].turn : i \in {j \in DOMAIN records : records[j].kind = "started"}}
        turn == CHOOSE t \in turns \cup {NoTurn} : \A u \in turns : u <= t
        open == \E i \in DOMAIN records :
                  /\ records[i].kind = "started" /\ records[i].turn = turn
                  /\ \A j \in i + 1 .. Len(records) : records[j].kind \notin {"complete", "aborted"}
    IN {Other, Huge}
       \cup {Record("started", t, Blank) : t \in {turn + 1} \cap Turns}
       \cup {r \in {Record("final", NoTurn, turn), Record("final", NoTurn, Blank),
                    Record("complete", turn, turn), Record("complete", turn, Blank),
                    Record("aborted", NoTurn, Blank)} : open}
       \cup {records[i] : i \in {j \in {Len(records)} \cap DOMAIN records : records[j].kind = "complete"}}

(* A log that Codex has written. *)
Written(records) ==
    \A i \in DOMAIN records : records[i] \in Continuations(SubSeq(records, 1, i - 1))

Size(log) == 2 * Len(log.records) + (IF log.partial THEN 1 ELSE 0)

(* The log as it was when it had n units. *)
Upto(log, n) == [records |-> SubSeq(log.records, 1, n \div 2), partial |-> n % 2 = 1]

-----------------------------------------------------------------------------
(* read_response_window, the effect of one record: the last limit answers  *)
(* are kept, a turn that is among them is not taken twice.  pending is the *)
(* set of the final answer that waits for its turn to complete, if any.    *)
Scan(limit, st, r) ==
    CASE r.kind = "started" -> [st EXCEPT !.pending = {}, !.turn = r.turn]
      [] r.kind = "final" -> [st EXCEPT !.pending = {[turn |-> st.turn, text |-> r.text]}]
      [] r.kind = "complete" ->
           LET candidates ==
                 IF r.text # Blank THEN {[turn |-> r.turn, text |-> r.text]}
                 ELSE {p \in st.pending : p.turn \in {NoTurn, r.turn}}
               known(a) == a.turn # NoTurn /\ \E i \in DOMAIN st.responses :
                                                 st.responses[i].turn = a.turn
               new == {a \in candidates : a.text # Blank /\ ~known(a)}
               all == IF new = {} THEN st.responses
                      ELSE Append(st.responses, CHOOSE a \in new : TRUE)
           IN [st EXCEPT !.pending = {}, !.responses = IF Len(all) > limit THEN Tail(all) ELSE all]
      [] r.kind = "aborted" -> [st EXCEPT !.pending = {}]
      [] OTHER -> st

(* read_response_window, the effect of some records in turn: the state     *)
(* after the last of them, as the one element of a set.                    *)
Unread == [responses |-> <<>>, pending |-> {}, turn |-> NoTurn]
Scanned(limit, lines) ==
    FoldLeft(LAMBDA states, r : {Scan(limit, st, r) : st \in states}, {Unread}, lines)

(* read_response_window: the tail's first record is dropped, whole or not, *)
(* and the half-written last one is not looked at.  The result, as the one *)
(* element of a set.                                                       *)
Window(log, limit, tail) ==
    LET start == IF Size(log) > tail THEN Size(log) - tail ELSE 0
        lines == SubSeq(log.records, IF start > 0 THEN start \div 2 + 2 ELSE 1,
                        Len(log.records))
    IN {[failed |-> Huge \in ToSet(lines),
         texts |-> Reverse([i \in DOMAIN end.responses |-> end.responses[i].text]),
         bounded |-> start > 0] : end \in Scanned(limit, lines)}

-----------------------------------------------------------------------------
(* The reference: what the whole log says, without windows or limits. *)

(* The text with which record i completes its turn. *)
TextOf(records, i) ==
    LET quiet(from) == \A j \in from + 1 .. i - 1 : records[j].kind \in {"other", "huge"}
        finals == {j \in 1 .. i - 1 : records[j].kind = "final" /\ quiet(j)}
    IN IF records[i].text # Blank THEN records[i].text
       ELSE IF finals # {} THEN records[CHOOSE j \in finals : TRUE].text ELSE Blank

(* The completions that answer a turn, each turn's first. *)
Answering(records) ==
    {i \in DOMAIN records :
       /\ records[i].kind = "complete" /\ TextOf(records, i) # Blank
       /\ \A j \in 1 .. i - 1 : records[j].kind = "complete" /\ records[j].turn = records[i].turn
            => TextOf(records, j) = Blank}

(* texts are those of the latest answers, newest first and none left out   *)
(* between; they are all there are if the log was read whole and they are  *)
(* fewer than limit.                                                       *)
LatestAnswers(records, limit, texts, whole) ==
    LET answers == Answering(records) IN
    \E order \in [DOMAIN texts -> answers] :
      /\ \A i \in DOMAIN texts :
           /\ texts[i] = TextOf(records, order[i])
           /\ \A a \in answers : a > order[i] <=> \E j \in 1 .. i - 1 : a = order[j]
      /\ whole /\ Len(texts) < limit =>
           \A a \in answers : \E j \in DOMAIN texts : a = order[j]
=============================================================================
