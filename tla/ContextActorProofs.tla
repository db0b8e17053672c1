------------------------- MODULE ContextActorProofs -------------------------
(***************************************************************************)
(* Proofs about ContextActor, for every set of files, homes, lists, resets *)
(* and signal types and any number of signals.                             *)
(***************************************************************************)
EXTENDS ContextActor, TLAPS

(* What the handlers rely on about the signals in flight: a signal carries *)
(* a payload of its own type, and a save that is under way was parsed.     *)
SignalsOK ==
    /\ \A i \in DOMAIN sent : /\ sent[i].arg \in ArgsOf(sent[i].type)
                              /\ sent[i].reply \in RepliesOf(sent[i].type)
    /\ op # 0 => /\ sent[op].type = "SaveConfig" => sent[op].arg \in Contents
                 /\ sent[op].type \notin {"LoadCodexAccounts", "LoadMuseAccounts",
                                          "LoadZcodeAccounts", "RefreshRecent"}

TypeInv == TypeOK /\ SignalsOK

-----------------------------------------------------------------------------
(* The helpers keep their variables in their types. *)

(* set_sessions_markdown_path leaves well-typed values. *)
LEMMA SetPathType ==
    ASSUME TypeOK, NEW p \in Paths, SetPath(p)
    PROVE  /\ path' \in Paths
           /\ generation' \in Nat
           /\ shown' \in [Kinds -> Paths \cup {NoData}]
           /\ manualReset' \in ResetOrNone
           /\ shownReset' \in ResetOrNone
           /\ resetRev' \in Nat
  BY DEF TypeOK, SetPath, GenAfter, ShownAfter, ResetAfter, ResetOrNone

(* So does starting refreshes. *)
LEMMA StartType ==
    ASSUME TypeOK, NEW ks \in SUBSET Kinds, Start(ks),
           generation' \in Nat, path' \in Paths, resetRev' \in Nat
    PROVE  /\ refreshing' \in [Kinds -> BOOLEAN]
           /\ codexBusy' \in BOOLEAN
           /\ task' \in [Kinds -> Task \cup {NoTask}]
  <1>1. refreshing' \in [Kinds -> BOOLEAN] /\ codexBusy' \in BOOLEAN
    BY DEF TypeOK, Start
  <1>2. [gen |-> generation', path |-> path', rev |-> resetRev',
         phase |-> "running", ok |-> FALSE, reset |-> NoReset] \in Task
    BY DEF Task, ResetOrNone
  <1>3. task' \in [Kinds -> Task \cup {NoTask}]
    BY <1>2 DEF TypeOK, Start
  <1> QED BY <1>1, <1>3

(* Answering requests keeps the answers sequences of Booleans. *)
LEMMA FinishType ==
    ASSUME TypeOK, NEW ids, NEW ok \in BOOLEAN
    PROVE  Finish(ids, ok) \in [Ids -> Seq(BOOLEAN)]
  <1>1. \A i \in Ids : answers[i] \in Seq(BOOLEAN)
    BY DEF TypeOK
  <1>2. \A i \in Ids : Append(answers[i], ok) \in Seq(BOOLEAN)
    BY <1>1
  <1> QED BY <1>1, <1>2 DEF Finish

(* The list of requests that wait after a path change. *)
LEMMA WaitingType ==
    ASSUME TypeOK, NEW p \in Paths
    PROVE  WaitingAfter(p) \in [Kinds -> SUBSET Ids]
  BY DEF TypeOK, WaitingAfter

(* A queued signal is one that was sent. *)
LEMMA PendingType ==
    ASSUME TypeOK, NEW i \in pending
    PROVE  /\ i \in DOMAIN sent /\ i \in Ids
           /\ sent[i] \in Message /\ sent[i].path \in Paths
  <1>1. sent \in Seq(Message) /\ Len(sent) \in 0..MaxSignals /\ i \in DOMAIN sent
    BY DEF TypeOK
  <1>2. i \in 1..Len(sent) /\ sent[i] \in Message
    BY <1>1
  <1>3. i \in Ids
    BY <1>1, <1>2, ConstantsAssumption DEF Ids
  <1>4. sent[i].path \in Paths
    BY <1>2 DEF Message
  <1> QED BY <1>1, <1>2, <1>3, <1>4

(* Reading an account store leaves a well-typed metadata file. *)
LEMMA ReadType ==
    ASSUME TypeOK, NEW h \in Homes, NEW ok \in BOOLEAN
    PROVE  /\ EffectiveReset(h) \in ResetOrNone
           /\ ResetsAfterRead(h, ok) \subseteq [Homes -> ResetOrNone]
  BY DEF TypeOK, EffectiveReset, ResetsAfterRead, ResetOrNone

(* The Begin half of an awaiting handler. *)
LEMMA OccupyType ==
    ASSUME TypeOK, NEW i \in pending, Occupy(i), UNCHANGED sent
    PROVE  /\ path' \in Paths
           /\ generation' \in Nat
           /\ shown' \in [Kinds -> Paths \cup {NoData}]
           /\ manualReset' \in ResetOrNone
           /\ shownReset' \in ResetOrNone
           /\ resetRev' \in Nat
           /\ waiting' \in [Kinds -> SUBSET Ids]
           /\ answers' \in [Ids -> Seq(BOOLEAN)]
           /\ op' \in DOMAIN sent'
           /\ opChanged' \in BOOLEAN
  <1>1. sent[i].path \in Paths /\ i \in DOMAIN sent
    BY PendingType
  <1>2. SetPath(sent[i].path) /\ waiting' = WaitingAfter(sent[i].path)
        /\ answers' = Finish(Abandoned(sent[i].path), FALSE)
        /\ op' = i /\ opChanged' = Changed(sent[i].path)
    BY DEF Occupy
  <1>3. answers' \in [Ids -> Seq(BOOLEAN)]
    BY <1>2, FinishType
  <1>4. waiting' \in [Kinds -> SUBSET Ids]
    BY <1>1, <1>2, WaitingType
  <1>5. opChanged' \in BOOLEAN
    BY <1>2 DEF Changed
  <1> QED BY <1>1, <1>2, <1>3, <1>4, <1>5, SetPathType

(* Its End half. *)
LEMMA ReleaseType ==
    ASSUME TypeOK, NEW ok \in BOOLEAN, Release(ok)
    PROVE  /\ sent' = sent /\ pending' = pending
           /\ op \in DOMAIN sent /\ op' = 0 /\ opChanged' \in BOOLEAN
           /\ answers' \in [Ids -> Seq(BOOLEAN)]
           /\ UNCHANGED <<generation, path, waiting, initialized, elapsed>>
  BY FinishType DEF Release, TypeOK

(* What load_codex_accounts(None, 0) may start. *)
LEMMA CodexIfType ==
    ASSUME NEW c
    PROVE  CodexIf(c) \in SUBSET Kinds
  BY DEF CodexIf, Kinds, AccountKinds

-----------------------------------------------------------------------------
(* Type correctness, one lemma per kind of step. *)

(* The UI sends a signal. *)
LEMMA UiSendsType ==
    ASSUME TypeInv, NEW t \in SignalTypes, UiSends(t)
    PROVE  TypeInv'
  <1> USE DEF TypeInv
  <1>1. PICK p \in PathsOf(t), a \in ArgsOf(t), r \in RepliesOf(t) :
          sent' = Append(sent, [type |-> t, path |-> p, arg |-> a, reply |-> r])
    BY DEF UiSends
  <1> DEFINE m == [type |-> t, path |-> p, arg |-> a, reply |-> r]
  <1>2. p \in Paths /\ a \in Payloads /\ r \in BOOLEAN /\ t \in AllSignals
    BY ConstantsAssumption DEF PathsOf, ArgsOf, RepliesOf, Payloads, AccountOps
  <1>3. m \in Message
    BY <1>2 DEF Message
  <1>4. /\ sent \in Seq(Message) /\ Len(sent) \in 0..MaxSignals
        /\ Len(sent) < MaxSignals /\ MaxSignals \in Nat
        /\ pending \subseteq 1..Len(sent)
        /\ op \in {0} \cup 1..Len(sent)
    BY ConstantsAssumption DEF TypeOK, UiSends
  <1>5. /\ sent' \in Seq(Message)
        /\ Len(sent') = Len(sent) + 1
        /\ sent'[Len(sent) + 1] = m
        /\ \A i \in 1..Len(sent) : sent'[i] = sent[i]
    BY <1>1, <1>3, <1>4
  <1>6. DOMAIN sent' = 1..(Len(sent) + 1) /\ DOMAIN sent = 1..Len(sent)
    BY <1>4, <1>5
  <1>7. pending' \subseteq DOMAIN sent' /\ op' \in {0} \cup DOMAIN sent'
        /\ Len(sent') \in 0..MaxSignals
    <2>1. pending' = pending \cup {Len(sent) + 1} /\ op' = op
      BY DEF UiSends, actorVars, opVars
    <2>2. pending' \subseteq 1..(Len(sent) + 1)
      <3>1. \A j \in pending : j \in 1..Len(sent)
        BY <1>4
      <3>2. Len(sent) \in Nat
        BY <1>4
      <3>3. \A j \in pending' : j \in pending \/ j = Len(sent) + 1
        BY <2>1
      <3> QED BY <3>1, <3>2, <3>3
    <2>3. op' \in {0} \cup 1..(Len(sent) + 1)
      BY <2>1, <1>4
    <2>4. Len(sent') \in 0..MaxSignals
      BY <1>4, <1>5
    <2> QED BY <2>2, <2>3, <2>4, <1>6
  <1>8. TypeOK'
    BY <1>5, <1>7 DEF TypeOK, UiSends, actorVars, opVars, diskVars, refreshVars,
                      resetVars, configVars
  <1>9. \A i \in DOMAIN sent' : /\ sent'[i].arg \in ArgsOf(sent'[i].type)
                                /\ sent'[i].reply \in RepliesOf(sent'[i].type)
    <2> SUFFICES ASSUME NEW i \in DOMAIN sent'
                 PROVE  /\ sent'[i].arg \in ArgsOf(sent'[i].type)
                        /\ sent'[i].reply \in RepliesOf(sent'[i].type)
      OBVIOUS
    <2>1. CASE i = Len(sent) + 1
      <3>1. sent'[i] = m
        BY <2>1, <1>5
      <3>2. m.arg = a /\ m.type = t /\ m.reply = r
        OBVIOUS
      <3> QED BY <3>1, <3>2
    <2>2. CASE i \in 1..Len(sent)
      BY <2>2, <1>5, <1>6 DEF SignalsOK
    <2> QED BY <2>1, <2>2, <1>4, <1>6
  <1>10. SignalsOK'
    <2>1. op' = op /\ (op # 0 => sent'[op] = sent[op])
      BY <1>4, <1>5 DEF UiSends, actorVars, opVars
    <2> QED BY <2>1, <1>9 DEF SignalsOK
  <1> QED BY <1>8, <1>10

(* A refresh is started or joined. *)
LEMMA LoadAccountsType ==
    ASSUME TypeInv, NEW k \in AccountKinds, LoadAccounts(k)
    PROVE  TypeInv'
  <1> USE DEF TypeInv
  <1>1. PICK i \in pending : LoadAccounts(k)!(i)
    BY DEF LoadAccounts
  <1> DEFINE p == sent[i].path
  <1>2. i \in Ids /\ p \in Paths /\ k \in Kinds
    BY PendingType DEF Kinds
  <1>3. Receive(LoadSignal[k], i)
    BY <1>1
  <1>4. CASE k = "codex" /\ codexBusy /\ ~refreshing[k]
    <2>1. answers' = Finish({i}, FALSE) /\ UNCHANGED actorVars
      BY <1>1, <1>4
    <2>2. answers' \in [Ids -> Seq(BOOLEAN)]
      BY <2>1, FinishType
    <2> QED BY <2>1, <2>2, <1>3 DEF TypeOK, SignalsOK, Receive, actorVars, opVars,
                 diskVars, refreshVars, resetVars, configVars
  <1>5. CASE ~(k = "codex" /\ codexBusy /\ ~refreshing[k])
    <2>1. /\ SetPath(p)
          /\ answers' = Finish(Abandoned(p), FALSE)
          /\ waiting' = [WaitingAfter(p) EXCEPT ![k] = @ \cup {i}]
          /\ Start(IF refreshing[k] THEN {} ELSE {k})
          /\ UNCHANGED <<configVars, opVars>>
      BY <1>1, <1>5
    <2>2. answers' \in [Ids -> Seq(BOOLEAN)]
      BY <2>1, FinishType
    <2>3. waiting' \in [Kinds -> SUBSET Ids]
      BY <2>1, <1>2, WaitingType
    <2>4. (IF refreshing[k] THEN {} ELSE {k}) \in SUBSET Kinds
      BY <1>2
    <2> QED BY <2>1, <2>2, <2>3, <2>4, <1>2, <1>3, SetPathType, StartType
            DEF TypeOK, SignalsOK, Receive, opVars, diskVars, configVars
  <1> QED BY <1>4, <1>5

(* Recent sessions are refreshed. *)
LEMMA RefreshRecentType ==
    ASSUME TypeInv, RefreshRecent
    PROVE  TypeInv'
  <1> USE DEF TypeInv
  <1>1. PICK i \in pending : RefreshRecent!(i)
    BY DEF RefreshRecent
  <1> DEFINE p == sent[i].path
  <1>2. i \in Ids /\ p \in Paths /\ "recent" \in Kinds
    BY PendingType DEF Kinds
  <1>3. Receive("RefreshRecent", i)
    BY <1>1
  <1>4. CASE busy \/ ~initialized
    <2>1. answers' = Finish({i}, TRUE) /\ UNCHANGED actorVars
      BY <1>1, <1>4
    <2>2. answers' \in [Ids -> Seq(BOOLEAN)]
      BY <2>1, FinishType
    <2> QED BY <2>1, <2>2, <1>3 DEF TypeOK, SignalsOK, Receive, actorVars, opVars,
                 diskVars, refreshVars, resetVars, configVars
  <1>5. CASE ~(busy \/ ~initialized)
    <2> DEFINE ks == CodexIf(Changed(p)) \cup
                     (IF refreshing["recent"] THEN {} ELSE {"recent"})
    <2>1. /\ SetPath(p)
          /\ answers' = Finish(Abandoned(p), FALSE)
          /\ waiting' = [WaitingAfter(p) EXCEPT
                           !["recent"] = @ \cup (IF sent[i].reply THEN {i} ELSE {})]
          /\ Start(ks)
          /\ UNCHANGED <<configVars, opVars>>
      BY <1>1, <1>5
    <2>2. answers' \in [Ids -> Seq(BOOLEAN)]
      BY <2>1, FinishType
    <2>3. waiting' \in [Kinds -> SUBSET Ids]
      BY <2>1, <1>2, WaitingType
    <2>4. ks \in SUBSET Kinds
      BY <1>2, CodexIfType
    <2> HIDE DEF ks
    <2> QED BY <2>1, <2>2, <2>3, <2>4, <1>2, <1>3, SetPathType, StartType
            DEF TypeOK, SignalsOK, Receive, opVars, diskVars, configVars
  <1> QED BY <1>4, <1>5

(* A background refresh does its reading; its task stays a task of the     *)
(* same path and generation.                                               *)
LEMMA RunRefreshTask ==
    ASSUME TypeInv, NEW k \in Kinds, RunRefresh(k)
    PROVE  /\ task[k] \in Task /\ HomeOf[task[k].path] \in Homes
           /\ task'[k] \in Task
           /\ task'[k].gen = task[k].gen /\ task'[k].path = task[k].path
           /\ task'[k].rev = task[k].rev /\ task'[k].phase = "done"
           /\ \E t \in Task : task' = [task EXCEPT ![k] = t]
           /\ \E ok \in BOOLEAN :
                /\ task'[k].ok = ok
                /\ ok /\ k = "codex" =>
                      task'[k].reset = EffectiveReset(HomeOf[task[k].path])
                /\ IF k = "codex"
                   THEN diskReset' \in ResetsAfterRead(HomeOf[task[k].path], ok)
                   ELSE UNCHANGED diskReset
  <1> USE DEF TypeInv
  <1> DEFINE h == HomeOf[task[k].path]
  <1>1. task[k] \in Task
    BY DEF TypeOK, RunRefresh
  <1>2. h \in Homes
    BY <1>1, ConstantsAssumption DEF Task
  <1>3. PICK ok \in BOOLEAN :
          /\ task' = [task EXCEPT ![k].phase = "done", ![k].ok = ok,
                                  ![k].reset = IF ok /\ k = "codex"
                                               THEN EffectiveReset(h) ELSE NoReset]
          /\ IF k = "codex" THEN diskReset' \in ResetsAfterRead(h, ok)
                            ELSE UNCHANGED diskReset
    BY DEF RunRefresh
  <1> DEFINE r == IF ok /\ k = "codex" THEN EffectiveReset(h) ELSE NoReset
             t == [task[k] EXCEPT !.phase = "done", !.ok = ok, !.reset = r]
  <1>4. r \in ResetOrNone
    BY <1>2, ReadType DEF ResetOrNone
  <1>5. task' = [task EXCEPT ![k] = t]
    BY <1>3 DEF TypeOK
  <1>6. /\ t \in Task /\ t.gen = task[k].gen /\ t.path = task[k].path
        /\ t.rev = task[k].rev /\ t.phase = "done" /\ t.ok = ok /\ t.reset = r
    <2> HIDE DEF r
    <2> QED BY <1>1, <1>4 DEF Task
  <1>7. task'[k] = t
    BY <1>5 DEF TypeOK
  <1> HIDE DEF t
  <1> QED BY <1>1, <1>2, <1>3, <1>5, <1>6, <1>7

(* So its reading keeps the types. *)
LEMMA RunRefreshType ==
    ASSUME TypeInv, NEW k \in Kinds, RunRefresh(k)
    PROVE  TypeInv'
  <1> USE DEF TypeInv
  <1>1. task' \in [Kinds -> Task \cup {NoTask}]
    BY RunRefreshTask DEF TypeOK
  <1>2. diskReset' \in [Homes -> ResetOrNone]
    BY RunRefreshTask, ReadType DEF TypeOK
  <1> QED BY <1>1, <1>2 DEF RunRefresh, TypeOK, SignalsOK, opVars, resetVars, configVars

(* A finished refresh is restarted or applied. *)
LEMMA CompleteType ==
    ASSUME TypeInv, NEW k \in Kinds, RestartRefresh(k) \/ ApplyRefresh(k)
    PROVE  TypeInv'
  <1> USE DEF TypeInv
  <1>1. CASE RestartRefresh(k)
    <2>1. UNCHANGED <<sent, pending, diskVars>> /\
          UNCHANGED <<generation, path, waiting, shown, resetVars, configVars, opVars,
                      answers>>
      BY <1>1 DEF RestartRefresh, Completed
    <2>2. /\ refreshing' \in [Kinds -> BOOLEAN]
          /\ codexBusy' \in BOOLEAN
          /\ task' \in [Kinds -> Task \cup {NoTask}]
      <3>1. CASE k = "recent" /\ (busy \/ ~initialized)
        BY <1>1, <3>1 DEF RestartRefresh, TypeOK
      <3>2. CASE ~(k = "recent" /\ (busy \/ ~initialized))
        <4>1. Start({k})
          BY <1>1, <3>2 DEF RestartRefresh
        <4>2. generation' \in Nat /\ path' \in Paths /\ resetRev' \in Nat
          BY <2>1 DEF TypeOK, resetVars
        <4> QED BY <4>1, <4>2, StartType
      <3> QED BY <3>1, <3>2
    <2> QED BY <2>1, <2>2 DEF TypeOK, SignalsOK, diskVars, resetVars, configVars, opVars
  <1>2. CASE ApplyRefresh(k)
    <2>1. task[k] \in Task
      BY <1>2 DEF TypeOK, ApplyRefresh, Completed
    <2>2. task[k].ok \in BOOLEAN /\ task[k].path \in Paths /\ task[k].reset \in ResetOrNone
      BY <2>1 DEF Task
    <2>3. answers' \in [Ids -> Seq(BOOLEAN)]
      BY <1>2, <2>2, FinishType DEF ApplyRefresh
    <2>4. shownReset' \in ResetOrNone /\ manualReset' \in ResetOrNone
      BY <1>2, <2>2 DEF ApplyRefresh, ResetOnCompletion, TypeOK
    <2>5. /\ refreshing' \in [Kinds -> BOOLEAN]
          /\ codexBusy' \in BOOLEAN
          /\ task' \in [Kinds -> Task \cup {NoTask}]
          /\ shown' \in [Kinds -> Paths \cup {NoData}]
          /\ waiting' \in [Kinds -> SUBSET Ids]
      BY <1>2, <2>2 DEF ApplyRefresh, TypeOK
    <2> QED BY <1>2, <2>3, <2>4, <2>5 DEF ApplyRefresh, Completed, TypeOK, SignalsOK,
                 diskVars, configVars, opVars
  <1> QED BY <1>1, <1>2

(* A handler that awaits begins. *)
LEMMA BeginType ==
    ASSUME TypeInv,
           \/ BeginInitApp \/ BeginLoadConfig \/ BeginSaveConfig
           \/ \E t \in ResetOps : BeginReset(t)
           \/ \E t \in AccountOps : BeginAccountOp(t)
    PROVE  TypeInv'
  <1> USE DEF TypeInv
  <1>1. ASSUME NEW i \in pending, NEW t \in AllSignals, Receive(t, i), Occupy(i),
               initialized' \in BOOLEAN, busy' \in BOOLEAN, lastError' \in BOOLEAN,
               items' \in Contents \cup {Torn}, codexBusy' \in BOOLEAN,
               UNCHANGED <<refreshing, task>>,
               t \notin {"LoadCodexAccounts", "LoadMuseAccounts", "LoadZcodeAccounts",
                         "RefreshRecent"},
               t = "SaveConfig" => sent[i].arg \in Contents
        PROVE  TypeInv'
    <2>1. /\ pending' = pending \ {i} /\ sent[i].type = t
          /\ UNCHANGED <<sent, md, diskReset, elapsed>>
      BY <1>1 DEF Receive, diskVars
    <2>2. TypeOK'
      BY <1>1, <2>1, OccupyType DEF TypeOK
    <2>3. op' = i
      BY <1>1 DEF Occupy
    <2> QED BY <1>1, <2>1, <2>2, <2>3 DEF SignalsOK
  <1>2. ASSUME NEW i \in pending, NEW t \in AllSignals, Receive(t, i),
               NEW ok \in BOOLEAN, answers' = Finish({i}, ok), UNCHANGED actorVars
        PROVE  TypeInv'
    <2>1. answers' \in [Ids -> Seq(BOOLEAN)]
      BY <1>2, FinishType
    <2> QED BY <1>2, <2>1 DEF TypeOK, SignalsOK, Receive, actorVars, opVars,
                 diskVars, refreshVars, resetVars, configVars
  <1>3. CASE BeginInitApp
    <2>1. PICK i \in pending : BeginInitApp!(i)
      BY <1>3 DEF BeginInitApp
    <2> QED BY <2>1, <1>1 DEF AllSignals, TypeOK, refreshVars
  <1>4. CASE BeginLoadConfig
    <2>1. PICK i \in pending : BeginLoadConfig!(i)
      BY <1>4 DEF BeginLoadConfig
    <2>2. CASE busy \/ ~initialized
      BY <2>1, <2>2, <1>2 DEF AllSignals
    <2>3. CASE ~(busy \/ ~initialized)
      BY <2>1, <2>3, <1>1 DEF AllSignals, TypeOK, refreshVars
    <2> QED BY <2>2, <2>3
  <1>5. CASE BeginSaveConfig
    <2>1. PICK i \in pending : BeginSaveConfig!(i)
      BY <1>5 DEF BeginSaveConfig
    <2>2. i \in DOMAIN sent /\ sent[i].type = "SaveConfig"
      BY <2>1, PendingType DEF Receive
    <2>3. sent[i].arg \in Contents \cup {"malformed"}
      BY <2>2 DEF SignalsOK, ArgsOf, AccountOps
    <2>4. CASE sent[i].arg = "malformed"
      BY <2>1, <2>4, <1>2 DEF AllSignals
    <2>5. CASE sent[i].arg # "malformed"
      BY <2>1, <2>3, <2>5, <1>1 DEF AllSignals, TypeOK, refreshVars
    <2> QED BY <2>4, <2>5
  <1>6. ASSUME NEW t \in ResetOps, BeginReset(t)
        PROVE  TypeInv'
    <2>1. PICK i \in pending : BeginReset(t)!(i)
      BY <1>6 DEF BeginReset
    <2> QED BY <2>1, <1>1 DEF AllSignals, ResetOps, TypeOK, refreshVars, configVars
  <1>7. ASSUME NEW t \in AccountOps, BeginAccountOp(t)
        PROVE  TypeInv'
    <2>1. PICK i \in pending : BeginAccountOp(t)!(i)
      BY <1>7 DEF BeginAccountOp
    <2>2. CASE Refused(i)
      BY <2>1, <2>2, <1>2 DEF AllSignals, AccountOps
    <2>3. CASE ~Refused(i)
      BY <2>1, <2>3, <1>1 DEF AllSignals, AccountOps, TypeOK, configVars
    <2> QED BY <2>2, <2>3
  <1> QED BY <1>3, <1>4, <1>5, <1>6, <1>7

(* The awaited work returns and the handler ends. *)
LEMMA EndType ==
    ASSUME TypeInv, NEW ok \in BOOLEAN,
           EndLoad(ok) \/ EndSaveConfig(ok) \/ EndReset(ok) \/ EndAccountOp(ok)
    PROVE  TypeInv'
  <1> USE DEF TypeInv
  <1>1. Release(ok) /\ op # 0
    BY DEF EndLoad, EndSaveConfig, EndReset, EndAccountOp
  <1>2. /\ sent' = sent /\ pending' = pending
        /\ op \in DOMAIN sent /\ op' = 0 /\ opChanged' \in BOOLEAN
        /\ answers' \in [Ids -> Seq(BOOLEAN)]
        /\ UNCHANGED <<generation, path, waiting, initialized, elapsed>>
    BY <1>1, ReleaseType
  <1>3. SignalsOK'
    BY <1>2 DEF SignalsOK
  <1>4. path \in Paths /\ HomeOf[path] \in Homes
    BY ConstantsAssumption DEF TypeOK
  <1>5. CASE EndLoad(ok)
    <2>1. items' \in Contents \cup {Torn}
      BY <1>4, <1>5, ConstantsAssumption DEF EndLoad, ReadList, TypeOK
    <2>2. Start(CodexIf(TRUE)) /\ generation' \in Nat /\ path' \in Paths /\ resetRev' \in Nat
      BY <1>2, <1>5 DEF EndLoad, TypeOK, resetVars
    <2>3. /\ refreshing' \in [Kinds -> BOOLEAN]
          /\ codexBusy' \in BOOLEAN
          /\ task' \in [Kinds -> Task \cup {NoTask}]
      BY <2>2, CodexIfType, StartType
    <2> QED BY <1>2, <1>3, <1>5, <2>1, <2>3 DEF EndLoad, TypeOK, resetVars
  <1>6. CASE EndSaveConfig(ok)
    <2>1. sent[op].arg \in Contents
      BY <1>1, <1>6 DEF EndSaveConfig, SignalsOK
    <2>2. md' \in [Paths -> Contents \cup {Torn}]
      BY <2>1, <1>4, <1>6 DEF EndSaveConfig, WriteList, TypeOK
    <2>3. Start(CodexIf(opChanged)) /\ generation' \in Nat /\ path' \in Paths
          /\ resetRev' \in Nat
      BY <1>2, <1>6 DEF EndSaveConfig, TypeOK, resetVars
    <2>4. /\ refreshing' \in [Kinds -> BOOLEAN]
          /\ codexBusy' \in BOOLEAN
          /\ task' \in [Kinds -> Task \cup {NoTask}]
      BY <2>3, CodexIfType, StartType
    <2> QED BY <1>2, <1>3, <1>6, <2>2, <2>4 DEF EndSaveConfig, TypeOK, resetVars
  <1>7. CASE EndReset(ok)
    <2>1. ResetValue(op) \in ResetOrNone
      <3>1. sent[op].type = "SetCodexManualReset" => sent[op].arg \in Resets
        BY <1>2 DEF SignalsOK, ArgsOf, AccountOps
      <3> QED BY <3>1 DEF ResetValue, ResetOrNone
    <2>2. diskReset' \in [Homes -> ResetOrNone]
      <3>1. diskReset' = diskReset \/ diskReset' = [diskReset EXCEPT ![HomeOf[path]] = ResetValue(op)]
        BY <1>7 DEF EndReset
      <3> QED BY <2>1, <3>1 DEF TypeOK
    <2>3. /\ shownReset' = shownReset \/ shownReset' = ResetValue(op)
          /\ manualReset' = manualReset \/ manualReset' = ResetValue(op)
          /\ resetRev' = resetRev \/ resetRev' = resetRev + 1
      BY <1>7 DEF EndReset, resetVars
    <2>4. shownReset' \in ResetOrNone /\ manualReset' \in ResetOrNone
      BY <2>1, <2>3 DEF TypeOK
    <2>5. resetRev' \in Nat
      BY <2>3 DEF TypeOK
    <2> QED BY <1>2, <1>3, <1>7, <2>2, <2>4, <2>5 DEF EndReset, TypeOK, refreshVars
  <1>8. CASE EndAccountOp(ok)
    <2>1. diskReset' \in [Homes -> ResetOrNone] /\ shownReset' \in ResetOrNone
      BY <1>4, <1>8, ReadType DEF EndAccountOp, TypeOK
    <2>2. shown' \in [Kinds -> Paths \cup {NoData}]
      BY <1>4, <1>8 DEF EndAccountOp, TypeOK
    <2> QED BY <1>2, <1>3, <1>8, <2>1, <2>2 DEF EndAccountOp, TypeOK
  <1> QED BY <1>5, <1>6, <1>7, <1>8

(* Every step keeps the types. *)
LEMMA NextType ==
    ASSUME TypeInv, [Next]_vars
    PROVE  TypeInv'
  <1>1. CASE UNCHANGED vars
    BY <1>1 DEF TypeInv, TypeOK, SignalsOK, vars, actorVars, opVars, diskVars, refreshVars,
                resetVars, configVars
  <1>2. CASE TimePasses
    BY <1>2 DEF TimePasses, TypeInv, TypeOK, SignalsOK, actorVars, opVars, refreshVars,
                resetVars, configVars
  <1>3. CASE Next /\ ~TimePasses
    BY <1>3, UiSendsType, RunRefreshType, LoadAccountsType, RefreshRecentType, BeginType,
       EndType, CompleteType DEF Next, ActorStep, Handle, Resume, Complete
  <1> QED BY <1>1, <1>2, <1>3

(* The actor starts well typed. *)
LEMMA InitType ==
    ASSUME Init
    PROVE  TypeInv
  <1>1. sent = <<>> /\ sent \in Seq(Message) /\ Len(sent) = 0 /\ DOMAIN sent = {}
    BY DEF Init
  <1>2. answers \in [Ids -> Seq(BOOLEAN)]
    BY DEF Init
  <1>3. Len(sent) \in 0..MaxSignals /\ md \in [Paths -> Contents \cup {Torn}]
    BY <1>1, ConstantsAssumption DEF Init
  <1>4. /\ refreshing \in [Kinds -> BOOLEAN] /\ waiting \in [Kinds -> SUBSET Ids]
        /\ shown \in [Kinds -> Paths \cup {NoData}]
        /\ task \in [Kinds -> Task \cup {NoTask}]
    BY DEF Init
  <1>5. TypeOK
    BY <1>1, <1>2, <1>3, <1>4, ConstantsAssumption DEF Init, TypeOK, ResetOrNone
  <1> QED BY <1>1, <1>5 DEF Init, SignalsOK, TypeInv

(* Every reachable state of the actor, its tasks and the files is well     *)
(* typed, and no handler runs on a payload that is not of its own type     *)
(* (ContextActor of context.rs).                                           *)
THEOREM TypeCorrect == Spec => []TypeOK
  <1>1. Init => TypeInv
    BY InitType
  <1>2. TypeInv /\ [Next]_vars => TypeInv'
    BY NextType
  <1>3. TypeInv => TypeOK
    BY DEF TypeInv
  <1> QED BY <1>1, <1>2, <1>3, PTL DEF Spec

-----------------------------------------------------------------------------
(* The refresh protocol. *)

(* The inductive invariant.  Beyond the properties it proves it says that  *)
(* a task of the present generation is for the present path, and exactly   *)
(* when each busy flag is set.                                             *)
OpIs(T) == op # 0 /\ sent[op].type \in T
Selects(k) == task[k] # NoTask => /\ task[k].gen <= generation
                                  /\ task[k].gen = generation => task[k].path = path
Awaited(k) == /\ refreshing[k] <=> task[k] # NoTask
              /\ waiting[k] # {} => refreshing[k]
              /\ \A i \in waiting[k] : i \in DOMAIN sent /\ sent[i].path = path
Flags == /\ codexBusy <=> refreshing["codex"] \/ OpIs(AccountOps)
         /\ ~(refreshing["codex"] /\ OpIs(AccountOps))
         /\ busy <=> OpIs({"InitApp", "LoadConfig", "SaveConfig"})
         /\ refreshing["recent"] => initialized
RefreshInv == /\ \A k \in Kinds : Selects(k)
              /\ \A k \in Kinds : Awaited(k)
              /\ \A k \in Kinds : shown[k] \in {NoData, path}
              /\ Flags

(* set_sessions_markdown_path: what was under way for the old file can no  *)
(* longer be taken for the new one.                                        *)
LEMMA SetPathRefresh ==
    ASSUME TypeInv, RefreshInv, NEW p \in Paths, SetPath(p)
    PROVE  /\ path' = p /\ generation' \in Nat /\ resetRev' \in Nat
           /\ \A k \in Kinds : shown'[k] \in {NoData, path'}
           /\ \A k \in Kinds : task[k] # NoTask =>
                /\ task[k].gen <= generation'
                /\ task[k].gen = generation' => task[k].path = path'
           /\ \A k \in Kinds : WaitingAfter(p)[k] # {} => refreshing[k]
           /\ \A k \in Kinds : \A i \in WaitingAfter(p)[k] :
                i \in DOMAIN sent /\ sent[i].path = path'
  <1>1. path \in Paths /\ generation \in Nat /\ path' = p /\ generation' = GenAfter(p)
        /\ resetRev' \in Nat
    BY DEF TypeInv, TypeOK, SetPath
  <1>2. \A k \in Kinds : task[k] # NoTask => task[k].gen \in Nat
    BY DEF TypeInv, TypeOK, Task
  <1>3. CASE p = path
    BY <1>1, <1>3 DEF SetPath, GenAfter, ShownAfter, WaitingAfter, Changed, RefreshInv,
                      Selects, Awaited
  <1>4. CASE p # path
    <2>1. generation' = generation + 1 /\ shown' = [k \in Kinds |-> NoData]
          /\ WaitingAfter(p) = [k \in Kinds |-> {}]
      BY <1>1, <1>4 DEF SetPath, GenAfter, ShownAfter, WaitingAfter, Changed
    <2>2. \A k \in Kinds : task[k] # NoTask => task[k].gen < generation'
      BY <1>1, <1>2, <2>1 DEF RefreshInv, Selects
    <2> QED BY <1>1, <1>2, <2>1, <2>2
  <1> QED BY <1>3, <1>4

(* Starting refreshes: each new task is for the path the actor then has. *)
LEMMA StartRefresh ==
    ASSUME TypeInv, RefreshInv, NEW ks \in SUBSET Kinds, Start(ks),
           generation' \in Nat, path' \in Paths, resetRev' \in Nat,
           \A k \in Kinds : task[k] # NoTask =>
                /\ task[k].gen <= generation'
                /\ task[k].gen = generation' => task[k].path = path'
    PROVE  /\ \A k \in Kinds : Selects(k)'
           /\ \A k \in Kinds : refreshing'[k] <=> task'[k] # NoTask
           /\ \A k \in Kinds : refreshing'[k] <=> refreshing[k] \/ k \in ks
           /\ codexBusy' <=> codexBusy \/ "codex" \in ks
  <1> DEFINE t == [gen |-> generation', path |-> path', rev |-> resetRev',
                   phase |-> "running", ok |-> FALSE, reset |-> NoReset]
  <1>1. t # NoTask
    <2>1. t \in Task
      BY DEF Task, ResetOrNone
    <2> QED BY <2>1, NoTaskAssumption
  <1>2. \A k \in Kinds : task'[k] = IF k \in ks THEN t ELSE task[k]
    BY DEF Start
  <1>3. t.gen = generation' /\ t.path = path'
    OBVIOUS
  <1>4. \A k \in Kinds : refreshing'[k] <=> refreshing[k] \/ k \in ks
    BY DEF Start, TypeInv, TypeOK
  <1> HIDE DEF t
  <1>5. \A k \in Kinds : Selects(k)'
    BY <1>2, <1>3 DEF Selects
  <1>6. \A k \in Kinds : refreshing'[k] <=> task'[k] # NoTask
    BY <1>1, <1>2, <1>4 DEF RefreshInv, Awaited
  <1>7. codexBusy' <=> codexBusy \/ "codex" \in ks
    BY DEF Start
  <1> QED BY <1>4, <1>5, <1>6, <1>7

(* Steps of the UI, the clock and the tasks. *)
LEMMA EnvironmentRefresh ==
    ASSUME TypeInv, RefreshInv,
           \/ \E t \in SignalTypes : UiSends(t)
           \/ TimePasses
           \/ \E k \in Kinds : RunRefresh(k)
           \/ UNCHANGED vars
    PROVE  RefreshInv'
  <1> USE DEF TypeInv
  <1>1. ASSUME NEW t \in SignalTypes, UiSends(t)
        PROVE  RefreshInv'
    <2>1. PICK m : sent' = Append(sent, m)
      BY <1>1 DEF UiSends
    <2>2. sent \in Seq(Message) /\ op \in {0} \cup DOMAIN sent
      BY DEF TypeOK
    <2>3. \A i \in DOMAIN sent : i \in DOMAIN sent' /\ sent'[i] = sent[i]
      BY <2>1, <2>2
    <2>4. UNCHANGED <<task, generation, path, refreshing, waiting, shown, codexBusy, busy,
                      initialized, op>>
      BY <1>1 DEF UiSends, actorVars, opVars, refreshVars, resetVars, configVars
    <2>5. \A k \in Kinds : Selects(k)' /\ shown'[k] \in {NoData, path'}
      BY <2>4 DEF RefreshInv, Selects
    <2>6. \A k \in Kinds : Awaited(k)'
      BY <2>3, <2>4 DEF RefreshInv, Awaited
    <2>7. Flags'
      BY <2>2, <2>3, <2>4 DEF RefreshInv, Flags, OpIs
    <2> QED BY <2>5, <2>6, <2>7 DEF RefreshInv
  <1>2. CASE TimePasses \/ UNCHANGED vars
    <2>1. UNCHANGED <<task, generation, path, refreshing, waiting, shown, codexBusy, busy,
                      initialized, op, sent>>
      BY <1>2 DEF TimePasses, vars, actorVars, opVars, refreshVars, resetVars, configVars
    <2> QED BY <2>1 DEF RefreshInv, Selects, Awaited, Flags, OpIs
  <1>3. ASSUME NEW k \in Kinds, RunRefresh(k)
        PROVE  RefreshInv'
    <2>1. task[k] # NoTask
      BY <1>3 DEF RunRefresh
    <2>2. UNCHANGED <<generation, path, refreshing, waiting, shown, codexBusy, busy,
                      initialized, op, sent>>
      BY <1>3 DEF RunRefresh, opVars, configVars
    <2>3. /\ \A l \in Kinds \ {k} : task'[l] = task[l]
          /\ task'[k].gen = task[k].gen /\ task'[k].path = task[k].path
      BY <1>3, RunRefreshTask DEF TypeOK
    <2>4. task'[k] # NoTask
      BY <1>3, RunRefreshTask, NoTaskAssumption
    <2>5. \A l \in Kinds : /\ task'[l] # NoTask <=> task[l] # NoTask
                           /\ task'[l].gen = task[l].gen /\ task'[l].path = task[l].path
      BY <2>1, <2>3, <2>4
    <2> QED BY <2>2, <2>5 DEF RefreshInv, Selects, Awaited, Flags, OpIs
  <1> QED BY <1>1, <1>2, <1>3

(* A signal is taken out of its queue only while no handler awaits. *)
LEMMA ReceiveFacts ==
    ASSUME TypeInv, RefreshInv, NEW i \in pending, NEW t, Receive(t, i)
    PROVE  /\ op = 0 /\ sent[i].type = t /\ pending' = pending \ {i}
           /\ UNCHANGED <<sent, md, diskReset, elapsed>>
           /\ i \in DOMAIN sent /\ i \in Ids /\ sent[i].path \in Paths
           /\ ~busy
           /\ codexBusy <=> refreshing["codex"]
  BY PendingType DEF Receive, diskVars, TypeInv, RefreshInv, Flags, OpIs

(* A request starts or joins a refresh. *)
LEMMA LoadAccountsRefresh ==
    ASSUME TypeInv, RefreshInv, NEW k \in AccountKinds, LoadAccounts(k)
    PROVE  RefreshInv'
  <1>1. PICK i \in pending : LoadAccounts(k)!(i)
    BY DEF LoadAccounts
  <1> DEFINE p == sent[i].path
             ks == IF refreshing[k] THEN {} ELSE {k}
  <1>2. Receive(LoadSignal[k], i)
    BY <1>1
  <1>3. /\ op = 0 /\ UNCHANGED sent /\ i \in DOMAIN sent /\ p \in Paths
        /\ codexBusy <=> refreshing["codex"]
    BY <1>2, ReceiveFacts
  <1>4. /\ SetPath(p)
        /\ waiting' = [WaitingAfter(p) EXCEPT ![k] = @ \cup {i}]
        /\ Start(ks)
        /\ UNCHANGED <<initialized, busy, op>>
    BY <1>1, <1>3 DEF configVars, opVars
  <1>5. k \in Kinds /\ ks \in SUBSET Kinds
    BY DEF Kinds
  <1> HIDE DEF ks
  <1>6. /\ \A l \in Kinds : Selects(l)'
        /\ \A l \in Kinds : refreshing'[l] <=> task'[l] # NoTask
        /\ \A l \in Kinds : refreshing'[l] <=> refreshing[l] \/ l \in ks
        /\ codexBusy' <=> codexBusy \/ "codex" \in ks
    BY <1>3, <1>4, <1>5, SetPathRefresh, StartRefresh
  <1>7. \A l \in Kinds : Awaited(l)'
    <2>1. WaitingAfter(p) \in [Kinds -> SUBSET Ids]
      BY <1>3, WaitingType DEF TypeInv
    <2>2. \A l \in Kinds : \A j \in waiting'[l] : j \in WaitingAfter(p)[l] \/ (l = k /\ j = i)
      BY <2>1, <1>4, <1>5
    <2>3. path' = p
      BY <1>4 DEF SetPath
    <2>4. refreshing'[k]
      BY <1>5, <1>6 DEF ks
    <2>5. \A l \in Kinds : waiting'[l] # {} => refreshing'[l]
      BY <2>1, <2>2, <2>4, <1>3, <1>4, <1>6, SetPathRefresh
    <2> QED BY <2>2, <2>3, <2>5, <1>3, <1>4, <1>6, SetPathRefresh DEF Awaited
  <1>8. \A l \in Kinds : shown'[l] \in {NoData, path'}
    BY <1>3, <1>4, SetPathRefresh
  <1>9. Flags'
    <2>1. "recent" \notin ks /\ "recent" \in Kinds /\ "codex" \in Kinds
      BY DEF ks, AccountKinds, Kinds
    <2> QED BY <2>1, <1>3, <1>4, <1>6 DEF RefreshInv, Flags, OpIs
  <1> QED BY <1>6, <1>7, <1>8, <1>9 DEF RefreshInv

(* Recent sessions are refreshed. *)
LEMMA RefreshRecentRefresh ==
    ASSUME TypeInv, RefreshInv, RefreshRecent
    PROVE  RefreshInv'
  <1>1. PICK i \in pending : RefreshRecent!(i)
    BY DEF RefreshRecent
  <1> DEFINE p == sent[i].path
             k == "recent"
             ks == CodexIf(Changed(p)) \cup (IF refreshing[k] THEN {} ELSE {k})
             new == IF sent[i].reply THEN {i} ELSE {}
  <1>2. Receive("RefreshRecent", i)
    BY <1>1
  <1>3. /\ op = 0 /\ UNCHANGED sent /\ i \in DOMAIN sent /\ p \in Paths /\ ~busy
        /\ codexBusy <=> refreshing["codex"]
    BY <1>2, ReceiveFacts
  <1>4. CASE ~initialized
    <2>1. UNCHANGED actorVars
      BY <1>1, <1>4
    <2> QED BY <2>1, <1>3 DEF RefreshInv, Selects, Awaited, Flags, OpIs, actorVars, opVars,
                 refreshVars, configVars
  <1>5. CASE initialized
    <2>1. /\ SetPath(p)
          /\ waiting' = [WaitingAfter(p) EXCEPT ![k] = @ \cup new]
          /\ Start(ks)
          /\ UNCHANGED <<initialized, busy, op>>
      BY <1>1, <1>3, <1>5 DEF configVars, opVars
    <2>2. k \in Kinds /\ ks \in SUBSET Kinds
      BY CodexIfType DEF Kinds
    <2>3. ~refreshing[k] => k \in ks
      OBVIOUS
    <2> HIDE DEF ks
    <2>4. /\ \A l \in Kinds : Selects(l)'
          /\ \A l \in Kinds : refreshing'[l] <=> task'[l] # NoTask
          /\ \A l \in Kinds : refreshing'[l] <=> refreshing[l] \/ l \in ks
          /\ codexBusy' <=> codexBusy \/ "codex" \in ks
      BY <1>3, <2>1, <2>2, SetPathRefresh, StartRefresh
    <2>5. \A l \in Kinds : Awaited(l)'
      <3>1. WaitingAfter(p) \in [Kinds -> SUBSET Ids]
        BY <1>3, WaitingType DEF TypeInv
      <3>2. \A l \in Kinds : \A j \in waiting'[l] : j \in WaitingAfter(p)[l] \/ (l = k /\ j = i)
        BY <3>1, <2>1, <2>2
      <3>3. path' = p
        BY <2>1 DEF SetPath
      <3>4. refreshing'[k]
        BY <2>2, <2>3, <2>4
      <3>5. \A l \in Kinds : waiting'[l] # {} => refreshing'[l]
        BY <3>1, <3>2, <3>4, <1>3, <2>1, <2>4, SetPathRefresh
      <3> QED BY <3>2, <3>3, <3>5, <1>3, <2>1, <2>4, SetPathRefresh DEF Awaited
    <2>6. \A l \in Kinds : shown'[l] \in {NoData, path'}
      BY <1>3, <2>1, SetPathRefresh
    <2>7. Flags'
      <3>1. "recent" \in Kinds /\ "codex" \in Kinds
        BY DEF AccountKinds, Kinds
      <3> QED BY <3>1, <1>3, <1>5, <2>1, <2>4 DEF RefreshInv, Flags, OpIs
    <2> QED BY <2>4, <2>5, <2>6, <2>7 DEF RefreshInv
  <1> QED BY <1>4, <1>5 DEF TypeInv, TypeOK

(* A finished refresh is restarted or applied. *)
LEMMA CompleteRefresh ==
    ASSUME TypeInv, RefreshInv, NEW k \in Kinds, RestartRefresh(k) \/ ApplyRefresh(k)
    PROVE  RefreshInv'
  <1>1. /\ op = 0 /\ task[k] # NoTask /\ UNCHANGED <<sent, initialized, busy, op, path, generation>>
        /\ refreshing[k] /\ ~busy /\ (codexBusy <=> refreshing["codex"])
    BY DEF RestartRefresh, ApplyRefresh, Completed, RefreshInv, Awaited, Flags, OpIs,
           configVars, opVars
  <1>2. /\ "recent" \in Kinds /\ "codex" \in Kinds
        /\ path \in Paths /\ generation \in Nat /\ resetRev \in Nat
        /\ refreshing \in [Kinds -> BOOLEAN] /\ codexBusy \in BOOLEAN
        /\ waiting \in [Kinds -> SUBSET Ids]
        /\ shown \in [Kinds -> Paths \cup {NoData}]
        /\ task \in [Kinds -> Task \cup {NoTask}]
    BY DEF TypeInv, TypeOK, AccountKinds, Kinds
  <1>3. CASE RestartRefresh(k)
    <2>1. k = "recent" => initialized
      BY <1>1 DEF RefreshInv, Flags
    <2>2. Start({k}) /\ UNCHANGED <<waiting, shown, resetRev>>
      BY <1>1, <1>3, <2>1 DEF RestartRefresh, resetVars
    <2>3. /\ \A l \in Kinds : Selects(l)'
          /\ \A l \in Kinds : refreshing'[l] <=> task'[l] # NoTask
          /\ \A l \in Kinds : refreshing'[l] <=> refreshing[l] \/ l \in {k}
          /\ codexBusy' <=> codexBusy \/ "codex" \in {k}
      <3>1. \A l \in Kinds : task[l] # NoTask =>
                /\ task[l].gen <= generation'
                /\ task[l].gen = generation' => task[l].path = path'
        BY <1>1 DEF RefreshInv, Selects
      <3> QED BY <3>1, <1>1, <1>2, <2>2, StartRefresh
    <2>4. \A l \in Kinds : refreshing'[l] <=> refreshing[l]
      BY <1>1, <2>3
    <2>5. \A l \in Kinds : Awaited(l)' /\ shown'[l] \in {NoData, path'}
      BY <1>1, <2>2, <2>3, <2>4 DEF RefreshInv, Awaited
    <2>6. Flags'
      BY <1>1, <1>2, <2>3, <2>4 DEF RefreshInv, Flags, OpIs
    <2> QED BY <2>3, <2>5, <2>6 DEF RefreshInv
  <1>4. CASE ApplyRefresh(k)
    <2>1. /\ refreshing' = [refreshing EXCEPT ![k] = FALSE]
          /\ codexBusy' = (codexBusy /\ k # "codex")
          /\ task' = [task EXCEPT ![k] = NoTask]
          /\ waiting' = [waiting EXCEPT ![k] = {}]
          /\ shown' = IF task[k].ok THEN [shown EXCEPT ![k] = task[k].path] ELSE shown
          /\ task[k].gen = generation
      BY <1>4 DEF ApplyRefresh, Stale
    <2>2. task[k].path = path
      BY <1>1, <2>1 DEF RefreshInv, Selects
    <2>3. \A l \in Kinds : shown'[l] \in {NoData, path'}
      BY <1>1, <1>2, <2>1, <2>2 DEF RefreshInv
    <2>4. \A l \in Kinds : Selects(l)'
      BY <1>1, <1>2, <2>1 DEF RefreshInv, Selects
    <2>5. \A l \in Kinds : Awaited(l)'
      BY <1>1, <1>2, <2>1 DEF RefreshInv, Awaited
    <2>6. Flags'
      BY <1>1, <1>2, <2>1 DEF RefreshInv, Flags, OpIs
    <2> QED BY <2>3, <2>4, <2>5, <2>6 DEF RefreshInv
  <1> QED BY <1>3, <1>4

(* A handler that awaits begins. *)
LEMMA BeginRefresh ==
    ASSUME TypeInv, RefreshInv,
           \/ BeginInitApp \/ BeginLoadConfig \/ BeginSaveConfig
           \/ \E t \in ResetOps : BeginReset(t)
           \/ \E t \in AccountOps : BeginAccountOp(t)
    PROVE  RefreshInv'
  <1> DEFINE FileOps == {"InitApp", "LoadConfig", "SaveConfig"}
  <1>1. ASSUME NEW i \in pending, NEW t, Receive(t, i), Occupy(i),
               UNCHANGED <<refreshing, task>>,
               initialized => initialized',
               busy' <=> t \in FileOps,
               codexBusy' <=> codexBusy \/ t \in AccountOps,
               t \in AccountOps => ~codexBusy
        PROVE  RefreshInv'
    <2> DEFINE p == sent[i].path
    <2>1. /\ op = 0 /\ UNCHANGED sent /\ i \in DOMAIN sent /\ p \in Paths /\ sent[i].type = t
          /\ codexBusy <=> refreshing["codex"]
      BY <1>1, ReceiveFacts
    <2>2. /\ SetPath(p) /\ waiting' = WaitingAfter(p) /\ op' = i
      BY <1>1 DEF Occupy
    <2>3. i # 0
      BY <1>1, PendingType DEF Ids, TypeInv
    <2>4. \A k \in Kinds : Selects(k)'
      BY <1>1, <2>1, <2>2, SetPathRefresh DEF Selects
    <2>5. \A k \in Kinds : Awaited(k)'
      BY <1>1, <2>1, <2>2, SetPathRefresh DEF RefreshInv, Awaited
    <2>6. \A k \in Kinds : shown'[k] \in {NoData, path'}
      BY <2>1, <2>2, SetPathRefresh
    <2>7. Flags'
      BY <1>1, <2>1, <2>2, <2>3 DEF RefreshInv, Flags, OpIs
    <2> QED BY <2>4, <2>5, <2>6, <2>7 DEF RefreshInv
  <1>2. ASSUME NEW i \in pending, NEW t, Receive(t, i), UNCHANGED actorVars
        PROVE  RefreshInv'
    <2>1. UNCHANGED sent
      BY <1>2, ReceiveFacts
    <2> QED BY <1>2, <2>1 DEF RefreshInv, Selects, Awaited, Flags, OpIs, actorVars, opVars,
                 refreshVars, configVars
  <1>3. CASE BeginInitApp
    <2>1. PICK i \in pending : BeginInitApp!(i)
      BY <1>3 DEF BeginInitApp
    <2> QED BY <2>1, <1>1 DEF AccountOps, refreshVars
  <1>4. CASE BeginLoadConfig
    <2>1. PICK i \in pending : BeginLoadConfig!(i)
      BY <1>4 DEF BeginLoadConfig
    <2>2. CASE busy \/ ~initialized
      BY <2>1, <2>2, <1>2
    <2>3. CASE ~(busy \/ ~initialized)
      <3>1. /\ Receive("LoadConfig", i) /\ Occupy(i) /\ busy' = TRUE
            /\ UNCHANGED <<initialized, refreshing, codexBusy, task>>
        BY <2>1, <2>3 DEF refreshVars
      <3>2. "LoadConfig" \in FileOps /\ "LoadConfig" \notin AccountOps
        BY DEF AccountOps
      <3> QED BY <3>1, <3>2, <1>1
    <2> QED BY <2>2, <2>3
  <1>5. CASE BeginSaveConfig
    <2>1. PICK i \in pending : BeginSaveConfig!(i)
      BY <1>5 DEF BeginSaveConfig
    <2>2. CASE sent[i].arg = "malformed"
      BY <2>1, <2>2, <1>2
    <2>3. CASE sent[i].arg # "malformed"
      <3>1. /\ Receive("SaveConfig", i) /\ Occupy(i) /\ busy' = TRUE
            /\ UNCHANGED <<initialized, refreshing, codexBusy, task>>
        BY <2>1, <2>3 DEF refreshVars
      <3>2. "SaveConfig" \in FileOps /\ "SaveConfig" \notin AccountOps
        BY DEF AccountOps
      <3> QED BY <3>1, <3>2, <1>1
    <2> QED BY <2>2, <2>3
  <1>6. ASSUME NEW t \in ResetOps, BeginReset(t)
        PROVE  RefreshInv'
    <2>1. PICK i \in pending : BeginReset(t)!(i)
      BY <1>6 DEF BeginReset
    <2>2. ~busy
      BY <2>1, ReceiveFacts
    <2> QED BY <2>1, <2>2, <1>1 DEF ResetOps, AccountOps, refreshVars, configVars
  <1>7. ASSUME NEW t \in AccountOps, BeginAccountOp(t)
        PROVE  RefreshInv'
    <2>1. PICK i \in pending : BeginAccountOp(t)!(i)
      BY <1>7 DEF BeginAccountOp
    <2>2. CASE Refused(i)
      BY <2>1, <2>2, <1>2
    <2>3. CASE ~Refused(i)
      <3>1. ~busy /\ ~codexBusy
        BY <2>1, <2>3, ReceiveFacts DEF Refused
      <3>2. /\ Receive(t, i) /\ Occupy(i) /\ codexBusy' = TRUE
            /\ UNCHANGED <<initialized, busy, refreshing, task>>
        BY <2>1, <2>3 DEF configVars
      <3>3. t \notin FileOps
        BY DEF AccountOps
      <3> QED BY <3>1, <3>2, <3>3, <1>1
    <2> QED BY <2>2, <2>3
  <1> QED BY <1>3, <1>4, <1>5, <1>6, <1>7

(* The awaited work returns and the handler ends. *)
LEMMA EndRefresh ==
    ASSUME TypeInv, RefreshInv, NEW ok \in BOOLEAN,
           EndLoad(ok) \/ EndSaveConfig(ok) \/ EndReset(ok) \/ EndAccountOp(ok)
    PROVE  RefreshInv'
  <1>1. /\ op # 0 /\ op' = 0 /\ sent' = sent
        /\ UNCHANGED <<generation, path, waiting, initialized>>
    BY DEF EndLoad, EndSaveConfig, EndReset, EndAccountOp, Release
  <1>2. /\ "recent" \in Kinds /\ "codex" \in Kinds
        /\ path \in Paths /\ generation \in Nat /\ resetRev \in Nat
        /\ shown \in [Kinds -> Paths \cup {NoData}]
    BY DEF TypeInv, TypeOK, AccountKinds, Kinds
  <1>3. \A k \in Kinds : task[k] # NoTask =>
                /\ task[k].gen <= generation'
                /\ task[k].gen = generation' => task[k].path = path'
    BY <1>1 DEF RefreshInv, Selects
  <1>4. ASSUME NEW c, Start(CodexIf(c)), UNCHANGED <<shown, resetRev>>, ~busy',
               sent[op].type \notin AccountOps
        PROVE  RefreshInv'
    <2> DEFINE ks == CodexIf(c)
    <2>1. ks \in SUBSET Kinds /\ "recent" \notin ks
      BY CodexIfType DEF CodexIf
    <2> HIDE DEF ks
    <2>2. /\ \A k \in Kinds : Selects(k)'
          /\ \A k \in Kinds : refreshing'[k] <=> task'[k] # NoTask
          /\ \A k \in Kinds : refreshing'[k] <=> refreshing[k] \/ k \in ks
          /\ codexBusy' <=> codexBusy \/ "codex" \in ks
      BY <1>1, <1>2, <1>3, <1>4, <2>1, StartRefresh DEF ks
    <2>3. \A k \in Kinds : Awaited(k)' /\ shown'[k] \in {NoData, path'}
      BY <1>1, <1>4, <2>2 DEF RefreshInv, Awaited
    <2>4. Flags'
      BY <1>1, <1>2, <1>4, <2>1, <2>2 DEF RefreshInv, Flags, OpIs
    <2> QED BY <2>2, <2>3, <2>4 DEF RefreshInv
  <1>5. CASE EndLoad(ok)
    BY <1>4, <1>5 DEF EndLoad, AccountOps, resetVars
  <1>6. CASE EndSaveConfig(ok)
    BY <1>4, <1>6 DEF EndSaveConfig, AccountOps, resetVars
  <1>7. CASE EndReset(ok)
    <2>1. sent[op].type \in ResetOps /\ UNCHANGED <<busy, shown, refreshVars>>
      BY <1>7 DEF EndReset
    <2>2. Flags'
      BY <1>1, <2>1 DEF RefreshInv, Flags, OpIs, ResetOps, AccountOps, refreshVars
    <2> QED BY <1>1, <2>1, <2>2 DEF RefreshInv, Selects, Awaited, refreshVars
  <1>8. CASE EndAccountOp(ok)
    <2>1. /\ sent[op].type \in AccountOps /\ UNCHANGED <<busy, refreshing, task>>
          /\ ~codexBusy'
          /\ shown' = IF ok THEN [shown EXCEPT !["codex"] = path] ELSE shown
      BY <1>8 DEF EndAccountOp
    <2>2. Flags'
      BY <1>1, <2>1 DEF RefreshInv, Flags, OpIs, AccountOps
    <2>3. \A k \in Kinds : shown'[k] \in {NoData, path'}
      BY <1>1, <1>2, <2>1 DEF RefreshInv
    <2> QED BY <1>1, <2>1, <2>2, <2>3 DEF RefreshInv, Selects, Awaited
  <1> QED BY <1>5, <1>6, <1>7, <1>8

(* Every step keeps the refresh protocol's invariant. *)
LEMMA NextRefresh ==
    ASSUME TypeInv, RefreshInv, [Next]_vars
    PROVE  RefreshInv'
  BY EnvironmentRefresh, LoadAccountsRefresh, RefreshRecentRefresh, BeginRefresh,
     EndRefresh, CompleteRefresh DEF Next, ActorStep, Handle, Resume, Complete

(* The invariant holds in every reachable state. *)
LEMMA RefreshInvHolds == Spec => [](TypeInv /\ RefreshInv)
  <1>1. Init => TypeInv /\ RefreshInv
    <2> SUFFICES ASSUME Init PROVE RefreshInv
      BY InitType
    <2>1. \A k \in Kinds : /\ task[k] = NoTask /\ refreshing[k] = FALSE
                           /\ waiting[k] = {} /\ shown[k] = NoData
      BY DEF Init
    <2>2. "codex" \in Kinds /\ "recent" \in Kinds
      BY DEF Kinds, AccountKinds
    <2>3. Flags
      BY <2>1, <2>2 DEF Init, Flags, OpIs
    <2> QED BY <2>1, <2>3 DEF RefreshInv, Selects, Awaited
  <1>2. TypeInv /\ RefreshInv /\ [Next]_vars => (TypeInv /\ RefreshInv)'
    BY NextType, NextRefresh
  <1> QED BY <1>1, <1>2, PTL DEF Spec

(* A request waits only on a refresh that is under way, for the file the   *)
(* request was made for: set_sessions_markdown_path fails the others, and  *)
(* a stale completion starts the refresh again before anything else is     *)
(* handled.                                                                *)
THEOREM WaitersAreServed == Spec => []WaitersHaveRefresh
  <1>1. RefreshInv => WaitersHaveRefresh
    BY DEF RefreshInv, Awaited, WaitersHaveRefresh
  <1> QED BY <1>1, RefreshInvHolds, PTL

(* Shown accounts and recent sessions always belong to the selected file:  *)
(* the generation check of complete_*_refresh is enough, A-B-A included.   *)
THEOREM ShownIsCurrent == Spec => []ShownDataIsCurrent
  <1>1. RefreshInv => ShownDataIsCurrent
    BY DEF RefreshInv, ShownDataIsCurrent
  <1> QED BY <1>1, RefreshInvHolds, PTL

(* codex_account_busy keeps account operations and Codex refreshes, the    *)
(* two writers of snapshots and of the live login, apart.                  *)
THEOREM SnapshotWritersExclude == Spec => []AccountOpsExclusive
  <1>1. RefreshInv => AccountOpsExclusive
    <2>1. "codex" \in Kinds
      BY DEF Kinds, AccountKinds
    <2> QED BY <2>1 DEF RefreshInv, Awaited, Flags, OpIs, AccountOpsExclusive
  <1> QED BY <1>1, RefreshInvHolds, PTL

(* The early returns on busy in load_config, refresh_recent and            *)
(* load_codex_accounts_with are never taken: when a handler starts, no     *)
(* flag of another handler is left set.                                    *)
THEOREM BusyGuardsAreIdle == Spec => []NoGuardMetBusy
  <1>1. RefreshInv => NoGuardMetBusy
    BY DEF RefreshInv, Flags, OpIs, NoGuardMetBusy
  <1> QED BY <1>1, RefreshInvHolds, PTL

(***************************************************************************)
(* Proofs about the requests the actor is sent (ContextActor): where each  *)
(* one is held, that it is answered once, and what a success says.         *)
(***************************************************************************)

(* What a step does to the requests.  Every handler is one of these. *)
Oldest(i) == \A j \in pending : sent[j].type = sent[i].type => i <= j
Takes(i) == op = 0 /\ Oldest(i) /\ pending' = pending \ {i} /\ UNCHANGED <<sent, md>>
Clears(i) == answers' = Finish(Abandoned(sent[i].path), FALSE)

Keeps == UNCHANGED <<sent, pending, op, waiting, answers, path, md>>
Sends(m) == /\ Len(sent) < MaxSignals /\ sent' = Append(sent, m)
            /\ pending' = pending \cup {Len(sent) + 1}
            /\ UNCHANGED <<op, waiting, answers, path, md>>
AnswersAtOnce(i, ok) == /\ Takes(i) /\ answers' = Finish({i}, ok) /\ UNCHANGED <<op, waiting>>
                        /\ ok => sent[i].type # "SaveConfig"
Joins(i, k, new) == /\ Takes(i) /\ Clears(i) /\ UNCHANGED op
                    /\ waiting' = [WaitingAfter(sent[i].path) EXCEPT ![k] = @ \cup new]
                    /\ sent[i].type # "SaveConfig"
                    /\ new = {i} \/ (new = {} /\ ~sent[i].reply)
Occupies(i) == /\ Takes(i) /\ Clears(i) /\ waiting' = WaitingAfter(sent[i].path)
               /\ op' = i /\ path' = sent[i].path
Writes(ok) == sent[op].type = "SaveConfig" /\ md' \in WriteList(path, sent[op].arg, ok)
Releases(ok) == /\ op # 0 /\ op' = 0 /\ answers' = Finish({op}, ok)
                /\ UNCHANGED <<sent, pending, waiting, path>>
                /\ Writes(ok) \/ (sent[op].type # "SaveConfig" /\ UNCHANGED md)
Applies(k, ok) == /\ ApplyRefresh(k) /\ ok = task[k].ok
                  /\ op = 0 /\ waiting' = [waiting EXCEPT ![k] = {}]
                  /\ answers' = Finish(waiting[k], ok)
                  /\ UNCHANGED <<sent, pending, op, path, md>>

RequestStep ==
    \/ Keeps
    \/ \E m \in Message : Sends(m)
    \/ \E i \in pending, ok \in BOOLEAN : AnswersAtOnce(i, ok)
    \/ \E i \in pending, k \in Kinds, new \in SUBSET Ids : Joins(i, k, new)
    \/ \E i \in pending : Occupies(i)
    \/ \E ok \in BOOLEAN : Releases(ok)
    \/ \E k \in Kinds, ok \in BOOLEAN : Applies(k, ok)

(* Receive takes one message from the pending ones and leaves the rest. *)
LEMMA ReceiveTakes ==
    ASSUME NEW i \in pending, NEW t, Receive(t, i)
    PROVE  Takes(i) /\ sent[i].type = t
  BY DEF Receive, Takes, Oldest, diskVars

(* A handler that joins or starts a refresh. *)
LEMMA JoinStep ==
    ASSUME TypeInv, \/ \E k \in AccountKinds : LoadAccounts(k)
                    \/ RefreshRecent
    PROVE  RequestStep
  <1>1. ASSUME NEW k \in AccountKinds, LoadAccounts(k) PROVE RequestStep
    <2>1. PICK i \in pending : LoadAccounts(k)!(i)
      BY <1>1 DEF LoadAccounts
    <2>2. Receive(LoadSignal[k], i)
      BY <2>1
    <2>3. Takes(i) /\ sent[i].type # "SaveConfig" /\ k \in Kinds /\ {i} \in SUBSET Ids
      BY <2>2, ReceiveTakes, PendingType DEF LoadSignal, AccountKinds, Kinds, TypeInv
    <2>4. CASE k = "codex" /\ codexBusy /\ ~refreshing[k]
      <3>1. AnswersAtOnce(i, FALSE)
        BY <2>1, <2>3, <2>4 DEF AnswersAtOnce, actorVars, opVars
      <3> QED BY <3>1 DEF RequestStep
    <2>5. CASE ~(k = "codex" /\ codexBusy /\ ~refreshing[k])
      <3>1. Joins(i, k, {i})
        BY <2>1, <2>3, <2>5 DEF Joins, Clears, opVars
      <3> QED BY <2>3, <3>1 DEF RequestStep
    <2> QED BY <2>4, <2>5
  <1>2. CASE RefreshRecent
    <2>1. PICK i \in pending : RefreshRecent!(i)
      BY <1>2 DEF RefreshRecent
    <2>2. Receive("RefreshRecent", i)
      BY <2>1
    <2>3. Takes(i) /\ sent[i].type # "SaveConfig" /\ "recent" \in Kinds /\ {i} \in SUBSET Ids
      BY <2>2, ReceiveTakes, PendingType DEF Kinds, TypeInv
    <2>4. CASE busy \/ ~initialized
      <3>1. AnswersAtOnce(i, TRUE)
        BY <2>1, <2>3, <2>4 DEF AnswersAtOnce, actorVars, opVars
      <3> QED BY <3>1 DEF RequestStep
    <2>5. CASE ~(busy \/ ~initialized)
      <3> DEFINE new == IF sent[i].reply THEN {i} ELSE {}
      <3>1. Joins(i, "recent", new)
        BY <2>1, <2>3, <2>5 DEF Joins, Clears, opVars
      <3>2. new \in SUBSET Ids
        BY <2>3
      <3> QED BY <2>3, <3>1, <3>2 DEF RequestStep
    <2> QED BY <2>4, <2>5
  <1> QED BY <1>1, <1>2

(* A handler that awaits begins, or answers at once. *)
LEMMA BeginStep ==
    ASSUME TypeInv,
           \/ BeginInitApp \/ BeginLoadConfig \/ BeginSaveConfig
           \/ \E t \in ResetOps : BeginReset(t)
           \/ \E t \in AccountOps : BeginAccountOp(t)
    PROVE  RequestStep
  <1>1. ASSUME NEW i \in pending, NEW t, Receive(t, i), Occupy(i) PROVE RequestStep
    <2>1. Occupies(i)
      BY <1>1, ReceiveTakes DEF Occupies, Occupy, SetPath, Clears
    <2> QED BY <2>1 DEF RequestStep
  <1>2. ASSUME NEW i \in pending, NEW t, Receive(t, i), NEW ok \in BOOLEAN,
               ok => t # "SaveConfig", answers' = Finish({i}, ok), UNCHANGED actorVars
        PROVE  RequestStep
    <2>1. AnswersAtOnce(i, ok)
      BY <1>2, ReceiveTakes DEF AnswersAtOnce, actorVars, opVars
    <2> QED BY <2>1 DEF RequestStep
  <1>3. CASE BeginInitApp
    BY <1>1, <1>3 DEF BeginInitApp
  <1>4. CASE BeginLoadConfig
    <2>1. PICK i \in pending : BeginLoadConfig!(i)
      BY <1>4 DEF BeginLoadConfig
    <2>2. Receive("LoadConfig", i)
      BY <2>1
    <2>3. CASE busy \/ ~initialized
      <3>1. answers' = Finish({i}, TRUE) /\ UNCHANGED actorVars
        BY <2>1, <2>3
      <3>2. TRUE \in BOOLEAN /\ (TRUE => "LoadConfig" # "SaveConfig")
        OBVIOUS
      <3> QED BY <1>2, <2>2, <3>1, <3>2
    <2>4. CASE ~(busy \/ ~initialized)
      BY <1>1, <2>1, <2>2, <2>4
    <2> QED BY <2>3, <2>4
  <1>5. CASE BeginSaveConfig
    <2>1. PICK i \in pending : BeginSaveConfig!(i)
      BY <1>5 DEF BeginSaveConfig
    <2>2. Receive("SaveConfig", i)
      BY <2>1
    <2>3. CASE sent[i].arg = "malformed"
      BY <1>2, <2>1, <2>2, <2>3
    <2>4. CASE sent[i].arg # "malformed"
      BY <1>1, <2>1, <2>2, <2>4
    <2> QED BY <2>3, <2>4
  <1>6. ASSUME NEW t \in ResetOps, BeginReset(t) PROVE RequestStep
    BY <1>1, <1>6 DEF BeginReset
  <1>7. ASSUME NEW t \in AccountOps, BeginAccountOp(t) PROVE RequestStep
    BY <1>1, <1>2, <1>7 DEF BeginAccountOp
  <1> QED BY <1>3, <1>4, <1>5, <1>6, <1>7

(* Every step of the system is one of them. *)
LEMMA StepsOfRequests ==
    ASSUME TypeInv, [Next]_vars
    PROVE  RequestStep
  <1>1. ASSUME NEW t \in SignalTypes, UiSends(t) PROVE RequestStep
    <2>1. PICK p \in PathsOf(t), a \in ArgsOf(t), r \in RepliesOf(t) :
            sent' = Append(sent, [type |-> t, path |-> p, arg |-> a, reply |-> r])
      BY <1>1 DEF UiSends
    <2> DEFINE m == [type |-> t, path |-> p, arg |-> a, reply |-> r]
    <2>2. p \in Paths /\ a \in Payloads /\ r \in BOOLEAN /\ t \in AllSignals
      BY ConstantsAssumption DEF PathsOf, ArgsOf, RepliesOf, Payloads, AccountOps
    <2>3. m \in Message
      BY <2>2 DEF Message
    <2>4. Sends(m)
      BY <1>1, <2>1 DEF UiSends, Sends, actorVars, diskVars, opVars
    <2> QED BY <2>3, <2>4 DEF RequestStep
  <1>2. CASE UNCHANGED vars \/ TimePasses \/ \E k \in Kinds : RunRefresh(k) \/ RestartRefresh(k)
    <2>1. Keeps
      BY <1>2 DEF Keeps, vars, actorVars, opVars, diskVars, TimePasses, RunRefresh,
                   RestartRefresh, Completed
    <2> QED BY <2>1 DEF RequestStep
  <1>3. ASSUME NEW ok \in BOOLEAN, EndLoad(ok) \/ EndSaveConfig(ok) \/ EndReset(ok) \/ EndAccountOp(ok)
        PROVE  RequestStep
    <2>1. Releases(ok)
      BY <1>3 DEF EndLoad, EndSaveConfig, EndReset, EndAccountOp, Release, Releases,
                  Writes, ResetOps, AccountOps
    <2> QED BY <2>1 DEF RequestStep
  <1>4. ASSUME NEW k \in Kinds, ApplyRefresh(k) PROVE RequestStep
    <2>1. task[k].ok \in BOOLEAN
      BY <1>4 DEF ApplyRefresh, Completed, TypeInv, TypeOK, Task
    <2>2. Applies(k, task[k].ok)
      BY <1>4 DEF ApplyRefresh, Completed, Applies, diskVars, opVars
    <2> QED BY <2>1, <2>2 DEF RequestStep
  <1> QED BY <1>1, <1>2, <1>3, <1>4, JoinStep, BeginStep
          DEF Next, ActorStep, Handle, Resume, Complete

-----------------------------------------------------------------------------
(* Each request is held once and answered once. *)

(* AnsweredOnce, in parts. *)
Held(i) == i \in pending \/ i = op \/ \E k \in Kinds : i \in waiting[k]
Counted == \A i \in Ids : Len(answers[i]) =
             IF i \in DOMAIN sent /\ ~Held(i) /\ sent[i].reply THEN 1 ELSE 0
Apart == /\ op \notin pending
         /\ \A k \in Kinds : /\ op \notin waiting[k] /\ waiting[k] \cap pending = {}
                             /\ \A l \in Kinds \ {k} : waiting[k] \cap waiting[l] = {}
Answered == Counted /\ Apart

(* What the count of answers says of one request. *)
LEMMA AnsweredMeans ==
    ASSUME TypeInv
    PROVE  Answered <=> AnsweredOnce
  <1>1. \A i \in Ids : i # 0
    BY DEF Ids, ConstantsAssumption
  <1>2. \A i \in Ids : Held(i) <=> i \in Open
    BY <1>1 DEF Held, Open
  <1>3. Apart <=> /\ op \notin pending
                  /\ \A k \in Kinds : /\ waiting[k] \cap (pending \cup {op}) = {}
                                      /\ \A l \in Kinds \ {k} : waiting[k] \cap waiting[l] = {}
    BY DEF Apart
  <1> QED BY <1>2, <1>3 DEF Answered, Counted, AnsweredOnce

(* Answering requests that were held and are no more. *)
LEMMA AnswersCount ==
    ASSUME TypeInv, Counted, NEW ended \in SUBSET DOMAIN sent, NEW ok \in BOOLEAN,
           answers' = Finish(ended, ok), UNCHANGED sent,
           \A i \in ended : Held(i) /\ ~Held(i)',
           \A i \in DOMAIN sent \ ended : sent[i].reply => (Held(i)' <=> Held(i))
    PROVE  Counted'
  <1> SUFFICES ASSUME NEW i \in Ids
               PROVE  Len(answers'[i]) =
                        IF i \in DOMAIN sent /\ ~Held(i)' /\ sent[i].reply THEN 1 ELSE 0
    BY DEF Counted
  <1>1. answers[i] \in Seq(BOOLEAN)
    BY DEF TypeInv, TypeOK
  <1>2. Len(answers[i]) = IF i \in DOMAIN sent /\ ~Held(i) /\ sent[i].reply THEN 1 ELSE 0
    BY DEF Counted
  <1>3. answers'[i] = IF i \in ended /\ sent[i].reply THEN Append(answers[i], ok) ELSE answers[i]
    BY DEF Finish
  <1>4. Len(Append(answers[i], ok)) = Len(answers[i]) + 1
    BY <1>1
  <1>5. CASE i \in ended /\ sent[i].reply
    BY <1>2, <1>3, <1>4, <1>5
  <1>6. CASE ~(i \in ended /\ sent[i].reply)
    BY <1>2, <1>3, <1>6
  <1> QED BY <1>5, <1>6

(* Where every request is: the places it is held in are of requests that   *)
(* were sent.                                                              *)
LEMMA HeldWasSent ==
    ASSUME TypeInv, RefreshInv
    PROVE  /\ DOMAIN sent \subseteq Ids /\ 0 \notin Ids
           /\ op \in DOMAIN sent \cup {0} /\ pending \subseteq DOMAIN sent
           /\ \A k \in Kinds : waiting[k] \subseteq DOMAIN sent
  <1>1. Len(sent) \in 0..MaxSignals /\ DOMAIN sent = 1..Len(sent) /\ MaxSignals \in Nat
    BY ConstantsAssumption DEF TypeInv, TypeOK
  <1>2. DOMAIN sent \subseteq Ids /\ 0 \notin Ids
    BY <1>1 DEF Ids
  <1>3. op \in DOMAIN sent \cup {0} /\ pending \subseteq DOMAIN sent
    BY DEF TypeInv, TypeOK
  <1>4. \A k \in Kinds : waiting[k] \subseteq DOMAIN sent
    BY DEF RefreshInv, Awaited
  <1> QED BY <1>2, <1>3, <1>4

(* Where the waiting requests are after a change of path: none is lost.    *)
LEMMA ClearedRequests ==
    ASSUME TypeInv, RefreshInv, NEW p
    PROVE  /\ Abandoned(p) \subseteq DOMAIN sent
           /\ \A j \in Abandoned(p) : \E k \in Kinds : j \in waiting[k]
           /\ \A k \in Kinds : /\ WaitingAfter(p)[k] \subseteq waiting[k]
                               /\ WaitingAfter(p)[k] \cap Abandoned(p) = {}
                               /\ waiting[k] \subseteq WaitingAfter(p)[k] \cup Abandoned(p)
  <1>1. CASE Changed(p)
    <2>1. WaitingAfter(p) = [k \in Kinds |-> {}] /\ Abandoned(p) = UNION {waiting[k] : k \in Kinds}
      BY <1>1 DEF WaitingAfter, Abandoned
    <2> QED BY <2>1, HeldWasSent
  <1>2. CASE ~Changed(p)
    <2>1. WaitingAfter(p) = waiting /\ Abandoned(p) = {}
      BY <1>2 DEF WaitingAfter, Abandoned
    <2> QED BY <2>1
  <1> QED BY <1>1, <1>2

(* A handler that selects a path: it fails the requests that waited for    *)
(* another one, and puts its own where it is held until it is answered.    *)
LEMMA ClearsAnswered ==
    ASSUME TypeInv, RefreshInv, Answered, NEW i \in pending, Takes(i), Clears(i),
           op' \in {0, i},
           waiting' \in [Kinds -> SUBSET Ids],
           \A k \in Kinds : /\ WaitingAfter(sent[i].path)[k] \subseteq waiting'[k]
                            /\ waiting'[k] \subseteq WaitingAfter(sent[i].path)[k] \cup {i},
           sent[i].reply => op' = i \/ \E k \in Kinds : i \in waiting'[k],
           \A k \in Kinds : i \in waiting'[k] =>
               op' = 0 /\ \A l \in Kinds \ {k} : i \notin waiting'[l]
    PROVE  Answered'
  <1> DEFINE W == WaitingAfter(sent[i].path)
             A == Abandoned(sent[i].path)
  <1>1. /\ op = 0 /\ pending' = pending \ {i} /\ UNCHANGED sent
        /\ i \in DOMAIN sent /\ pending \subseteq DOMAIN sent /\ 0 \notin DOMAIN sent
    BY HeldWasSent DEF Takes
  <1>2. /\ A \subseteq DOMAIN sent
        /\ \A j \in A : \E k \in Kinds : j \in waiting[k]
        /\ \A k \in Kinds : W[k] \subseteq waiting[k] /\ W[k] \cap A = {}
                            /\ waiting[k] \subseteq W[k] \cup A
    BY ClearedRequests
  <1>3. answers' = Finish(A, FALSE)
    BY DEF Clears
  <1>4. \A k \in Kinds : W[k] \subseteq waiting'[k] /\ waiting'[k] \subseteq W[k] \cup {i}
    OBVIOUS
  <1> HIDE DEF W, A
  <1>5. \A k \in Kinds : waiting[k] \cap pending = {}
    BY DEF Answered, Apart
  <1>6. i \notin A /\ A \cap pending = {}
    BY <1>2, <1>5
  <1>7. \A j \in A : Held(j) /\ ~Held(j)'
    <2> SUFFICES ASSUME NEW j \in A PROVE Held(j) /\ ~Held(j)'
      OBVIOUS
    <2>1. j # i /\ j # 0 /\ j \notin pending' /\ j # op'
      BY <1>1, <1>2, <1>6
    <2>2. \A k \in Kinds : j \notin waiting'[k]
      BY <1>2, <1>4, <2>1
    <2> QED BY <1>2, <2>1, <2>2 DEF Held
  <1>8. \A j \in DOMAIN sent \ A : sent[j].reply => (Held(j)' <=> Held(j))
    <2>1. ASSUME NEW j \in DOMAIN sent \ A, j # i PROVE Held(j)' <=> Held(j)
      <3>1. j \in pending' <=> j \in pending
        BY <1>1, <2>1
      <3>2. j # op /\ j # op'
        BY <1>1, <2>1
      <3>3. \A k \in Kinds : j \in waiting'[k] <=> j \in waiting[k]
        BY <1>2, <1>4, <2>1
      <3> QED BY <3>1, <3>2, <3>3 DEF Held
    <2>2. sent[i].reply => Held(i)' /\ Held(i)
      BY DEF Held
    <2> QED BY <2>1, <2>2
  <1>9. Counted'
    BY <1>1, <1>2, <1>3, <1>7, <1>8, AnswersCount DEF Answered
  <1>10. Apart'
    <2>1. op' \notin pending'
      BY <1>1
    <2>2. \A k \in Kinds : op' \notin waiting'[k]
      <3> SUFFICES ASSUME NEW k \in Kinds, op' \in waiting'[k] PROVE FALSE
        OBVIOUS
      <3>1. op' \in Ids /\ op' # 0 /\ op' = i
        BY HeldWasSent
      <3> QED BY <3>1
    <2>3. \A k \in Kinds : waiting'[k] \cap pending' = {}
      BY <1>1, <1>2, <1>4, <1>5
    <2>4. \A k \in Kinds : \A l \in Kinds \ {k} : waiting'[k] \cap waiting'[l] = {}
      <3> SUFFICES ASSUME NEW k \in Kinds, NEW l \in Kinds \ {k},
                          NEW j \in waiting'[k], j \in waiting'[l]
                   PROVE  FALSE
        OBVIOUS
      <3>1. j # i
        OBVIOUS
      <3>2. j \in waiting[k] /\ j \in waiting[l]
        BY <1>2, <1>4, <3>1
      <3> QED BY <3>2 DEF Answered, Apart
    <2> QED BY <2>1, <2>2, <2>3, <2>4 DEF Apart
  <1> QED BY <1>9, <1>10 DEF Answered

(* Every step keeps each request in one place and answers it once.         *)
LEMMA NextAnswered ==
    ASSUME TypeInv, RefreshInv, Answered, [Next]_vars
    PROVE  Answered'
  <1>1. /\ DOMAIN sent \subseteq Ids /\ 0 \notin Ids
        /\ op \in DOMAIN sent \cup {0} /\ pending \subseteq DOMAIN sent
        /\ waiting \in [Kinds -> SUBSET Ids]
        /\ \A k \in Kinds : waiting[k] \subseteq DOMAIN sent
    BY HeldWasSent DEF TypeInv, TypeOK
  <1>2. CASE Keeps
    BY <1>2 DEF Keeps, Answered, Counted, Apart, Held
  <1>3. ASSUME NEW m \in Message, Sends(m) PROVE Answered'
    <2> PICK n : n = Len(sent) + 1
      OBVIOUS
    <2>1. /\ DOMAIN sent = 1..Len(sent) /\ Len(sent) \in Nat
          /\ sent' = Append(sent, m) /\ DOMAIN sent' = 1..n
          /\ \A j \in DOMAIN sent : sent'[j] = sent[j]
          /\ pending' = pending \cup {n} /\ UNCHANGED <<op, waiting, answers>>
      BY <1>3 DEF Sends, TypeInv, TypeOK
    <2>2. DOMAIN sent' = DOMAIN sent \cup {n} /\ n \notin DOMAIN sent /\ n # 0
      BY <2>1
    <2>3. \A j : j # n => (Held(j)' <=> Held(j))
      BY <2>1 DEF Held
    <2>4. Held(n)'
      BY <2>1 DEF Held
    <2>5. ~Held(n)
      BY <1>1, <2>2 DEF Held
    <2>6. Counted'
      BY <2>1, <2>2, <2>3, <2>4, <2>5 DEF Answered, Counted
    <2>7. Apart'
      BY <1>1, <2>1, <2>2 DEF Answered, Apart
    <2> QED BY <2>6, <2>7 DEF Answered
  <1>4. ASSUME NEW i \in pending, NEW ok \in BOOLEAN, AnswersAtOnce(i, ok) PROVE Answered'
    <2>1. /\ op = 0 /\ pending' = pending \ {i} /\ answers' = Finish({i}, ok)
          /\ UNCHANGED <<sent, op, waiting>>
      BY <1>4 DEF AnswersAtOnce, Takes
    <2>2. Held(i) /\ ~Held(i)'
      BY <1>1, <2>1 DEF Held, Answered, Apart
    <2>3. \A j \in DOMAIN sent \ {i} : Held(j)' <=> Held(j)
      BY <2>1 DEF Held
    <2>4. Counted'
      BY <1>1, <2>1, <2>2, <2>3, AnswersCount DEF Answered
    <2> QED BY <2>1, <2>4 DEF Answered, Apart
  <1>5. ASSUME NEW i \in pending, NEW k \in Kinds, NEW new \in SUBSET Ids, Joins(i, k, new)
        PROVE  Answered'
    <2> DEFINE W == WaitingAfter(sent[i].path)
    <2>1. /\ Takes(i) /\ Clears(i) /\ op' = op /\ op = 0
          /\ waiting' = [W EXCEPT ![k] = @ \cup new]
          /\ new \subseteq {i} /\ (sent[i].reply => i \in new)
      BY <1>5 DEF Joins, Takes
    <2>2. W \in [Kinds -> SUBSET Ids]
      BY PendingType, WaitingType DEF TypeInv
    <2>3. \A l \in Kinds : i \notin W[l]
      BY ClearedRequests DEF Answered, Apart
    <2> HIDE DEF W
    <2>4. /\ waiting' \in [Kinds -> SUBSET Ids]
          /\ \A l \in Kinds : waiting'[l] = IF l = k THEN W[l] \cup new ELSE W[l]
      BY <2>1, <2>2
    <2>5. \A l \in Kinds : W[l] \subseteq waiting'[l] /\ waiting'[l] \subseteq W[l] \cup {i}
      BY <2>1, <2>4
    <2>6. sent[i].reply => \E l \in Kinds : i \in waiting'[l]
      BY <2>1, <2>4
    <2>7. \A l \in Kinds : i \in waiting'[l] =>
             op' = 0 /\ \A h \in Kinds \ {l} : i \notin waiting'[h]
      BY <2>1, <2>3, <2>4
    <2> QED BY <2>1, <2>4, <2>5, <2>6, <2>7, ClearsAnswered DEF W
  <1>6. ASSUME NEW i \in pending, Occupies(i) PROVE Answered'
    <2> DEFINE W == WaitingAfter(sent[i].path)
    <2>1. Takes(i) /\ Clears(i) /\ op' = i /\ waiting' = W
      BY <1>6 DEF Occupies
    <2>2. W \in [Kinds -> SUBSET Ids]
      BY PendingType, WaitingType DEF TypeInv
    <2>3. \A l \in Kinds : i \notin W[l]
      BY ClearedRequests DEF Answered, Apart
    <2> HIDE DEF W
    <2> QED BY <2>1, <2>2, <2>3, ClearsAnswered DEF W
  <1>7. ASSUME NEW ok \in BOOLEAN, Releases(ok) PROVE Answered'
    <2>1. /\ op # 0 /\ op' = 0 /\ answers' = Finish({op}, ok)
          /\ UNCHANGED <<sent, pending, waiting>>
      BY <1>7 DEF Releases
    <2>2. Held(op) /\ op \in DOMAIN sent
      BY <1>1, <2>1 DEF Held
    <2>3. op # op' /\ op \notin pending' /\ \A k \in Kinds : op \notin waiting'[k]
      BY <1>1, <2>1 DEF Answered, Apart
    <2>4. \A j \in DOMAIN sent \ {op} : Held(j)' <=> Held(j)
      BY <1>1, <2>1 DEF Held
    <2>5. \A j \in {op} : Held(j) /\ ~Held(j)'
      BY <2>2, <2>3 DEF Held
    <2>6. Counted'
      BY <2>1, <2>2, <2>4, <2>5, AnswersCount DEF Answered
    <2> QED BY <1>1, <2>1, <2>6 DEF Answered, Apart
  <1>8. ASSUME NEW k \in Kinds, NEW ok \in BOOLEAN, Applies(k, ok) PROVE Answered'
    <2>1. /\ op = 0 /\ op' = op /\ answers' = Finish(waiting[k], ok)
          /\ UNCHANGED <<sent, pending>>
          /\ \A l \in Kinds : waiting'[l] = IF l = k THEN {} ELSE waiting[l]
      BY <1>1, <1>8 DEF Applies
    <2>2. \A j \in waiting[k] : Held(j) /\ ~Held(j)'
      BY <1>1, <2>1 DEF Held, Answered, Apart
    <2>3. \A j \in DOMAIN sent \ waiting[k] : Held(j)' <=> Held(j)
      BY <2>1 DEF Held
    <2>4. Counted'
      BY <1>1, <2>1, <2>2, <2>3, AnswersCount DEF Answered
    <2> QED BY <1>1, <2>1, <2>4 DEF Answered, Apart
  <1> QED BY <1>2, <1>3, <1>4, <1>5, <1>6, <1>7, <1>8, StepsOfRequests DEF RequestStep

(* The inductive invariant of the requests.                                *)
LEMMA AnsweredHolds == Spec => [](TypeInv /\ RefreshInv /\ Answered)
  <1>1. Init => Answered
    <2> SUFFICES ASSUME Init PROVE Answered
      OBVIOUS
    <2>1. /\ pending = {} /\ op = 0 /\ \A k \in Kinds : waiting[k] = {}
          /\ sent = <<>> /\ \A i \in Ids : answers[i] = <<>>
      BY DEF Init
    <2>2. \A i \in Ids : i \notin DOMAIN sent /\ Len(answers[i]) = 0
      BY <2>1
    <2> QED BY <2>1, <2>2 DEF Answered, Counted, Apart
  <1>2. TypeInv /\ RefreshInv /\ Answered /\ [Next]_vars => Answered'
    BY NextAnswered
  <1> QED BY <1>1, <1>2, RefreshInvHolds, PTL DEF Spec

(* Every request is held in one place until it is answered, and answered   *)
(* once: joining a refresh, being abandoned by a change of file, a restart *)
(* and a completion neither lose a request nor answer it twice.            *)
THEOREM RequestsAnsweredOnce == Spec => []AnsweredOnce
  <1>1. TypeInv /\ Answered => AnsweredOnce
    BY AnsweredMeans
  <1> QED BY <1>1, AnsweredHolds, PTL

-----------------------------------------------------------------------------
(* What a success says. *)

(* A request that is held has no answer yet.                               *)
LEMMA HeldHasNoAnswer ==
    ASSUME TypeInv, RefreshInv, Answered, NEW i \in Ids, Held(i)
    PROVE  answers[i] = <<>>
  <1>1. Len(answers[i]) = 0 /\ answers[i] \in Seq(BOOLEAN)
    BY DEF Answered, Counted, TypeInv, TypeOK
  <1> QED BY <1>1

(* Which step can tell a waiting request that it succeeded: the completion *)
(* of the refresh it waits on.                                             *)
LEMMA WaitingSucceeds ==
    ASSUME TypeInv, RefreshInv, Answered, [Next]_vars,
           NEW k \in Kinds, NEW i \in waiting[k], answers'[i] = <<TRUE>>
    PROVE  ApplyRefresh(k) /\ task[k].ok
  <1>1. i \in Ids /\ i # 0 /\ answers[i] = <<>> /\ i \notin pending /\ i # op
        /\ \A l \in Kinds \ {k} : i \notin waiting[l]
    <2>1. i \in Ids /\ i # 0 /\ Held(i)
      BY HeldWasSent DEF Held
    <2> QED BY <2>1, HeldHasNoAnswer DEF Answered, Apart
  <1>2. answers'[i] # answers[i]
    BY <1>1
  <1>3. ASSUME NEW ids, NEW ok \in BOOLEAN, answers' = Finish(ids, ok)
        PROVE  i \in ids /\ answers'[i] = <<ok>>
    <2>1. answers'[i] = IF i \in ids /\ sent[i].reply THEN Append(answers[i], ok) ELSE answers[i]
      BY <1>1, <1>3 DEF Finish
    <2>2. Append(<<>>, ok) = <<ok>>
      OBVIOUS
    <2> QED BY <1>1, <1>2, <2>1, <2>2
  <1>4. CASE Keeps \/ \E m \in Message : Sends(m)
    BY <1>2, <1>4 DEF Keeps, Sends
  <1>5. CASE \E j \in pending, ok \in BOOLEAN : AnswersAtOnce(j, ok)
    <2>1. PICK j \in pending, ok \in BOOLEAN : answers' = Finish({j}, ok)
      BY <1>5 DEF AnswersAtOnce
    <2>2. i \in {j}
      BY <1>3, <2>1
    <2> QED BY <1>1, <2>2
  <1>6. ASSUME NEW j, Clears(j) PROVE FALSE
    <2>1. answers'[i] = <<FALSE>>
      BY <1>3, <1>6 DEF Clears
    <2>2. <<FALSE>>[1] = FALSE /\ <<TRUE>>[1] = TRUE
      OBVIOUS
    <2> QED BY <2>1, <2>2
  <1>7. CASE \E ok \in BOOLEAN : Releases(ok)
    <2>1. PICK ok \in BOOLEAN : answers' = Finish({op}, ok)
      BY <1>7 DEF Releases
    <2>2. i \in {op}
      BY <1>3, <2>1
    <2> QED BY <1>1, <2>2
  <1>8. ASSUME NEW l \in Kinds, NEW ok \in BOOLEAN, Applies(l, ok) PROVE ApplyRefresh(k) /\ task[k].ok
    <2>1. i \in waiting[l] /\ answers'[i] = <<ok>> /\ ok = task[l].ok /\ ApplyRefresh(l)
      BY <1>3, <1>8 DEF Applies
    <2>2. l = k
      BY <1>1, <2>1
    <2>3. <<ok>>[1] = ok /\ <<TRUE>>[1] = TRUE
      OBVIOUS
    <2>4. ok
      BY <2>1, <2>3
    <2> QED BY <2>1, <2>2, <2>4
  <1> QED BY <1>4, <1>5, <1>6, <1>7, <1>8, StepsOfRequests DEF RequestStep, Joins, Occupies

(* A request that joined a refresh and is told it succeeded finds data of  *)
(* its own sessions file on show: complete_*_refresh answers the waiting   *)
(* list only after the generation check, and a change of file empties it.  *)
THEOREM JoinedAnswersAreForTheirPath == Spec => JoinedAnswerIsForItsPath
  <1>1. ASSUME TypeInv, RefreshInv, Answered, [Next]_vars,
               NEW k \in Kinds, NEW i \in waiting[k], answers'[i] = <<TRUE>>
        PROVE  shown'[k] = sent[i].path
    <2>1. ApplyRefresh(k) /\ task[k].ok
      BY <1>1, WaitingSucceeds
    <2>2. task[k] # NoTask /\ task[k].gen = generation /\ shown' = [shown EXCEPT ![k] = task[k].path]
      BY <2>1 DEF ApplyRefresh, Completed, Stale
    <2>3. task[k].path = path /\ sent[i].path = path
      BY <1>1, <2>2 DEF RefreshInv, Selects, Awaited
    <2>4. shown \in [Kinds -> Paths \cup {NoData}]
      BY <1>1 DEF TypeInv, TypeOK
    <2> QED BY <2>2, <2>3, <2>4
  <1>2. TypeInv /\ RefreshInv /\ Answered /\ [Next]_vars =>
          [\A k \in Kinds : \A i \in waiting[k] :
             answers'[i] = <<TRUE>> => shown'[k] = sent[i].path]_vars
    BY <1>1
  <1> QED BY <1>2, AnsweredHolds, PTL DEF Spec, JoinedAnswerIsForItsPath

-----------------------------------------------------------------------------
(* Saves. *)

(* Saves are handled in the order they were made, by a handler that holds  *)
(* the path of its request, and none waits on a refresh.                   *)
IsSave(i) == i \in DOMAIN sent /\ sent[i].type = "SaveConfig"
SavesInOrder == \A i, j \in DOMAIN sent :
    IsSave(i) /\ IsSave(j) /\ i \notin pending /\ j \in pending \cup {op} => i <= j
SavesApart == \A k \in Kinds : \A i \in waiting[k] : ~IsSave(i)
OpHasPath == op # 0 => sent[op].path = path
SaveInv == SavesInOrder /\ SavesApart /\ OpHasPath /\ LastSaveWins

(* Answers that cannot be the success of a save leave LastSaveWins alone.  *)
NoSaveSucceeds == \A j \in DOMAIN sent :
    IsSave(j) /\ answers'[j] = <<TRUE>> => answers[j] = <<TRUE>>

(* Handing waiting requests to a refresh touches no save. *)
LEMMA WaitingSavesNone ==
    ASSUME TypeInv, RefreshInv, SavesApart, NEW ids, NEW ok \in BOOLEAN,
           answers' = Finish(ids, ok), \A j \in ids : IsSave(j) => ~ok
    PROVE  NoSaveSucceeds
  <1> SUFFICES ASSUME NEW j \in DOMAIN sent, IsSave(j), answers'[j] = <<TRUE>>
               PROVE  answers[j] = <<TRUE>>
    BY DEF NoSaveSucceeds
  <1>1. j \in Ids /\ answers[j] \in Seq(BOOLEAN)
    BY HeldWasSent DEF TypeInv, TypeOK
  <1>2. answers'[j] = IF j \in ids /\ sent[j].reply THEN Append(answers[j], ok) ELSE answers[j]
    BY <1>1 DEF Finish
  <1>3. CASE j \in ids
    <2>1. ~ok
      BY <1>3
    <2>2. Append(answers[j], ok) # <<TRUE>>
      <3>1. Len(Append(answers[j], ok)) = Len(answers[j]) + 1
            /\ Append(answers[j], ok)[Len(answers[j]) + 1] = ok
        BY <1>1
      <3>2. Len(<<TRUE>>) = 1 /\ <<TRUE>>[1] = TRUE
        OBVIOUS
      <3>3. Len(answers[j]) \in Nat
        BY <1>1
      <3> QED BY <2>1, <3>1, <3>2, <3>3
    <2> QED BY <1>2, <2>2
  <1> QED BY <1>2, <1>3

(* A handler that takes a signal out of its queue saves nothing yet.       *)
LEMMA TakesSaves ==
    ASSUME TypeInv, RefreshInv, SaveInv, NEW i \in pending, Takes(i), op' \in {0, i},
           op' = i => path' = sent[i].path,
           \A k \in Kinds : \A j \in waiting'[k] : j \in waiting[k] \/ ~IsSave(j),
           NoSaveSucceeds
    PROVE  SaveInv'
  <1>1. /\ op = 0 /\ pending' = pending \ {i} /\ UNCHANGED <<sent, md>>
        /\ \A j \in pending : sent[j].type = sent[i].type => i <= j
    BY DEF Takes, Oldest
  <1>2. /\ pending \subseteq DOMAIN sent /\ i \in DOMAIN sent /\ i # 0
        /\ 0 \notin DOMAIN sent /\ \A j \in DOMAIN sent : j \in Int
    BY HeldWasSent DEF TypeInv, TypeOK
  <1>3. \A j : IsSave(j)' <=> IsSave(j)
    BY <1>1 DEF IsSave
  <1>4. SavesInOrder'
    <2> SUFFICES ASSUME NEW g \in DOMAIN sent, NEW j \in DOMAIN sent, IsSave(g), IsSave(j),
                        g \notin pending', j \in pending' \cup {op'}
                 PROVE  g <= j
      BY <1>1, <1>3 DEF SavesInOrder
    <2>1. j \in pending
      BY <1>1, <1>2
    <2>2. CASE g = i
      BY <1>1, <2>1, <2>2 DEF IsSave
    <2>3. CASE g # i
      BY <1>1, <2>1, <2>3 DEF SaveInv, SavesInOrder
    <2> QED BY <2>2, <2>3
  <1>5. SavesApart'
    BY <1>3 DEF SaveInv, SavesApart
  <1>6. OpHasPath'
    BY <1>1 DEF OpHasPath
  <1>7. LastSaveWins'
    <2> SUFFICES ASSUME NEW g \in DOMAIN sent, IsSave(g), answers'[g] = <<TRUE>>,
                        \A j \in DOMAIN sent : /\ j > g /\ sent[j].type = "SaveConfig"
                                               /\ sent[j].path = sent[g].path
                                               => j \in pending' \cup {op'}
                 PROVE  md[sent[g].path] = sent[g].arg
      BY <1>1 DEF LastSaveWins, IsSave
    <2>1. answers[g] = <<TRUE>>
      BY DEF NoSaveSucceeds
    <2>2. \A j \in pending' \cup {op'} : j # 0 => j \in pending
      BY <1>1
    <2> QED BY <1>2, <2>1, <2>2 DEF SaveInv, LastSaveWins, IsSave
  <1> QED BY <1>4, <1>5, <1>6, <1>7 DEF SaveInv

(* The end of a handler: a save that succeeds is the last of its file that *)
(* was handled, and leaves its list there.                                 *)
LEMMA ReleasesSaves ==
    ASSUME TypeInv, RefreshInv, Answered, SaveInv, NEW ok \in BOOLEAN, Releases(ok)
    PROVE  SaveInv'
  <1>1. /\ op # 0 /\ op' = 0 /\ UNCHANGED <<sent, pending, waiting, path>>
        /\ answers' = Finish({op}, ok)
    BY DEF Releases
  <1>2. /\ op \in DOMAIN sent /\ op \notin pending /\ 0 \notin DOMAIN sent
        /\ pending \subseteq DOMAIN sent /\ DOMAIN sent \subseteq Ids
        /\ \A j \in DOMAIN sent : j \in Int
    BY <1>1, HeldWasSent DEF TypeInv, TypeOK, Answered, Apart
  <1>3. sent[op].path = path
    BY <1>1 DEF SaveInv, OpHasPath
  <1>4. SavesInOrder' /\ SavesApart' /\ OpHasPath'
    BY <1>1, <1>2 DEF SaveInv, SavesInOrder, SavesApart, OpHasPath, IsSave
  <1>5. LastSaveWins'
    <2> SUFFICES ASSUME NEW g \in DOMAIN sent, IsSave(g), answers'[g] = <<TRUE>>,
                        \A j \in DOMAIN sent : /\ j > g /\ sent[j].type = "SaveConfig"
                                               /\ sent[j].path = sent[g].path
                                               => j \in pending
                 PROVE  md'[sent[g].path] = sent[g].arg
      BY <1>1, <1>2 DEF LastSaveWins, IsSave
    <2>1. sent[g].path \in Paths /\ md \in [Paths -> Contents \cup {Torn}]
      <3>1. sent[g] \in Message /\ md \in [Paths -> Contents \cup {Torn}]
        BY DEF TypeInv, TypeOK
      <3> QED BY <3>1 DEF Message
    <2>2. CASE g = op
      <3>1. answers[op] = <<>>
        BY <1>1, <1>2, HeldHasNoAnswer DEF Held
      <3>2. answers'[op] = IF sent[op].reply THEN Append(<<>>, ok) ELSE <<>>
        BY <1>1, <1>2, <3>1 DEF Finish
      <3>3. Append(<<>>, ok) = <<ok>> /\ <<ok>>[1] = ok /\ <<TRUE>>[1] = TRUE /\ <<>> # <<TRUE>>
        OBVIOUS
      <3>4. ok
        BY <2>2, <3>2, <3>3
      <3>5. md' = [md EXCEPT ![path] = sent[op].arg]
        BY <2>2, <3>4 DEF Releases, Writes, WriteList, IsSave
      <3> QED BY <1>3, <2>1, <2>2, <3>5
    <2>3. CASE g # op
      <3>1. answers[g] = <<TRUE>>
        BY <1>1, <1>2, <2>3 DEF Finish
      <3>2. md[sent[g].path] = sent[g].arg
        BY <3>1 DEF SaveInv, LastSaveWins, IsSave
      <3>3. CASE UNCHANGED md
        BY <3>2, <3>3
      <3>4. CASE Writes(ok)
        <4>1. g \notin pending
          <5>1. g \in pending => answers[g] = <<>>
            BY <1>2, HeldHasNoAnswer DEF Held
          <5>2. <<>> # <<TRUE>>
            OBVIOUS
          <5> QED BY <3>1, <5>1, <5>2
        <4>2. g < op
          BY <1>2, <2>3, <3>4, <4>1 DEF Writes, SaveInv, SavesInOrder, IsSave
        <4>3. sent[g].path # path
          BY <1>2, <1>3, <3>4, <4>2 DEF Writes
        <4>4. md'[sent[g].path] = md[sent[g].path]
          BY <2>1, <3>4, <4>3 DEF Writes, WriteList
        <4> QED BY <3>2, <4>4
      <3> QED BY <3>3, <3>4 DEF Releases
    <2> QED BY <2>2, <2>3
  <1> QED BY <1>4, <1>5 DEF SaveInv

(* Every step keeps SaveInv. *)
LEMMA NextSaves ==
    ASSUME TypeInv, RefreshInv, Answered, SaveInv, [Next]_vars
    PROVE  SaveInv'
  <1>1. /\ 0 \notin Ids /\ DOMAIN sent \subseteq Ids /\ op \in DOMAIN sent \cup {0}
        /\ pending \subseteq DOMAIN sent /\ \A k \in Kinds : waiting[k] \subseteq DOMAIN sent
    BY HeldWasSent
  <1>2. CASE Keeps
    BY <1>2 DEF Keeps, SaveInv, SavesInOrder, SavesApart, OpHasPath, LastSaveWins, IsSave
  <1>3. ASSUME NEW m \in Message, Sends(m) PROVE SaveInv'
    <2> PICK n : n = Len(sent) + 1
      OBVIOUS
    <2>1. /\ DOMAIN sent' = DOMAIN sent \cup {n} /\ n \notin DOMAIN sent /\ n \in Ids
          /\ \A j \in DOMAIN sent : sent'[j] = sent[j] /\ j < n /\ j \in Int
          /\ n \in Int
          /\ pending' = pending \cup {n} /\ UNCHANGED <<op, waiting, answers, path, md>>
      <3>1. DOMAIN sent = 1..Len(sent) /\ Len(sent) \in Nat /\ sent \in Seq(Message)
            /\ Len(sent) < MaxSignals /\ MaxSignals \in Nat
        BY <1>3, ConstantsAssumption DEF Sends, TypeInv, TypeOK
      <3>2. /\ DOMAIN sent' = 1..n /\ \A j \in DOMAIN sent : sent'[j] = sent[j]
        BY <1>3, <3>1 DEF Sends
      <3> QED BY <1>3, <3>1, <3>2 DEF Sends, Ids
    <2>2. \A j \in DOMAIN sent : IsSave(j)' <=> IsSave(j)
      BY <2>1 DEF IsSave
    <2>3. SavesInOrder'
      BY <1>1, <2>1, <2>2 DEF SaveInv, SavesInOrder
    <2>4. SavesApart' /\ OpHasPath'
      BY <1>1, <2>1, <2>2 DEF SaveInv, SavesApart, OpHasPath
    <2>5. LastSaveWins'
      <3>1. answers'[n] # <<TRUE>>
        <4>1. ~Held(n)
          BY <1>1, <2>1 DEF Held
        <4>2. Len(answers[n]) = 0
          BY <2>1, <4>1 DEF Answered, Counted
        <4>3. answers[n] = <<>>
          BY <2>1, <4>2 DEF TypeInv, TypeOK
        <4>4. <<>> # <<TRUE>>
          OBVIOUS
        <4> QED BY <2>1, <4>3, <4>4
      <3> SUFFICES ASSUME NEW g \in DOMAIN sent, sent[g].type = "SaveConfig",
                          answers[g] = <<TRUE>>,
                          \A j \in DOMAIN sent' :
                             /\ j > g /\ sent'[j].type = "SaveConfig"
                             /\ sent'[j].path = sent'[g].path
                             => j \in pending' \cup {op}
                   PROVE  md[sent[g].path] = sent[g].arg
        BY <2>1, <3>1 DEF LastSaveWins
      <3>2. \A j \in DOMAIN sent : /\ j > g /\ sent[j].type = "SaveConfig"
                                   /\ sent[j].path = sent[g].path
                                   => j \in pending \cup {op}
        BY <2>1
      <3> QED BY <3>2 DEF SaveInv, LastSaveWins
    <2> QED BY <2>3, <2>4, <2>5 DEF SaveInv
  <1>4. ASSUME NEW i \in pending, NEW ok \in BOOLEAN, AnswersAtOnce(i, ok) PROVE SaveInv'
    <2>1. NoSaveSucceeds
      BY <1>4, WaitingSavesNone DEF AnswersAtOnce, IsSave, SaveInv
    <2>2. Takes(i) /\ op' = 0 /\ waiting' = waiting
      BY <1>4 DEF AnswersAtOnce, Takes
    <2>3. op' # i
      BY <1>1, <2>2
    <2> QED BY <2>1, <2>2, <2>3, TakesSaves
  <1>5. ASSUME NEW i \in pending, Clears(i) PROVE NoSaveSucceeds
    <2>1. \A j \in Abandoned(sent[i].path) : ~IsSave(j)
      BY ClearedRequests DEF SaveInv, SavesApart
    <2> QED BY <1>5, <2>1, WaitingSavesNone DEF Clears, SaveInv
  <1>6. ASSUME NEW i \in pending, NEW k \in Kinds, NEW new \in SUBSET Ids, Joins(i, k, new)
        PROVE  SaveInv'
    <2> DEFINE W == WaitingAfter(sent[i].path)
    <2>1. /\ Takes(i) /\ Clears(i) /\ op' = 0 /\ ~IsSave(i)
          /\ waiting' = [W EXCEPT ![k] = @ \cup new] /\ new \subseteq {i}
      BY <1>6 DEF Joins, Takes, IsSave
    <2>2. W \in [Kinds -> SUBSET Ids] /\ \A l \in Kinds : W[l] \subseteq waiting[l]
      BY PendingType, WaitingType, ClearedRequests DEF TypeInv
    <2> HIDE DEF W
    <2>3. \A l \in Kinds : \A j \in waiting'[l] : j \in waiting[l] \/ ~IsSave(j)
      BY <2>1, <2>2
    <2>4. op' # i
      BY <1>1, <2>1
    <2> QED BY <1>5, <2>1, <2>3, <2>4, TakesSaves
  <1>7. ASSUME NEW i \in pending, Occupies(i) PROVE SaveInv'
    <2>1. /\ Takes(i) /\ Clears(i) /\ op' = i /\ path' = sent[i].path
          /\ \A l \in Kinds : waiting'[l] \subseteq waiting[l]
      BY <1>7, ClearedRequests DEF Occupies
    <2> QED BY <1>5, <2>1, TakesSaves
  <1>8. ASSUME NEW ok \in BOOLEAN, Releases(ok) PROVE SaveInv'
    BY <1>8, ReleasesSaves
  <1>9. ASSUME NEW k \in Kinds, NEW ok \in BOOLEAN, Applies(k, ok) PROVE SaveInv'
    <2>1. /\ waiting \in [Kinds -> SUBSET Ids] /\ waiting' = [waiting EXCEPT ![k] = {}]
          /\ op = 0 /\ UNCHANGED <<sent, pending, op, path, md>>
          /\ answers' = Finish(waiting[k], ok)
      BY <1>9 DEF Applies, TypeInv, TypeOK
    <2>2. NoSaveSucceeds
      BY <2>1, WaitingSavesNone DEF SaveInv, SavesApart
    <2> QED BY <2>1, <2>2 DEF SaveInv, SavesInOrder, SavesApart, OpHasPath, LastSaveWins,
                              IsSave, NoSaveSucceeds
  <1> QED BY <1>2, <1>3, <1>4, <1>6, <1>7, <1>8, <1>9, StepsOfRequests DEF RequestStep

(* Save requests for one file take effect in the order they were made: the *)
(* file holds what the last one carried, if that one was answered with ok. *)
(* The queue of SaveConfig keeps its order, and the handler writes to the  *)
(* path of its own request before it answers.                              *)
THEOREM LastSaveIsInTheFile == Spec => []LastSaveWins
  <1>1. Init => SaveInv
    <2> SUFFICES ASSUME Init PROVE SaveInv
      OBVIOUS
    <2>1. sent = <<>> /\ op = 0 /\ \A k \in Kinds : waiting[k] = {}
      BY DEF Init
    <2>2. DOMAIN sent = {}
      BY <2>1
    <2> QED BY <2>1, <2>2 DEF SaveInv, SavesInOrder, SavesApart, OpHasPath, LastSaveWins
  <1>2. TypeInv /\ RefreshInv /\ Answered /\ SaveInv /\ [Next]_vars => SaveInv'
    BY NextSaves
  <1>3. SaveInv => LastSaveWins
    BY DEF SaveInv
  <1> QED BY <1>1, <1>2, <1>3, AnsweredHolds, PTL DEF Spec

-----------------------------------------------------------------------------
(* The manual reset on show. *)

(* A reset a is as good as the one stored in home h: it is that one, or    *)
(* both say that none is ahead.                                            *)
Same(a, h) == a = diskReset[h] \/ {a, diskReset[h]} \subseteq elapsed \cup {NoReset}

(* Between edits a stored reset only expires, and time only passes.        *)
Decays == /\ elapsed \subseteq elapsed'
          /\ \A h \in Homes : \/ diskReset'[h] = diskReset[h]
                              \/ diskReset[h] \in elapsed /\ diskReset'[h] = NoReset

(* A reset that has decayed stays the same as its source. *)
LEMMA SameDecays ==
    ASSUME Decays, NEW a, NEW h \in Homes, Same(a, h)
    PROVE  Same(a, h)'
  BY DEF Same, Decays

(* The inductive invariant: whichever reset complete_codex_refresh will    *)
(* show, the fetched one or the one edited meanwhile, is the stored one.   *)
Current(t) == t # NoTask /\ t.gen = generation
Fetched == LET t == task["codex"] IN
    Current(t) /\ t.phase = "done" /\ t.ok /\ t.rev = resetRev => Same(t.reset, HomeOf[path])
Edited == LET t == task["codex"] IN
    Current(t) /\ t.rev # resetRev => Same(manualReset, HomeOf[path])
RevBounded == task["codex"] # NoTask => task["codex"].rev <= resetRev
Shown == shown["codex"] # NoData => Same(shownReset, HomeOf[path])
ResetInv == Fetched /\ Edited /\ RevBounded /\ Shown

(* The types of the fields that carry a reset. *)
LEMMA ResetTypes ==
    ASSUME TypeInv
    PROVE  /\ "codex" \in Kinds /\ HomeOf[path] \in Homes /\ resetRev \in Nat
           /\ task["codex"] # NoTask => task["codex"] \in Task
           /\ generation \in Nat /\ diskReset \in [Homes -> ResetOrNone]
           /\ shown \in [Kinds -> Paths \cup {NoData}]
           /\ task \in [Kinds -> Task \cup {NoTask}]
  BY ConstantsAssumption DEF TypeInv, TypeOK, Kinds, AccountKinds

(* Reading the accounts of a home lets its reset expire at most.           *)
LEMMA ReadDecays ==
    ASSUME TypeInv, NEW h \in Homes, NEW ok \in BOOLEAN,
           diskReset' \in ResetsAfterRead(h, ok), UNCHANGED elapsed
    PROVE  Decays /\ (ok => diskReset'[h] = EffectiveReset(h))
  <1>1. diskReset \in [Homes -> ResetOrNone]
    BY ResetTypes
  <1> QED BY <1>1 DEF ResetsAfterRead, EffectiveReset, Decays

(* A step that keeps the reset on show, or drops it with its file.         *)
LEMMA SetPathReset ==
    ASSUME TypeInv, RefreshInv, ResetInv, NEW p, SetPath(p), Decays,
           \/ task'["codex"] = task["codex"]
           \/ task'["codex"] = NoTask
           \/ task'["codex"].phase = "running" /\ task'["codex"].rev = resetRev'
    PROVE  ResetInv'
  <1>1. resetRev' = resetRev /\ resetRev \in Nat /\ generation \in Nat /\ path' = p
        /\ "codex" \in Kinds /\ HomeOf[path] \in Homes
    BY ResetTypes DEF SetPath
  <1>2. RevBounded'
    BY <1>1 DEF ResetInv, RevBounded
  <1>3. task["codex"] # NoTask => task["codex"].gen <= generation /\ task["codex"].gen \in Nat
    BY <1>1, ResetTypes DEF RefreshInv, Selects, Task
  <1>4. CASE p = path
    <2>1. UNCHANGED <<path, generation, shown, manualReset, shownReset>>
      BY <1>4 DEF SetPath, GenAfter, ShownAfter, ResetAfter, Changed
    <2>2. \A a : Same(a, HomeOf[path]) => Same(a, HomeOf[path])'
      BY <1>1, <2>1, SameDecays
    <2>3. Shown'
      BY <2>1, <2>2 DEF ResetInv, Shown
    <2>4. Fetched' /\ Edited'
      <3>1. CASE task'["codex"] = task["codex"]
        BY <1>1, <2>1, <2>2, <3>1 DEF ResetInv, Fetched, Edited, Current
      <3>2. CASE task'["codex"] = NoTask
        BY <3>2 DEF Fetched, Edited, Current
      <3>3. CASE task'["codex"].phase = "running" /\ task'["codex"].rev = resetRev'
        BY <3>3 DEF Fetched, Edited
      <3> QED BY <3>1, <3>2, <3>3
    <2> QED BY <1>2, <2>3, <2>4 DEF ResetInv
  <1>5. CASE p # path
    <2>1. generation' = generation + 1 /\ shown' = [k \in Kinds |-> NoData]
      BY <1>5 DEF SetPath, GenAfter, ShownAfter, Changed
    <2>2. Shown'
      BY <1>1, <2>1 DEF Shown
    <2>3. Fetched' /\ Edited'
      <3>1. CASE task'["codex"] = task["codex"]
        <4>1. ~Current(task["codex"])'
          BY <1>1, <1>3, <2>1, <3>1 DEF Current
        <4> QED BY <4>1 DEF Fetched, Edited, Current
      <3>2. CASE task'["codex"] = NoTask
        BY <3>2 DEF Fetched, Edited, Current
      <3>3. CASE task'["codex"].phase = "running" /\ task'["codex"].rev = resetRev'
        BY <3>3 DEF Fetched, Edited
      <3> QED BY <3>1, <3>2, <3>3
    <2> QED BY <1>2, <2>2, <2>3 DEF ResetInv
  <1> QED BY <1>4, <1>5

(* Staying on the same file is a case of it.                               *)
LEMMA StaysOnPath ==
    ASSUME UNCHANGED <<path, generation, shown, manualReset, shownReset, resetRev>>
    PROVE  SetPath(path)
  BY DEF SetPath, GenAfter, ShownAfter, ResetAfter, Changed

(* What starting refreshes does to the Codex task.                         *)
LEMMA StartTask ==
    ASSUME TypeInv, NEW ks, Start(ks)
    PROVE  \/ task'["codex"] = task["codex"]
           \/ task'["codex"].phase = "running" /\ task'["codex"].rev = resetRev'
  <1>1. "codex" \in Kinds
    BY ResetTypes
  <1> QED BY <1>1 DEF Start

(* Handlers that leave the resets alone.                                   *)
LEMMA HandleReset ==
    ASSUME TypeInv, RefreshInv, ResetInv, Handle
    PROVE  ResetInv'
  <1>1. ASSUME UNCHANGED <<diskReset, elapsed>> PROVE Decays
    BY <1>1 DEF Decays
  <1>2. ASSUME NEW i \in pending, NEW t, Receive(t, i) PROVE Decays
    BY <1>1, <1>2 DEF Receive, diskVars
  <1>3. ASSUME UNCHANGED actorVars, Decays PROVE ResetInv'
    <2>1. UNCHANGED <<path, generation, shown, manualReset, shownReset, resetRev, task>>
      BY <1>3 DEF actorVars, refreshVars, resetVars
    <2> QED BY <1>3, <2>1, StaysOnPath, SetPathReset
  <1>4. ASSUME NEW i \in pending, NEW t, Receive(t, i), Occupy(i), UNCHANGED task PROVE ResetInv'
    <2>1. SetPath(sent[i].path)
      BY <1>4 DEF Occupy
    <2> QED BY <1>2, <1>4, <2>1, SetPathReset
  <1>5. ASSUME NEW k \in AccountKinds, LoadAccounts(k) PROVE ResetInv'
    <2>1. PICK i \in pending : LoadAccounts(k)!(i)
      BY <1>5 DEF LoadAccounts
    <2>2. Decays
      BY <1>2, <2>1
    <2>3. CASE k = "codex" /\ codexBusy /\ ~refreshing[k]
      BY <1>3, <2>1, <2>2, <2>3
    <2>4. CASE ~(k = "codex" /\ codexBusy /\ ~refreshing[k])
      <3>1. SetPath(sent[i].path) /\ Start(IF refreshing[k] THEN {} ELSE {k})
        BY <2>1, <2>4
      <3> QED BY <2>2, <3>1, StartTask, SetPathReset
    <2> QED BY <2>3, <2>4
  <1>6. CASE RefreshRecent
    <2>1. PICK i \in pending : RefreshRecent!(i)
      BY <1>6 DEF RefreshRecent
    <2>2. Decays
      BY <1>2, <2>1
    <2>3. CASE UNCHANGED actorVars
      BY <1>3, <2>2, <2>3
    <2>4. CASE ~UNCHANGED actorVars
      <3>1. PICK ks : SetPath(sent[i].path) /\ Start(ks)
        BY <2>1, <2>4
      <3> QED BY <2>2, <3>1, StartTask, SetPathReset
    <2> QED BY <2>3, <2>4
  <1>7. CASE BeginInitApp
    BY <1>4, <1>7 DEF BeginInitApp, refreshVars
  <1>8. CASE BeginLoadConfig
    <2>1. PICK i \in pending : BeginLoadConfig!(i)
      BY <1>8 DEF BeginLoadConfig
    <2>2. Receive("LoadConfig", i) /\ Decays
      BY <1>2, <2>1
    <2>3. CASE UNCHANGED actorVars
      BY <1>3, <2>2, <2>3
    <2>4. CASE ~UNCHANGED actorVars
      <3>1. Occupy(i) /\ UNCHANGED task
        BY <2>1, <2>4 DEF refreshVars
      <3> QED BY <1>4, <2>2, <3>1
    <2> QED BY <2>3, <2>4
  <1>9. CASE BeginSaveConfig
    <2>1. PICK i \in pending : BeginSaveConfig!(i)
      BY <1>9 DEF BeginSaveConfig
    <2>2. Receive("SaveConfig", i) /\ Decays
      BY <1>2, <2>1
    <2>3. CASE UNCHANGED actorVars
      BY <1>3, <2>2, <2>3
    <2>4. CASE ~UNCHANGED actorVars
      <3>1. Occupy(i) /\ UNCHANGED task
        BY <2>1, <2>4 DEF refreshVars
      <3> QED BY <1>4, <2>2, <3>1
    <2> QED BY <2>3, <2>4
  <1>10. ASSUME NEW t \in ResetOps, BeginReset(t) PROVE ResetInv'
    BY <1>4, <1>10 DEF BeginReset, refreshVars
  <1>11. ASSUME NEW t \in AccountOps, BeginAccountOp(t) PROVE ResetInv'
    <2>1. PICK i \in pending : BeginAccountOp(t)!(i)
      BY <1>11 DEF BeginAccountOp
    <2>2. Receive(t, i) /\ Decays
      BY <1>2, <2>1
    <2>3. CASE UNCHANGED actorVars
      BY <1>3, <2>2, <2>3
    <2>4. CASE ~UNCHANGED actorVars
      <3>1. Occupy(i) /\ UNCHANGED task
        BY <2>1, <2>4
      <3> QED BY <1>4, <2>2, <3>1
    <2> QED BY <2>3, <2>4
  <1> QED BY <1>5, <1>6, <1>7, <1>8, <1>9, <1>10, <1>11 DEF Handle

(* The ends of the awaiting handlers: an edited reset is the stored one.   *)
LEMMA ResumeReset ==
    ASSUME TypeInv, RefreshInv, ResetInv, NEW ok \in BOOLEAN,
           EndLoad(ok) \/ EndSaveConfig(ok) \/ EndReset(ok) \/ EndAccountOp(ok)
    PROVE  ResetInv'
  <1>1. "codex" \in Kinds /\ HomeOf[path] \in Homes /\ resetRev \in Nat
        /\ shown \in [Kinds -> Paths \cup {NoData}] /\ diskReset \in [Homes -> ResetOrNone]
    BY ResetTypes
  <1>2. CASE EndLoad(ok) \/ EndSaveConfig(ok)
    <2>1. UNCHANGED <<path, generation, shown, manualReset, shownReset, resetRev,
                      diskReset, elapsed>>
      BY <1>2 DEF EndLoad, EndSaveConfig, Release, resetVars
    <2>2. \E ks : Start(ks)
      BY <1>2 DEF EndLoad, EndSaveConfig
    <2>3. Decays
      BY <2>1 DEF Decays
    <2> QED BY <2>1, <2>2, <2>3, StaysOnPath, StartTask, SetPathReset
  <1>3. CASE EndReset(ok) /\ ~ok
    <2>1. UNCHANGED <<path, generation, shown, manualReset, shownReset, resetRev, task,
                      diskReset, elapsed>>
      BY <1>3 DEF EndReset, Release, resetVars, refreshVars
    <2>2. Decays
      BY <2>1 DEF Decays
    <2> QED BY <2>1, <2>2, StaysOnPath, SetPathReset
  <1>4. CASE EndReset(ok) /\ ok
    <2>1. /\ UNCHANGED <<path, generation, shown, task>> /\ resetRev' = resetRev + 1
          /\ manualReset' = ResetValue(op) /\ shownReset' = ResetValue(op)
          /\ diskReset' = [diskReset EXCEPT ![HomeOf[path]] = ResetValue(op)]
      BY <1>4 DEF EndReset, Release, refreshVars
    <2>2. Same(manualReset, HomeOf[path])' /\ Same(shownReset, HomeOf[path])'
      BY <1>1, <2>1 DEF Same
    <2>3. task["codex"] # NoTask => task["codex"].rev \in Nat /\ task["codex"].rev <= resetRev
      BY ResetTypes DEF ResetInv, RevBounded, Task
    <2>4. RevBounded' /\ (task'["codex"] # NoTask => task'["codex"].rev # resetRev')
      BY <1>1, <2>1, <2>3 DEF RevBounded
    <2> QED BY <2>2, <2>4 DEF ResetInv, Fetched, Edited, Shown, Current
  <1>5. CASE EndAccountOp(ok)
    <2>1. /\ UNCHANGED <<path, generation, manualReset, resetRev, task, elapsed>>
          /\ diskReset' \in ResetsAfterRead(HomeOf[path], ok)
          /\ shown' = IF ok THEN [shown EXCEPT !["codex"] = path] ELSE shown
          /\ shownReset' = IF ok THEN EffectiveReset(HomeOf[path]) ELSE shownReset
      BY <1>5 DEF EndAccountOp, Release
    <2>2. Decays /\ (ok => diskReset'[HomeOf[path]] = EffectiveReset(HomeOf[path]))
      BY <1>1, <2>1, ReadDecays
    <2>3. \A a : Same(a, HomeOf[path]) => Same(a, HomeOf[path])'
      BY <1>1, <2>1, <2>2, SameDecays
    <2>4. Shown'
      <3>1. CASE ok
        BY <2>1, <2>2, <3>1 DEF Shown, Same
      <3>2. CASE ~ok
        BY <2>1, <2>3, <3>2 DEF ResetInv, Shown
      <3> QED BY <3>1, <3>2
    <2> QED BY <2>1, <2>3, <2>4 DEF ResetInv, Fetched, Edited, RevBounded, Current
  <1> QED BY <1>2, <1>3, <1>4, <1>5

(* A refresh that reads, restarts, or is shown.                            *)
LEMMA RefreshReset ==
    ASSUME TypeInv, RefreshInv, ResetInv, NEW k \in Kinds,
           RunRefresh(k) \/ RestartRefresh(k) \/ ApplyRefresh(k)
    PROVE  ResetInv'
  <1>1. /\ "codex" \in Kinds /\ HomeOf[path] \in Homes
        /\ task["codex"] # NoTask => task["codex"] \in Task
        /\ task \in [Kinds -> Task \cup {NoTask}]
        /\ shown \in [Kinds -> Paths \cup {NoData}]
    BY ResetTypes
  <1>2. CASE RunRefresh(k)
    <2>1. UNCHANGED <<path, generation, shown, manualReset, shownReset, resetRev, elapsed>>
      BY <1>2 DEF RunRefresh, resetVars
    <2>2. CASE k # "codex"
      <3>1. task'["codex"] = task["codex"] /\ UNCHANGED diskReset
        BY <1>1, <1>2, <2>2 DEF RunRefresh
      <3>2. Decays
        BY <2>1, <3>1 DEF Decays
      <3> QED BY <2>1, <3>1, <3>2, StaysOnPath, SetPathReset
    <2>3. CASE k = "codex"
      <3> DEFINE t == task["codex"]
                 u == task'["codex"]
      <3>1. PICK ok \in BOOLEAN :
              /\ u.ok = ok
              /\ ok => u.reset = EffectiveReset(HomeOf[t.path])
              /\ diskReset' \in ResetsAfterRead(HomeOf[t.path], ok)
        <4>1. PICK ok \in BOOLEAN :
                /\ task'[k].ok = ok
                /\ ok /\ k = "codex" =>
                      task'[k].reset = EffectiveReset(HomeOf[task[k].path])
                /\ IF k = "codex"
                   THEN diskReset' \in ResetsAfterRead(HomeOf[task[k].path], ok)
                   ELSE UNCHANGED diskReset
          <5>1. task'[k].ok \in BOOLEAN
            BY <1>2, RunRefreshTask DEF Task
          <5> QED BY <1>2, <5>1, RunRefreshTask
        <4> QED BY <2>3, <4>1
      <3>2. /\ t \in Task /\ HomeOf[t.path] \in Homes /\ u # NoTask
            /\ u.gen = t.gen /\ u.rev = t.rev /\ t # NoTask
        BY <1>2, <2>3, RunRefreshTask, NoTaskAssumption
      <3>3. Decays /\ (ok => diskReset'[HomeOf[t.path]] = EffectiveReset(HomeOf[t.path]))
        BY <2>1, <3>1, <3>2, ReadDecays
      <3>4. \A a : Same(a, HomeOf[path]) => Same(a, HomeOf[path])'
        BY <1>1, <2>1, <3>3, SameDecays
      <3>5. t.gen = generation => t.path = path
        BY <1>1, <3>2 DEF RefreshInv, Selects
      <3> HIDE DEF t, u
      <3>6. Fetched'
        BY <2>1, <3>1, <3>2, <3>3, <3>5 DEF Fetched, Current, Same, u
      <3>7. Edited' /\ RevBounded' /\ Shown'
        BY <2>1, <3>2, <3>4 DEF ResetInv, Edited, RevBounded, Shown, Current, t, u
      <3> QED BY <3>6, <3>7 DEF ResetInv
    <2> QED BY <2>2, <2>3
  <1>3. CASE RestartRefresh(k)
    <2>1. UNCHANGED <<path, generation, shown, manualReset, shownReset, resetRev,
                      diskReset, elapsed>>
      BY <1>3 DEF RestartRefresh, Completed, resetVars, diskVars
    <2>2. Decays
      BY <2>1 DEF Decays
    <2>3. CASE task' = [task EXCEPT ![k] = NoTask]
      <3>1. task'["codex"] = task["codex"] \/ task'["codex"] = NoTask
        BY <1>1, <2>3
      <3> QED BY <2>1, <2>2, <3>1, StaysOnPath, SetPathReset
    <2>4. CASE Start({k})
      BY <2>1, <2>2, <2>4, StaysOnPath, StartTask, SetPathReset
    <2> QED BY <1>3, <2>3, <2>4 DEF RestartRefresh
  <1>4. CASE ApplyRefresh(k)
    <2>1. /\ UNCHANGED <<path, generation, resetRev, diskReset, elapsed>>
          /\ task' = [task EXCEPT ![k] = NoTask] /\ task[k] # NoTask
          /\ task[k].gen = generation /\ task[k].phase = "done"
          /\ shown' = IF task[k].ok THEN [shown EXCEPT ![k] = task[k].path] ELSE shown
      BY <1>4 DEF ApplyRefresh, Completed, Stale, diskVars
    <2>2. Decays /\ \A a : Same(a, HomeOf[path]) <=> Same(a, HomeOf[path])'
      BY <2>1 DEF Decays, Same
    <2>3. CASE k # "codex"
      <3>1. UNCHANGED <<manualReset, shownReset>> /\ shown'["codex"] = shown["codex"]
            /\ task'["codex"] = task["codex"]
        BY <1>1, <1>4, <2>1, <2>3 DEF ApplyRefresh
      <3> QED BY <2>1, <2>2, <3>1 DEF ResetInv, Fetched, Edited, RevBounded, Shown, Current
    <2>4. CASE k = "codex"
      <3>1. task'["codex"] = NoTask
        BY <1>1, <2>1, <2>4
      <3>2. Shown'
        <4>1. CASE task["codex"].ok
          <5>1. shownReset' = ResetOnCompletion(task["codex"])
            BY <1>4, <2>4, <4>1 DEF ApplyRefresh
          <5>2. Same(ResetOnCompletion(task["codex"]), HomeOf[path])
            BY <2>1, <2>4, <4>1 DEF ResetInv, Fetched, Edited, Current, ResetOnCompletion
          <5> QED BY <2>1, <5>1, <5>2 DEF Shown, Same
        <4>2. CASE ~task["codex"].ok
          <5>1. UNCHANGED <<shown, shownReset>>
            BY <1>4, <2>1, <2>4, <4>2 DEF ApplyRefresh
          <5> QED BY <2>1, <2>2, <5>1 DEF ResetInv, Shown
        <4> QED BY <4>1, <4>2
      <3> QED BY <3>1, <3>2 DEF ResetInv, Fetched, Edited, RevBounded, Current
    <2> QED BY <2>3, <2>4
  <1> QED BY <1>2, <1>3, <1>4

(* Every step keeps ResetInv. *)
LEMMA NextReset ==
    ASSUME TypeInv, RefreshInv, ResetInv, [Next]_vars
    PROVE  ResetInv'
  <1>1. CASE (\E t \in SignalTypes : UiSends(t)) \/ TimePasses \/ UNCHANGED vars
    <2>1. UNCHANGED <<path, generation, shown, manualReset, shownReset, resetRev, task,
                      diskReset>> /\ elapsed \subseteq elapsed'
      BY <1>1 DEF UiSends, TimePasses, vars, actorVars, refreshVars, resetVars, diskVars
    <2>2. Decays
      BY <2>1 DEF Decays
    <2> QED BY <2>1, <2>2, StaysOnPath, SetPathReset
  <1> QED BY <1>1, HandleReset, ResumeReset, RefreshReset
          DEF Next, ActorStep, Resume, Complete

(* The reset on show is the stored one unless it has expired, whatever     *)
(* order an edit of the reset, a change of file and the refreshes they     *)
(* meet complete in: update_codex_manual_reset counts its edits, and       *)
(* complete_codex_refresh prefers an edit made after the fetch started.    *)
THEOREM ResetOnShow == Spec => []ResetShownIsLatest
  <1>1. Init => ResetInv
    <2> SUFFICES ASSUME Init PROVE ResetInv
      OBVIOUS
    <2>1. "codex" \in Kinds
      BY DEF Kinds, AccountKinds
    <2>2. task["codex"] = NoTask /\ shown["codex"] = NoData
      BY <2>1 DEF Init
    <2> QED BY <2>2 DEF ResetInv, Fetched, Edited, RevBounded, Shown, Current
  <1>2. TypeInv /\ RefreshInv /\ ResetInv /\ [Next]_vars => ResetInv'
    BY NextReset
  <1>3. ResetInv => ResetShownIsLatest
    BY DEF ResetInv, Shown, Same, ResetShownIsLatest
  <1> QED BY <1>1, <1>2, <1>3, RefreshInvHolds, PTL DEF Spec
=============================================================================
