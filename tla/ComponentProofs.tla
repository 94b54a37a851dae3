--------------------------- MODULE ComponentProofs ---------------------------
(***************************************************************************)
(* Proofs about five components.  ConfigurationStore: what was confirmed  *)
(* to a page stays saved, and a page never shows older settings than it    *)
(* confirmed.  JobFeed: a page never shows a job as older than it did, and *)
(* misses no event up to its cursor.  PilotTraining: a run that was        *)
(* stopped, resumed or forked is where an uninterrupted one would be.      *)
(* DatasetPreparation: related images are in one group and one split.      *)
(* SourceMaterialization: a published folder holds what its account says.  *)
(***************************************************************************)
EXTENDS ConfigurationStore, JobFeed, PilotTraining, DatasetPreparation,
        SourceMaterialization, FiniteSetTheorems, WellFoundedInduction, TLAPS

-----------------------------------------------------------------------------
(* The saved settings                                                      *)

(* Request identifiers: of a tab and its writes so far, or of a script.    *)
Identifiers == (Tabs \cup Scripts) \X Nat
WriteRequests == [id : Identifiers, change : Changes]
WriteAnswers == [request : WriteRequests, version : Nat]
Results == [change : Changes, response : Nat]
Pages == [shown : Nat \cup {NoRead}, reading : Nat \cup {NoRead, Asked},
          attempt : WriteRequests \cup {NoAttempt}, write : {"none", "sent", "uncertain"},
          confirmed : Nat]

SettingsTyped ==
    /\ applied \in Seq(Identifiers)
    /\ DOMAIN results \subseteq Identifiers
    /\ \A id \in DOMAIN results : results[id] \in Results
    /\ wire \in [Tabs -> SUBSET WriteRequests]
    /\ answers \in [Tabs -> SUBSET WriteAnswers]
    /\ tabs \in [Tabs -> Pages]
    /\ counts \in [writes : Nat, reads : Nat]

(* Identifiers and accepted changes correspond one to one.                 *)
ResultsPoint ==
    \A id \in DOMAIN results :
        /\ results[id].response \in 1..Len(applied)
        /\ applied[results[id].response] = id
AppliedOnce ==
    \A n \in 1..Len(applied) :
        applied[n] \in DOMAIN results /\ results[applied[n]].response = n

(* The next identifier of a tab is new to the store, the wire and the      *)
(* page.                                                                   *)
IdentifiersNew ==
    /\ \A id \in DOMAIN results : id[2] < counts.writes
    /\ \A t \in Tabs : \A request \in wire[t] : request.id[2] < counts.writes
    /\ \A t \in Tabs : Locked(t) => /\ tabs[t].attempt # NoAttempt
                                    /\ tabs[t].attempt.id[2] < counts.writes

(* An answer is the saved response of its request.                         *)
AnswersSaved ==
    \A t \in Tabs : \A answer \in answers[t] :
        /\ answer.request.id \in DOMAIN results
        /\ answer.version = results[answer.request.id].response

(* What a page shows, reads or waits for is not older than what it         *)
(* confirmed.                                                              *)
PagesFollow ==
    \A t \in Tabs :
        /\ tabs[t].confirmed <= Len(applied)
        /\ tabs[t].shown # NoRead => tabs[t].shown >= tabs[t].confirmed
        /\ tabs[t].reading \in Nat => tabs[t].reading >= tabs[t].confirmed
        /\ Locked(t) /\ tabs[t].attempt.id \in DOMAIN results =>
               results[tabs[t].attempt.id].response >= tabs[t].confirmed

SettingsInv ==
    /\ SettingsTyped /\ ResultsPoint /\ AppliedOnce
    /\ IdentifiersNew /\ AnswersSaved /\ PagesFollow

(* The results lead to the settings, and the pages to what they confirmed: *)
(* the property.                                                           *)
LEMMA SettingsHold == ASSUME SettingsInv PROVE ConfirmedSettingsStay
<1>1. DOMAIN applied = 1..Len(applied)
    BY DEF SettingsInv, SettingsTyped
<1>2. IsInjective(applied)
    BY <1>1 DEF SettingsInv, AppliedOnce, IsInjective
<1> QED BY <1>2 DEF SettingsInv, ResultsPoint, PagesFollow, ConfirmedSettingsStay

(* The larger of two versions.                                             *)
LEMMA MaxOfTwo ==
    ASSUME NEW a \in Nat, NEW b \in Nat PROVE Max({a, b}) = IF a >= b THEN a ELSE b
<1>1. \E x \in {a, b} : \A y \in {a, b} : x >= y
    OBVIOUS
<1>2. Max({a, b}) \in {a, b} /\ \A y \in {a, b} : Max({a, b}) >= y
    BY <1>1, Zenon DEF Max
<1> QED BY <1>2

(* The store starts with the first version, which nobody has asked for.    *)
LEMMA SettingsStart == SettingsInit => SettingsInv
BY DEF SettingsInit, SettingsInv, SettingsTyped, ResultsPoint, AppliedOnce,
       IdentifiersNew, AnswersSaved, PagesFollow, Reloaded, Locked, Pages, NoRead,
       Asked, NoAttempt

(* What a new change leaves behind: one more result, which is the last.    *)
LEMMA Updated ==
    ASSUME SettingsInv, NEW id \in Identifiers, NEW change \in Changes, Update(id, change)
    PROVE  /\ applied' \in Seq(Identifiers) /\ Len(applied') = Len(applied) + 1
           /\ DOMAIN results' = DOMAIN results \cup {id}
           /\ results'[id].response = Len(applied) + 1
           /\ \A i \in DOMAIN results : i # id /\ results'[i] = results[i]
           /\ \A i \in DOMAIN results' : results'[i] \in Results
           /\ ResultsPoint' /\ AppliedOnce'
<1>0. applied \in Seq(Identifiers) /\ Len(applied) \in Nat
    BY DEF SettingsInv, SettingsTyped
<1>1. /\ applied' = Append(applied, id) /\ id \notin DOMAIN results
      /\ results' = [i \in DOMAIN results \cup {id} |->
                      IF i = id THEN [change |-> change, response |-> Len(applied')]
                      ELSE results[i]]
    BY DEF Update
<1>2. /\ applied' \in Seq(Identifiers) /\ Len(applied') = Len(applied) + 1
      /\ applied'[Len(applied) + 1] = id
      /\ \A n \in 1..Len(applied) : applied'[n] = applied[n]
    BY <1>0, <1>1
<1>3. /\ DOMAIN results' = DOMAIN results \cup {id}
      /\ results'[id] = [change |-> change, response |-> Len(applied) + 1]
      /\ \A i \in DOMAIN results : i # id /\ results'[i] = results[i]
    BY <1>1, <1>2
<1>4. \A i \in DOMAIN results' : results'[i] \in Results
    BY <1>0, <1>3 DEF SettingsInv, SettingsTyped, Results
<1>5. ResultsPoint'
    BY <1>0, <1>2, <1>3 DEF SettingsInv, ResultsPoint
<1>6. AppliedOnce'
  <2> SUFFICES ASSUME NEW n \in 1..Len(applied')
               PROVE  applied'[n] \in DOMAIN results' /\ results'[applied'[n]].response = n
      BY DEF AppliedOnce
  <2>1. CASE n = Len(applied) + 1
      BY <1>2, <1>3, <2>1
  <2>2. CASE n \in 1..Len(applied)
      BY <1>2, <1>3, <2>2 DEF SettingsInv, AppliedOnce
  <2> QED BY <1>0, <1>2, <2>1, <2>2
<1> QED BY <1>2, <1>3, <1>4, <1>5, <1>6

(* A submitted change arrives for the first time: it is applied, and its   *)
(* answer saved.                                                           *)
LEMMA ServeWriteStep ==
    ASSUME SettingsInv, NEW t \in Tabs, NEW request \in wire[t], ServeWrite(t, request)
    PROVE  SettingsInv'
<1>0. request \in WriteRequests /\ request.id \in Identifiers /\ request.change \in Changes
    BY DEF SettingsInv, SettingsTyped, WriteRequests
<1>1. Update(request.id, request.change) /\ Respond(t, request)
    BY DEF ServeWrite
<1> DEFINE v == Len(applied) + 1
           answer == [request |-> request, version |-> v]
<1>2. /\ applied' \in Seq(Identifiers) /\ Len(applied') = v
      /\ DOMAIN results' = DOMAIN results \cup {request.id}
      /\ results'[request.id].response = v
      /\ \A i \in DOMAIN results : i # request.id /\ results'[i] = results[i]
      /\ \A i \in DOMAIN results' : results'[i] \in Results
      /\ ResultsPoint' /\ AppliedOnce'
    BY <1>0, <1>1, Updated, Zenon
<1> USE DEF SettingsInv, SettingsTyped
<1>3. v \in Nat /\ Len(applied) \in Nat /\ v >= Len(applied) /\ answer \in WriteAnswers
    BY <1>0 DEF WriteAnswers
<1>4. /\ wire' = [wire EXCEPT ![t] = @ \ {request}]
      /\ answers' = [answers EXCEPT ![t] = @ \cup {answer}]
      /\ tabs' = tabs /\ counts' = counts
    BY <1>1, <1>2 DEF Respond
<1> HIDE DEF v, answer
<1>5. SettingsTyped'
    BY <1>0, <1>2, <1>3, <1>4
<1>6. IdentifiersNew'
    BY <1>2, <1>4 DEF IdentifiersNew, Locked
<1>7. AnswersSaved'
    BY <1>2, <1>4 DEF AnswersSaved, answer
<1>8. PagesFollow'
  <2> SUFFICES ASSUME NEW u \in Tabs
               PROVE  /\ tabs[u].confirmed <= v
                      /\ tabs[u].shown # NoRead => tabs[u].shown >= tabs[u].confirmed
                      /\ tabs[u].reading \in Nat => tabs[u].reading >= tabs[u].confirmed
                      /\ tabs[u].write # "none" /\ tabs[u].attempt.id \in DOMAIN results' =>
                             results'[tabs[u].attempt.id].response >= tabs[u].confirmed
      BY <1>2, <1>4 DEF PagesFollow, Locked
  <2>1. tabs[u].confirmed \in Nat /\ tabs[u].confirmed <= Len(applied)
      BY DEF PagesFollow, Pages
  <2>2. tabs[u].confirmed <= v
      BY <1>3, <2>1
  <2> QED BY <1>2, <2>2 DEF PagesFollow, Locked
<1> QED BY <1>2, <1>5, <1>6, <1>7, <1>8

(* A repeated submission finds the result of the first one.                *)
LEMMA ServeRetryStep ==
    ASSUME SettingsInv, NEW t \in Tabs, NEW request \in wire[t], ServeRetry(t, request)
    PROVE  SettingsInv'
<1> USE DEF SettingsInv, SettingsTyped
<1>0. /\ request \in WriteRequests /\ request.id \in DOMAIN results
      /\ UNCHANGED <<applied, results, tabs, counts>>
    BY DEF ServeRetry, Repeated, Respond
<1> DEFINE answer == [request |-> request, version |-> results[request.id].response]
<1>1. /\ wire' = [wire EXCEPT ![t] = @ \ {request}]
      /\ answers' = [answers EXCEPT ![t] = @ \cup {answer}]
    BY <1>0 DEF ServeRetry, Respond
<1>2. answer \in WriteAnswers
    BY <1>0 DEF WriteAnswers, Results
<1> HIDE DEF answer
<1>3. SettingsTyped'
    BY <1>0, <1>1, <1>2
<1>4. AnswersSaved'
    BY <1>0, <1>1 DEF AnswersSaved, answer
<1>5. IdentifiersNew'
    BY <1>0, <1>1 DEF IdentifiersNew, Locked
<1> QED BY <1>0, <1>3, <1>4, <1>5 DEF ResultsPoint, AppliedOnce, PagesFollow, Locked

(* A script writes through the same interface, without a page.             *)
LEMMA ServeScriptStep ==
    ASSUME SettingsInv, NEW script \in Scripts, NEW change \in Changes,
           ServeScript(<<script, 0>>, change)
    PROVE  SettingsInv'
<1> DEFINE id == <<script, 0>>
           v == Len(applied) + 1
<1>0. id \in Identifiers /\ id[2] = 0
    BY DEF Identifiers
<1>1. Update(id, change) /\ UNCHANGED <<wire, answers, tabs>>
    BY DEF ServeScript
<1>2. /\ applied' \in Seq(Identifiers) /\ Len(applied') = v
      /\ DOMAIN results' = DOMAIN results \cup {id}
      /\ results'[id].response = v
      /\ \A i \in DOMAIN results : i # id /\ results'[i] = results[i]
      /\ \A i \in DOMAIN results' : results'[i] \in Results
      /\ ResultsPoint' /\ AppliedOnce'
    BY <1>0, <1>1, Updated, Zenon
<1> USE DEF SettingsInv, SettingsTyped
<1>3. /\ v \in Nat /\ Len(applied) \in Nat /\ v >= Len(applied)
      /\ counts.writes \in Nat /\ counts' \in [writes : Nat, reads : Nat]
      /\ counts'.writes = counts.writes + 1
    BY DEF ServeScript
<1> HIDE DEF v, id
<1>4. SettingsTyped'
    BY <1>0, <1>1, <1>2, <1>3
<1>5. IdentifiersNew'
  <2>1. \A i \in Identifiers : i[2] \in Nat
      BY DEF Identifiers
  <2>2. \A i \in Identifiers : i[2] < counts.writes => i[2] < counts'.writes
      BY <1>3, <2>1
  <2>3. id[2] < counts'.writes
      BY <1>0, <1>3
  <2>4. \A u \in Tabs : Locked(u) => tabs[u].attempt.id \in Identifiers
      BY DEF IdentifiersNew, Pages, WriteRequests
  <2>5. \A u \in Tabs : \A request \in wire[u] : request.id \in Identifiers
      BY DEF WriteRequests
  <2> QED BY <1>1, <1>2, <2>2, <2>3, <2>4, <2>5 DEF IdentifiersNew, Locked
<1>6. AnswersSaved'
    BY <1>1, <1>2 DEF AnswersSaved
<1>7. PagesFollow'
  <2> SUFFICES ASSUME NEW u \in Tabs
               PROVE  /\ tabs[u].confirmed <= v
                      /\ tabs[u].shown # NoRead => tabs[u].shown >= tabs[u].confirmed
                      /\ tabs[u].reading \in Nat => tabs[u].reading >= tabs[u].confirmed
                      /\ tabs[u].write # "none" /\ tabs[u].attempt.id \in DOMAIN results' =>
                             results'[tabs[u].attempt.id].response >= tabs[u].confirmed
      BY <1>1, <1>2 DEF PagesFollow, Locked
  <2>1. tabs[u].confirmed \in Nat /\ tabs[u].confirmed <= Len(applied)
      BY DEF PagesFollow, Pages
  <2>2. tabs[u].confirmed <= v
      BY <1>3, <2>1
  <2> QED BY <1>2, <2>2 DEF PagesFollow, Locked
<1> QED BY <1>2, <1>4, <1>5, <1>6, <1>7

(* A step that changes the page of one tab at most, and sends what it      *)
(* holds.                                                                  *)
LEMMA PageChanges ==
    ASSUME SettingsInv, NEW t \in Tabs, NEW view \in Pages,
           tabs' = [tabs EXCEPT ![t] = view],
           UNCHANGED <<applied, results>>,
           counts' \in [writes : Nat, reads : Nat], counts.writes <= counts'.writes,
           \/ wire' = wire
           \/ view.attempt # NoAttempt /\ wire' = [wire EXCEPT ![t] = @ \cup {view.attempt}],
           answers' = answers \/ answers' = [answers EXCEPT ![t] = {}],
           view.write # "none" =>
               /\ view.attempt # NoAttempt
               /\ view.attempt.id[2] < counts'.writes
               /\ view.attempt.id \in DOMAIN results =>
                      results[view.attempt.id].response >= view.confirmed,
           wire' # wire => view.write # "none",
           view.confirmed <= Len(applied),
           view.shown # NoRead => view.shown >= view.confirmed,
           view.reading \in Nat => view.reading >= view.confirmed
    PROVE  SettingsInv'
<1> USE DEF SettingsInv, SettingsTyped
<1>0. view.attempt # NoAttempt => view.attempt \in WriteRequests
    BY DEF Pages
<1>1. SettingsTyped'
    BY <1>0
<1>2. IdentifiersNew'
  <2>1. \A i \in Identifiers : i[2] < counts.writes => i[2] < counts'.writes
    <3>1. \A i \in Identifiers : i[2] \in Nat
        BY DEF Identifiers
    <3> QED BY <3>1
  <2>2. \A u \in Tabs : Locked(u) => tabs[u].attempt.id \in Identifiers
      BY DEF IdentifiersNew, Pages, WriteRequests, Locked
  <2>3. \A u \in Tabs : \A request \in wire[u] : request.id \in Identifiers
      BY DEF WriteRequests
  <2>4. \A id \in DOMAIN results' : id[2] < counts'.writes
      BY <2>1 DEF IdentifiersNew
  <2>5. ASSUME NEW u \in Tabs, NEW request \in wire'[u]
        PROVE  request.id[2] < counts'.writes
    <3>1. request \in wire[u] \/ (request = view.attempt /\ wire' # wire)
        BY <2>5
    <3> QED BY <2>1, <2>3, <3>1 DEF IdentifiersNew
  <2>6. ASSUME NEW u \in Tabs, tabs'[u].write # "none"
        PROVE  tabs'[u].attempt # NoAttempt /\ tabs'[u].attempt.id[2] < counts'.writes
    <3>1. CASE u = t
        BY <2>6, <3>1
    <3>2. CASE u # t
        BY <2>1, <2>2, <2>6, <3>2 DEF IdentifiersNew, Locked
    <3> QED BY <3>1, <3>2
  <2> QED BY <2>4, <2>5, <2>6 DEF IdentifiersNew, Locked
<1>3. AnswersSaved'
    BY DEF AnswersSaved
<1>4. PagesFollow'
  <2> SUFFICES ASSUME NEW u \in Tabs
               PROVE  /\ tabs'[u].confirmed <= Len(applied)
                      /\ tabs'[u].shown # NoRead => tabs'[u].shown >= tabs'[u].confirmed
                      /\ tabs'[u].reading \in Nat => tabs'[u].reading >= tabs'[u].confirmed
                      /\ tabs'[u].write # "none" /\ tabs'[u].attempt.id \in DOMAIN results =>
                             results[tabs'[u].attempt.id].response >= tabs'[u].confirmed
      BY DEF PagesFollow, Locked
  <2>1. CASE u = t
      BY <2>1
  <2>2. CASE u # t
      BY <2>2 DEF PagesFollow, Locked
  <2> QED BY <2>1, <2>2
<1>5. ResultsPoint' /\ AppliedOnce'
    BY DEF ResultsPoint, AppliedOnce
<1> QED BY <1>1, <1>2, <1>3, <1>4, <1>5

(* What the invariant says of one page.                                    *)
LEMMA PageOf ==
    ASSUME SettingsInv, NEW t \in Tabs
    PROVE  /\ tabs[t] \in Pages /\ counts \in [writes : Nat, reads : Nat]
           /\ tabs[t].confirmed \in Nat
           /\ tabs[t].confirmed <= Len(applied) /\ Len(applied) \in Nat
           /\ tabs[t].shown # NoRead => tabs[t].shown >= tabs[t].confirmed
           /\ tabs[t].reading \in Nat => tabs[t].reading >= tabs[t].confirmed
           /\ tabs[t].write # "none" =>
                 /\ tabs[t].attempt # NoAttempt
                 /\ tabs[t].attempt \in WriteRequests
                 /\ tabs[t].attempt.id[2] < counts.writes
                 /\ tabs[t].attempt.id \in DOMAIN results =>
                        results[tabs[t].attempt.id].response >= tabs[t].confirmed
<1>1. tabs[t] \in Pages
    BY DEF SettingsInv, SettingsTyped
<1> QED BY <1>1
        DEF SettingsInv, SettingsTyped, IdentifiersNew, PagesFollow, Locked, Pages

(* A page submits a change under an identifier that nobody has used.       *)
LEMMA SubmitStep ==
    ASSUME SettingsInv, NEW t \in Tabs, NEW change \in Changes, SubmitChange(t, change)
    PROVE  SettingsInv'
<1> DEFINE n == counts.writes
           request == [id |-> <<t, n>>, change |-> change]
           view == [tabs[t] EXCEPT !.reading = NoRead, !.attempt = request, !.write = "sent"]
<1>1. /\ n \in Nat /\ counts' \in [writes : Nat, reads : Nat] /\ counts'.writes = n + 1
      /\ request \in WriteRequests /\ request.id = <<t, n>>
    BY PageOf DEF SubmitChange, WriteRequests, Identifiers
<1>2. request # NoAttempt
  <2>1. DOMAIN request = {"id", "change"} /\ DOMAIN NoAttempt = {}
      BY DEF NoAttempt
  <2> QED BY <2>1
<1>3. <<t, n>> \notin DOMAIN results
  <2>1. ~(<<t, n>>[2] < n)
      BY <1>1
  <2> QED BY <2>1 DEF SettingsInv, IdentifiersNew
<1>4. /\ tabs' = [tabs EXCEPT ![t].reading = NoRead, ![t].attempt = request,
                              ![t].write = "sent"]
      /\ wire' = [wire EXCEPT ![t] = @ \cup {request}]
      /\ UNCHANGED <<applied, results, answers>>
    BY DEF SubmitChange, Send
<1> HIDE DEF n, request
<1>5. /\ view \in Pages /\ view.attempt = request /\ view.write = "sent"
      /\ view.reading = NoRead /\ view.shown = tabs[t].shown
      /\ view.confirmed = tabs[t].confirmed
    BY <1>1, PageOf DEF Pages, NoRead
<1>6. tabs' = [tabs EXCEPT ![t] = view]
    BY <1>4 DEF SettingsInv, SettingsTyped
<1> HIDE DEF view
<1>7. ~(NoRead \in Nat)
    BY DEF NoRead
<1>8. n <= n + 1 /\ <<t, n>>[2] < n + 1
    BY <1>1
<1>9. counts.writes <= counts'.writes /\ request.id[2] < counts'.writes
      /\ request.id \notin DOMAIN results
    BY <1>1, <1>3, <1>8 DEF n
<1>10. /\ view.confirmed <= Len(applied)
       /\ view.shown # NoRead => view.shown >= view.confirmed
       /\ ~(view.reading \in Nat)
    BY <1>5, <1>7, PageOf
<1>11. /\ view.attempt # NoAttempt /\ wire' = [wire EXCEPT ![t] = @ \cup {view.attempt}]
       /\ view.attempt.id[2] < counts'.writes /\ view.attempt.id \notin DOMAIN results
    BY <1>2, <1>4, <1>5, <1>9
<1> QED BY <1>1, <1>4, <1>5, <1>6, <1>9, <1>10, <1>11, PageChanges

(* A page repeats its submission, under the identifier it keeps.           *)
LEMMA RetrySaveStep ==
    ASSUME SettingsInv, NEW t \in Tabs, RetrySave(t) PROVE SettingsInv'
<1> DEFINE view == [tabs[t] EXCEPT !.reading = NoRead, !.write = "sent"]
<1>1. /\ tabs[t] \in Pages /\ counts \in [writes : Nat, reads : Nat]
      /\ tabs[t].write = "uncertain" /\ tabs[t].attempt # NoAttempt
      /\ counts' = counts /\ counts.writes <= counts.writes
    BY PageOf DEF RetrySave
<1>2. /\ view \in Pages /\ view.attempt = tabs[t].attempt /\ view.write = "sent"
      /\ view.reading = NoRead /\ view.shown = tabs[t].shown
      /\ view.confirmed = tabs[t].confirmed
    BY <1>1 DEF Pages, NoRead
<1>3. tabs' = [tabs EXCEPT ![t] = view]
    BY <1>1 DEF RetrySave, Send, SettingsInv, SettingsTyped, Pages
<1>4. /\ wire' = [wire EXCEPT ![t] = @ \cup {tabs[t].attempt}]
      /\ UNCHANGED <<applied, results, answers>>
    BY DEF RetrySave, Send
<1> HIDE DEF view
<1>5. ~(NoRead \in Nat)
    BY DEF NoRead
<1> QED BY <1>1, <1>2, <1>3, <1>4, <1>5, PageOf, PageChanges

(* A page accepts the answer to its own submission.                        *)
LEMMA ConfirmStep ==
    ASSUME SettingsInv, NEW t \in Tabs, NEW answer \in answers[t], ConfirmSave(t, answer)
    PROVE  SettingsInv'
<1> DEFINE v == answer.version
           view == [tabs[t] EXCEPT !.shown = v, !.reading = NoRead, !.attempt = NoAttempt,
                                   !.write = "none", !.confirmed = v]
<1>1. /\ tabs[t] \in Pages /\ counts \in [writes : Nat, reads : Nat]
      /\ tabs[t].write = "sent" /\ answer.request = tabs[t].attempt
      /\ counts' = counts /\ counts.writes <= counts.writes
    BY PageOf DEF ConfirmSave
<1>2. /\ v \in Nat /\ v <= Len(applied) /\ v >= tabs[t].confirmed
      /\ tabs[t].confirmed \in Nat
  <2>1. answer.request.id \in DOMAIN results /\ v = results[answer.request.id].response
      BY DEF SettingsInv, AnswersSaved
  <2>2. v \in 1..Len(applied)
      BY <2>1 DEF SettingsInv, ResultsPoint
  <2>3. v >= tabs[t].confirmed
      BY <1>1, <2>1, PageOf
  <2> QED BY <2>2, <2>3, PageOf
<1>3. Max({tabs[t].confirmed, v}) = v
    BY <1>2, MaxOfTwo
<1>4. tabs' = [tabs EXCEPT ![t] = Confirmed(tabs[t], v)]
    BY DEF ConfirmSave, SettingsInv, SettingsTyped
<1>5. Confirmed(tabs[t], v) = view
    BY <1>1, <1>3 DEF Confirmed, Pages
<1>6. /\ view \in Pages /\ view.write = "none"
      /\ view.reading = NoRead /\ view.shown = v /\ view.confirmed = v
    BY <1>1, <1>2 DEF Pages
<1>7. answers' = [answers EXCEPT ![t] = {}] /\ UNCHANGED <<applied, results, wire>>
    BY DEF ConfirmSave
<1> HIDE DEF view, v
<1>8. ~(NoRead \in Nat) /\ v >= v
    BY <1>2 DEF NoRead
<1> QED BY <1>1, <1>2, <1>4, <1>5, <1>6, <1>7, <1>8, PageOf, PageChanges

(* Reads, lost answers and reloads.                                        *)
LEMMA ReadStep ==
    ASSUME SettingsInv, NEW t \in Tabs,
           WriteUncertain(t) \/ Reread(t) \/ ServeRead(t) \/ FinishRead(t)
    PROVE  SettingsInv'
<1>0. /\ tabs[t] \in Pages /\ counts \in [writes : Nat, reads : Nat]
      /\ counts.writes <= counts.writes /\ NoRead \notin Nat /\ Asked \notin Nat
    BY PageOf DEF NoRead, Asked
<1>1. CASE WriteUncertain(t)
  <2> DEFINE view == [tabs[t] EXCEPT !.write = "uncertain"]
  <2>1. /\ view \in Pages /\ view.attempt = tabs[t].attempt
        /\ view.reading = tabs[t].reading /\ view.shown = tabs[t].shown
        /\ view.confirmed = tabs[t].confirmed
        /\ tabs[t].write # "none"
      BY <1>0, <1>1 DEF Pages, WriteUncertain
  <2>2. tabs' = [tabs EXCEPT ![t] = view] /\ answers' = [answers EXCEPT ![t] = {}]
        /\ UNCHANGED <<applied, results, wire, counts>>
      BY <1>1 DEF WriteUncertain, SettingsInv, SettingsTyped
  <2> HIDE DEF view
  <2> QED BY <1>0, <2>1, <2>2, PageOf, PageChanges
<1>2. CASE Reread(t)
  <2> DEFINE view == [tabs[t] EXCEPT !.reading = Asked]
  <2>1. /\ view \in Pages /\ view.attempt = tabs[t].attempt /\ view.write = tabs[t].write
        /\ view.reading = Asked /\ view.shown = tabs[t].shown
        /\ view.confirmed = tabs[t].confirmed
      BY <1>0 DEF Pages
  <2>2. tabs' = [tabs EXCEPT ![t] = view] /\ UNCHANGED <<applied, results, wire, answers>>
      BY <1>2 DEF Reread, SettingsInv, SettingsTyped
  <2>3. counts' \in [writes : Nat, reads : Nat] /\ counts'.writes = counts.writes
      BY <1>0, <1>2 DEF Reread
  <2> HIDE DEF view
  <2> QED BY <1>0, <2>1, <2>2, <2>3, PageOf, PageChanges
<1>3. CASE ServeRead(t)
  <2> DEFINE view == [tabs[t] EXCEPT !.reading = Len(applied)]
  <2>1. /\ view \in Pages /\ view.attempt = tabs[t].attempt /\ view.write = tabs[t].write
        /\ view.reading = Len(applied) /\ view.shown = tabs[t].shown
        /\ view.confirmed = tabs[t].confirmed
      BY <1>0, PageOf DEF Pages
  <2>2. tabs' = [tabs EXCEPT ![t] = view]
        /\ UNCHANGED <<applied, results, wire, answers, counts>>
      BY <1>3 DEF ServeRead, SettingsInv, SettingsTyped
  <2>3. Len(applied) >= tabs[t].confirmed
      BY PageOf
  <2> HIDE DEF view
  <2> QED BY <1>0, <2>1, <2>2, <2>3, PageOf, PageChanges
<1>4. CASE FinishRead(t)
  <2> DEFINE view == [tabs[t] EXCEPT !.shown = tabs[t].reading, !.reading = NoRead]
  <2>1. tabs[t].reading \in Nat
      BY <1>0, <1>4 DEF FinishRead, Pages
  <2>2. /\ view \in Pages /\ view.attempt = tabs[t].attempt /\ view.write = tabs[t].write
        /\ view.reading = NoRead /\ view.shown = tabs[t].reading
        /\ view.confirmed = tabs[t].confirmed
      BY <1>0, <2>1 DEF Pages
  <2>3. tabs' = [tabs EXCEPT ![t] = view]
        /\ UNCHANGED <<applied, results, wire, answers, counts>>
      BY <1>4 DEF FinishRead, SettingsInv, SettingsTyped
  <2> HIDE DEF view
  <2> QED BY <1>0, <2>1, <2>2, <2>3, PageOf, PageChanges
<1> QED BY <1>1, <1>2, <1>3, <1>4

(* A page that is loaded again has confirmed nothing and asks for the      *)
(* settings.                                                               *)
LEMMA ReloadStep ==
    ASSUME SettingsInv, NEW t \in Tabs, ReloadSettings(t) PROVE SettingsInv'
<1> DEFINE view == [Reloaded EXCEPT !.confirmed = tabs[t].confirmed]
<1>1. /\ view \in Pages /\ view.write = "none" /\ view.reading = Asked /\ view.shown = NoRead
      /\ view.confirmed = tabs[t].confirmed
    BY PageOf DEF Pages, Reloaded
<1>2. /\ tabs' = [tabs EXCEPT ![t] = view] /\ answers' = [answers EXCEPT ![t] = {}]
      /\ UNCHANGED <<applied, results, wire>>
    BY DEF ReloadSettings
<1>3. /\ counts' \in [writes : Nat, reads : Nat] /\ counts'.writes = counts.writes
      /\ counts.writes <= counts.writes
    BY PageOf DEF ReloadSettings
<1> HIDE DEF view
<1>4. ~(Asked \in Nat)
    BY DEF Asked
<1> QED BY <1>1, <1>2, <1>3, <1>4, PageOf, PageChanges

(* Every step keeps the invariant.                                         *)
LEMMA SettingsStep ==
    ASSUME SettingsInv, [SettingsNext]_settingsVars PROVE SettingsInv'
<1>1. CASE UNCHANGED settingsVars
    BY <1>1 DEF settingsVars, SettingsInv, SettingsTyped, ResultsPoint, AppliedOnce,
       IdentifiersNew, AnswersSaved, PagesFollow, Locked
<1> QED BY <1>1, ServeWriteStep, ServeRetryStep, ServeScriptStep, SubmitStep, ConfirmStep,
           RetrySaveStep, ReloadStep, ReadStep DEF SettingsNext

(* The saved settings: a change is applied once however often its request *)
(* arrives, and a page never shows settings older than those it has       *)
(* confirmed as saved (storage.py, configuration_panel.tsx).              *)
THEOREM SettingsStay == SettingsSpec => []ConfirmedSettingsStay
<1>1. SettingsInv /\ [SettingsNext]_settingsVars => SettingsInv'
    BY SettingsStep
<1>2. SettingsInv => ConfirmedSettingsStay
    BY SettingsHold
<1> QED BY SettingsStart, <1>1, <1>2, PTL DEF SettingsSpec

-----------------------------------------------------------------------------
(* The job feed                                                            *)

(* A nonempty set of natural numbers has a smallest element.               *)
LEMMA Smallest ==
    ASSUME NEW F \in SUBSET Nat, F # {}
    PROVE  \E x \in F : \A y \in F : x <= y
<1>1. PICK x \in F : \A y \in F : ~ (<<y, x>> \in OpToRel(<, Nat))
  <2>1. IsWellFoundedOn(OpToRel(<, Nat), Nat)
      BY NatLessThanWellFounded, Zenon
  <2> QED BY <2>1, WFMin, Zenon
<1>2. ASSUME NEW y \in F PROVE x <= y
  <2>1. <<y, x>> \in Nat \X Nat
      OBVIOUS
  <2>2. ~ (<<y, x>>[1] < <<y, x>>[2])
      BY <1>1, <2>1, Zenon DEF OpToRel
  <2> QED BY <2>2
<1> QED BY <1>2

(* So a bounded one has a largest, which Max chooses.                      *)
LEMMA Largest ==
    ASSUME NEW n \in Nat, NEW F \in SUBSET (0..n), F # {}
    PROVE  Max(F) \in F /\ \A y \in F : Max(F) >= y
<1> DEFINE gaps == {n - y : y \in F}
<1>1. gaps \in SUBSET Nat /\ gaps # {}
  <2>1. \A y \in F : n - y \in Nat
      OBVIOUS
  <2> QED BY <2>1
<1>2. PICK gap \in gaps : \A g \in gaps : gap <= g
    BY <1>1, Smallest
<1>3. PICK x \in F : gap = n - x
    OBVIOUS
<1>4. \A y \in F : x >= y
    BY <1>2, <1>3
<1>5. \E m \in F : \A y \in F : m >= y
    BY <1>4
<1> QED BY <1>5, Zenon DEF Max

Saved == [job : FeedJobs, active : BOOLEAN]
Versions == [FeedJobs -> Nat]
Events == [id : Nat, jobs : Versions]

FeedTyped ==
    /\ log \in Seq(Saved)
    /\ stream \in [open : BOOLEAN, cursor : Nat, sent : Seq(Events)]
    /\ replies \subseteq Versions
    /\ page \in [cursor : Nat \cup {NoCursor}, jobs : Versions, reloads : Nat]

(* A list of jobs is made of snapshots that were saved.                    *)
Snapshots(jobs) ==
    \A j \in FeedJobs : jobs[j] # Unseen => jobs[j] \in 1..Len(log) /\ log[jobs[j]].job = j

(* A list shows every event up to n; an event shows at least its own job.  *)
ShowsUpTo(jobs, n) == \A e \in 1..Len(log) : e <= n => jobs[log[e].job] >= e
ShowsItself(event) == event.id \in 1..Len(log) /\ event.jobs[log[event.id].job] >= event.id

SnapshotsSaved ==
    /\ Snapshots(page.jobs) /\ \A jobs \in replies : Snapshots(jobs)
    /\ \A k \in 1..Len(stream.sent) : Snapshots(stream.sent[k].jobs)

(* The page has all that its cursor says.                                  *)
CursorShown == page.cursor <= Len(log) /\ ShowsUpTo(page.jobs, page.cursor)

(* What was sent and not received leads without a gap from the cursor of   *)
(* the page to the cursor of the stream, unless it begins with a snapshot. *)
StreamLeads ==
    stream.open =>
        /\ stream.cursor <= Len(log)
        /\ Len(stream.sent) <= stream.cursor + 1
        /\ \A k \in 1..Len(stream.sent) :
               /\ stream.sent[k].id = (stream.cursor - Len(stream.sent)) + k
               /\ k > 1 => ShowsItself(stream.sent[k])
        /\ IF stream.sent = <<>> THEN page.cursor = stream.cursor
           ELSE \/ ShowsUpTo(stream.sent[1].jobs, stream.sent[1].id)
                \/ /\ ShowsItself(stream.sent[1])
                   /\ page.cursor = stream.cursor - Len(stream.sent)

FeedInv == FeedTyped /\ SnapshotsSaved /\ CursorShown /\ StreamLeads

(* The entries of the log.                                                 *)
LEMMA LogEntries ==
    ASSUME log \in Seq(Saved)
    PROVE  /\ Len(log) \in Nat
           /\ \A e \in 1..Len(log) : e \in Nat /\ log[e] \in Saved /\ log[e].job \in FeedJobs
<1>1. ASSUME NEW e \in 1..Len(log) PROVE log[e] \in Saved
    OBVIOUS
<1>2. \A s \in Saved : s.job \in FeedJobs
    BY DEF Saved
<1> QED BY <1>1, <1>2

(* The latest snapshot of a job.                                           *)
LEMMA LatestSnapshot ==
    ASSUME log \in Seq(Saved), NEW j \in FeedJobs
    PROVE  /\ Current(j) \in 0..Len(log)
           /\ Current(j) # Unseen => log[Current(j)].job = j
           /\ \A e \in 1..Len(log) : log[e].job = j => Current(j) >= e
<1> DEFINE F == {Unseen} \cup {e \in 1..Len(log) : log[e].job = j}
<1>1. Len(log) \in Nat
    OBVIOUS
<1>2. F \in SUBSET (0..Len(log)) /\ F # {}
    BY <1>1 DEF Unseen
<1> HIDE DEF F
<1>3. Max(F) \in F /\ \A y \in F : Max(F) >= y
    BY <1>1, <1>2, Largest
<1>4. Current(j) = Max(F)
    BY DEF F, Current
<1> QED BY <1>2, <1>3, <1>4 DEF F

(* A list of jobs is as new as the log.                                    *)
LEMMA ListIsCurrent ==
    ASSUME log \in Seq(Saved)
    PROVE  /\ JobRows \in Versions /\ Snapshots(JobRows)
           /\ \A n \in Nat : ShowsUpTo(JobRows, n)
           /\ \A j \in FeedJobs : OneJob(j) \in Versions /\ Snapshots(OneJob(j))
<1>0. Len(log) \in Nat /\ \A e \in 1..Len(log) : log[e].job \in FeedJobs
    BY LogEntries
<1>1. \A j \in FeedJobs : /\ Current(j) \in Nat
                          /\ Current(j) # Unseen =>
                                 Current(j) \in 1..Len(log) /\ log[Current(j)].job = j
    BY <1>0, LatestSnapshot DEF Unseen
<1>2. JobRows \in Versions /\ Snapshots(JobRows)
    BY <1>1 DEF JobRows, Versions, Snapshots
<1>3. \A n \in Nat : ShowsUpTo(JobRows, n)
    BY <1>0, LatestSnapshot DEF JobRows, ShowsUpTo
<1>4. ASSUME NEW j \in FeedJobs PROVE OneJob(j) \in Versions /\ Snapshots(OneJob(j))
    BY <1>1 DEF OneJob, NoJobs, Versions, Snapshots, Unseen
<1> QED BY <1>2, <1>3, <1>4

(* The merge keeps what is newer.                                          *)
LEMMA Merged ==
    ASSUME NEW shown \in Versions, NEW incoming \in Versions
    PROVE  LET jobs == MergeJobs(shown, incoming) IN
           /\ jobs \in Versions
           /\ \A j \in FeedJobs : jobs[j] >= shown[j] /\ jobs[j] >= incoming[j]
           /\ Snapshots(shown) /\ Snapshots(incoming) => Snapshots(jobs)
<1>1. \A j \in FeedJobs : shown[j] \in Nat /\ incoming[j] \in Nat
    BY DEF Versions
<1>2. /\ MergeJobs(shown, incoming) \in [FeedJobs -> Nat]
      /\ \A j \in FeedJobs :
            /\ MergeJobs(shown, incoming)[j] \in {shown[j], incoming[j]}
            /\ MergeJobs(shown, incoming)[j] >= shown[j]
            /\ MergeJobs(shown, incoming)[j] >= incoming[j]
    BY <1>1 DEF MergeJobs
<1> HIDE DEF MergeJobs
<1> QED BY <1>2 DEF Versions, Snapshots

LEMMA MergedShows ==
    ASSUME log \in Seq(Saved), NEW shown \in Versions, NEW incoming \in Versions, NEW n \in Int,
           ShowsUpTo(shown, n)
    PROVE  ShowsUpTo(MergeJobs(shown, incoming), n)
<1>1. \A e \in 1..Len(log) : log[e].job \in FeedJobs /\ e \in Nat
    BY LogEntries
<1>2. \A j \in FeedJobs : /\ MergeJobs(shown, incoming)[j] >= shown[j]
                          /\ MergeJobs(shown, incoming)[j] \in Nat /\ shown[j] \in Nat
    BY Merged DEF Versions
<1> QED BY <1>1, <1>2 DEF ShowsUpTo

(* The invariant gives what is said of the states.                         *)
LEMMA FeedHolds ==
    ASSUME FeedInv
    PROVE  /\ \A e \in 1..Len(log) : e <= page.cursor => page.jobs[log[e].job] >= e
           /\ stream.open /\ stream.sent = <<>> /\ stream.cursor = Len(log) =>
                  page.jobs = JobRows
<1>0. /\ log \in Seq(Saved) /\ Len(log) \in Nat /\ page.jobs \in Versions
      /\ Snapshots(page.jobs)
    BY DEF FeedInv, FeedTyped, SnapshotsSaved
<1>1. ShowsUpTo(page.jobs, page.cursor)
    BY DEF FeedInv, CursorShown
<1>2. ASSUME stream.open, stream.sent = <<>>, stream.cursor = Len(log)
      PROVE  page.jobs = JobRows
  <2>1. page.cursor = Len(log)
      BY <1>2 DEF FeedInv, StreamLeads
  <2>2. ASSUME NEW j \in FeedJobs PROVE page.jobs[j] = Current(j)
    <3>1. page.jobs[j] \in Nat
        BY <1>0 DEF Versions
    <3>2. page.jobs[j] <= Current(j)
      <4>1. CASE page.jobs[j] = Unseen
          BY <1>0, <4>1, LatestSnapshot DEF Unseen
      <4>2. CASE page.jobs[j] # Unseen
          BY <1>0, <3>1, <4>2, LatestSnapshot DEF Snapshots
      <4> QED BY <4>1, <4>2
    <3>3. page.jobs[j] >= Current(j)
        BY <1>0, <1>1, <2>1, <3>1, LatestSnapshot DEF ShowsUpTo, Unseen
    <3>4. Current(j) \in Nat
        BY <1>0, LatestSnapshot
    <3> QED BY <3>1, <3>2, <3>3, <3>4
  <2> QED BY <1>0, <2>2 DEF JobRows, Versions
<1> QED BY <1>1, <1>2 DEF ShowsUpTo

(* At first there are no events, and the page shows no jobs.               *)
LEMMA FeedStart == FeedInit => FeedInv
<1> SUFFICES ASSUME FeedInit PROVE FeedInv
    OBVIOUS
<1>1. /\ log = <<>> /\ Len(log) = 0 /\ stream = Closed0 /\ replies = {}
      /\ page = [cursor |-> NoCursor, jobs |-> NoJobs, reloads |-> 0]
    BY DEF FeedInit
<1>2. NoJobs \in Versions /\ Snapshots(NoJobs)
    BY DEF NoJobs, Unseen, Versions, Snapshots
<1>3. FeedTyped
    BY <1>1, <1>2 DEF FeedTyped, Closed0, NoCursor
<1>4. SnapshotsSaved
    BY <1>1, <1>2 DEF SnapshotsSaved, Closed0
<1>5. CursorShown /\ StreamLeads
    BY <1>1 DEF CursorShown, ShowsUpTo, StreamLeads, Closed0, NoCursor
<1> QED BY <1>3, <1>4, <1>5 DEF FeedInv

(* What is known of the fields.                                            *)
LEMMA FeedFields ==
    ASSUME FeedInv
    PROVE  /\ log \in Seq(Saved) /\ Len(log) \in Nat
           /\ stream = [open |-> stream.open, cursor |-> stream.cursor, sent |-> stream.sent]
           /\ stream.open \in BOOLEAN /\ stream.cursor \in Nat /\ stream.sent \in Seq(Events)
           /\ Len(stream.sent) \in Nat
           /\ page = [cursor |-> page.cursor, jobs |-> page.jobs, reloads |-> page.reloads]
           /\ page.cursor \in Nat \cup {NoCursor} /\ page.cursor \in Int
           /\ page.jobs \in Versions /\ page.reloads \in Nat
<1>1. /\ log \in Seq(Saved) /\ stream \in [open : BOOLEAN, cursor : Nat, sent : Seq(Events)]
      /\ page \in [cursor : Nat \cup {NoCursor}, jobs : Versions, reloads : Nat]
    BY DEF FeedInv, FeedTyped
<1>2. /\ log \in Seq(Saved) /\ Len(log) \in Nat
      /\ stream = [open |-> stream.open, cursor |-> stream.cursor, sent |-> stream.sent]
      /\ stream.open \in BOOLEAN /\ stream.cursor \in Nat /\ stream.sent \in Seq(Events)
      /\ Len(stream.sent) \in Nat
    BY <1>1
<1>3. /\ page = [cursor |-> page.cursor, jobs |-> page.jobs, reloads |-> page.reloads]
      /\ page.cursor \in Nat \cup {NoCursor}
      /\ page.jobs \in Versions /\ page.reloads \in Nat
    BY <1>1
<1>4. page.cursor \in Int
    BY <1>3 DEF NoCursor
<1> QED BY <1>2, <1>3, <1>4

(* The invariant of a growing log: nothing shown or sent is lost.          *)
LEMMA SaveStep ==
    ASSUME FeedInv, NEW j \in FeedJobs, NEW active \in BOOLEAN, SaveJob(j, active)
    PROVE  FeedInv'
<1>0. /\ log \in Seq(Saved) /\ Len(log) \in Nat
      /\ stream' = stream /\ replies' = replies /\ page' = page
    BY DEF FeedInv, FeedTyped, SaveJob
<1> DEFINE entry == [job |-> j, active |-> active]
<1>1. entry \in Saved /\ log' = Append(log, entry)
    BY DEF Saved, SaveJob
<1> HIDE DEF entry
<1>2. /\ log' \in Seq(Saved) /\ Len(log') = Len(log) + 1
      /\ \A e \in 1..Len(log) : log'[e] = log[e]
    BY <1>0, <1>1
<1>3. ASSUME NEW jobs, Snapshots(jobs)
      PROVE  \A i \in FeedJobs : jobs[i] # Unseen =>
                 jobs[i] \in 1..Len(log') /\ log'[jobs[i]].job = i
    BY <1>0, <1>2, <1>3 DEF Snapshots
<1>4. ASSUME NEW jobs, NEW n \in Int, n <= Len(log), ShowsUpTo(jobs, n)
      PROVE  \A e \in 1..Len(log') : e <= n => jobs[log'[e].job] >= e
    BY <1>0, <1>2, <1>4 DEF ShowsUpTo
<1>5. ASSUME NEW event, ShowsItself(event)
      PROVE  event.id \in 1..Len(log') /\ event.jobs[log'[event.id].job] >= event.id
    BY <1>0, <1>2, <1>5 DEF ShowsItself
<1>6. FeedTyped'
    BY <1>0, <1>2 DEF FeedInv, FeedTyped
<1>7. SnapshotsSaved'
  <2>1. /\ Snapshots(page.jobs) /\ \A jobs \in replies : Snapshots(jobs)
        /\ \A k \in 1..Len(stream.sent) : Snapshots(stream.sent[k].jobs)
      BY DEF FeedInv, SnapshotsSaved
  <2> DEFINE Kept(jobs) == \A i \in FeedJobs : jobs[i] # Unseen =>
                              jobs[i] \in 1..Len(log') /\ log'[jobs[i]].job = i
  <2>2. \A jobs : Snapshots(jobs) => Kept(jobs)
      BY <1>3
  <2> HIDE DEF Kept
  <2>3. Kept(page.jobs) /\ \A jobs \in replies : Kept(jobs)
      BY <2>1, <2>2
  <2>4. \A k \in 1..Len(stream.sent) : Kept(stream.sent[k].jobs)
      BY <2>1, <2>2
  <2>5. SnapshotsSaved' = /\ Kept(page'.jobs) /\ \A jobs \in replies' : Kept(jobs)
                          /\ \A k \in 1..Len(stream'.sent) : Kept(stream'.sent[k].jobs)
      BY Zenon DEF SnapshotsSaved, Snapshots, Kept
  <2> QED BY <1>0, <2>3, <2>4, <2>5
<1>8. CursorShown'
  <2>1. page.cursor \in Int /\ page.cursor <= Len(log) /\ ShowsUpTo(page.jobs, page.cursor)
      BY FeedFields DEF FeedInv, CursorShown
  <2> QED BY <2>1, <1>0, <1>2, <1>4 DEF CursorShown, ShowsUpTo
<1>9. StreamLeads'
  <2> SUFFICES ASSUME stream.open PROVE StreamLeads'
      BY <1>0 DEF StreamLeads
  <2>1. /\ stream.cursor <= Len(log) /\ stream.cursor \in Nat /\ Len(stream.sent) \in Nat
        /\ stream.sent \in Seq(Events)
        /\ Len(stream.sent) <= stream.cursor + 1
        /\ \A k \in 1..Len(stream.sent) :
               /\ stream.sent[k].id = (stream.cursor - Len(stream.sent)) + k
               /\ k > 1 => ShowsItself(stream.sent[k])
        /\ stream.sent = <<>> => page.cursor = stream.cursor
        /\ stream.sent # <<>> =>
               \/ ShowsUpTo(stream.sent[1].jobs, stream.sent[1].id)
               \/ ShowsItself(stream.sent[1]) /\ page.cursor = stream.cursor - Len(stream.sent)
      BY FeedFields DEF FeedInv, StreamLeads
  <2>2. \A k \in 1..Len(stream.sent) : k > 1 => ShowsItself(stream.sent[k])'
      BY <2>1, <1>0, <1>5 DEF ShowsItself
  <2>3. ASSUME stream.sent # <<>>
        PROVE  \/ ShowsUpTo(stream.sent[1].jobs, stream.sent[1].id)'
               \/ /\ ShowsItself(stream.sent[1])'
                  /\ page.cursor = stream.cursor - Len(stream.sent)
    <3>1. CASE ShowsUpTo(stream.sent[1].jobs, stream.sent[1].id)
      <4>1. /\ Len(stream.sent) >= 1
            /\ stream.sent[1].id = (stream.cursor - Len(stream.sent)) + 1
          BY <2>1, <2>3
      <4>2. stream.sent[1].id \in Int /\ stream.sent[1].id <= Len(log)
          BY <4>1, <2>1, <1>0
      <4> QED BY <4>2, <3>1, <1>0, <1>4 DEF ShowsUpTo
    <3>2. CASE ShowsItself(stream.sent[1]) /\ page.cursor = stream.cursor - Len(stream.sent)
        BY <3>2, <1>0, <1>5 DEF ShowsItself
    <3> QED BY <2>1, <2>3, <3>1, <3>2
  <2>4. stream.cursor <= Len(log')
      BY <2>1, <1>0, <1>2
  <2> QED BY <2>1, <2>2, <2>3, <2>4, <1>0 DEF StreamLeads
<1> QED BY <1>6, <1>7, <1>8, <1>9 DEF FeedInv

(* A connection starts with nothing under way, or with a snapshot of       *)
(* everything.                                                             *)
LEMMA OpenStep ==
    ASSUME FeedInv, OpenStream
    PROVE  FeedInv'
<1>0. /\ log' = log /\ replies' = replies /\ page' = page
      /\ FeedTyped /\ SnapshotsSaved /\ CursorShown
    BY DEF FeedInv, OpenStream
<1>1. log \in Seq(Saved) /\ Len(log) \in Nat
    BY FeedFields
<1> DEFINE event == [id |-> Len(log), jobs |-> JobRows]
           fresh == [open |-> TRUE, cursor |-> Len(log), sent |-> <<event>>]
           rest == [open |-> TRUE, cursor |-> page.cursor, sent |-> <<>>]
<1>2. /\ event \in Events /\ event.id = Len(log) /\ event.jobs = JobRows
      /\ Snapshots(JobRows) /\ ShowsUpTo(JobRows, Len(log))
    BY <1>1, ListIsCurrent DEF Events
<1>3. CASE page.cursor = NoCursor
  <2> HIDE DEF event
  <2>1. stream' = fresh
      BY <1>3 DEF OpenStream, event
  <2>2. /\ fresh.open = TRUE /\ fresh.cursor = Len(log) /\ fresh.sent = <<event>>
        /\ Len(<<event>>) = 1 /\ <<event>>[1] = event /\ <<event>> \in Seq(Events)
        /\ fresh \in [open : BOOLEAN, cursor : Nat, sent : Seq(Events)]
      BY <1>1, <1>2
  <2> HIDE DEF fresh
  <2>3. FeedTyped'
      BY <1>0, <2>1, <2>2 DEF FeedTyped
  <2>4. SnapshotsSaved' /\ CursorShown'
    <3>1. Snapshots(event.jobs)
        BY <1>2
    <3>2. \A k \in 1..Len(stream'.sent) : stream'.sent[k] = event
        BY <2>1, <2>2
    <3>3. SnapshotsSaved'
        BY <1>0, <3>1, <3>2 DEF SnapshotsSaved, Snapshots
    <3>4. CursorShown'
        BY <1>0 DEF CursorShown, ShowsUpTo
    <3> QED BY <3>3, <3>4
  <2>5. StreamLeads'
      BY <1>0, <1>1, <1>2, <2>1, <2>2 DEF StreamLeads, ShowsUpTo
  <2> QED BY <2>3, <2>4, <2>5 DEF FeedInv
<1>4. CASE page.cursor # NoCursor
  <2>1. stream' = rest
      BY <1>4 DEF OpenStream
  <2>2. /\ rest.open = TRUE /\ rest.cursor = page.cursor /\ rest.sent = <<>>
        /\ page.cursor \in Nat
        /\ rest \in [open : BOOLEAN, cursor : Nat, sent : Seq(Events)]
    <3>1. page.cursor \in Nat
        BY <1>4, FeedFields
    <3> QED BY <3>1
  <2> HIDE DEF rest
  <2>3. FeedTyped'
      BY <1>0, <2>1, <2>2 DEF FeedTyped
  <2>4. SnapshotsSaved' /\ CursorShown'
      BY <1>0, <2>1, <2>2 DEF SnapshotsSaved, Snapshots, CursorShown, ShowsUpTo
  <2>5. StreamLeads'
      BY <1>0, <1>1, <2>1, <2>2 DEF StreamLeads, CursorShown
  <2> QED BY <2>3, <2>4, <2>5 DEF FeedInv
<1> QED BY <1>3, <1>4

(* A stream that ends takes what it carried with it; the page keeps its    *)
(* cursor.                                                                 *)
LEMMA CloseStep ==
    ASSUME FeedInv, StreamEnds
    PROVE  FeedInv'
<1>1. /\ log' = log /\ replies' = replies /\ page' = page /\ stream' = Closed0
      /\ FeedTyped /\ SnapshotsSaved /\ CursorShown
    BY DEF FeedInv, StreamEnds
<1>2. FeedTyped' /\ SnapshotsSaved' /\ CursorShown'
    BY <1>1 DEF FeedTyped, SnapshotsSaved, Snapshots, CursorShown, ShowsUpTo, Closed0
<1>3. StreamLeads'
    BY <1>1 DEF StreamLeads, Closed0
<1> QED BY <1>2, <1>3 DEF FeedInv

(* A page that is loaded again starts from nothing.                        *)
LEMMA ReloadPageStep ==
    ASSUME FeedInv, ReloadPage
    PROVE  FeedInv'
<1>1. /\ log' = log /\ replies' = {} /\ stream' = Closed0
      /\ page' = [cursor |-> NoCursor, jobs |-> NoJobs, reloads |-> page.reloads + 1]
    BY DEF ReloadPage
<1>2. log \in Seq(Saved) /\ Len(log) \in Nat /\ page.reloads \in Nat
    BY FeedFields
<1>3. NoJobs \in Versions /\ Snapshots(NoJobs)'
    BY DEF NoJobs, Unseen, Versions, Snapshots
<1>4. /\ page' \in [cursor : Nat \cup {NoCursor}, jobs : Versions, reloads : Nat]
      /\ page'.cursor = NoCursor /\ page'.jobs = NoJobs
    BY <1>1, <1>2, <1>3
<1>5. FeedTyped'
    BY <1>1, <1>2, <1>4 DEF FeedTyped, Closed0
<1>6. SnapshotsSaved'
    BY <1>1, <1>3, <1>4 DEF SnapshotsSaved, Closed0, Snapshots
<1>7. CursorShown' /\ StreamLeads'
    BY <1>1, <1>2, <1>4 DEF CursorShown, ShowsUpTo, StreamLeads, Closed0, NoCursor
<1> QED BY <1>5, <1>6, <1>7 DEF FeedInv

(* The answers: taken while the log stands still.                          *)
LEMMA AnswerStep ==
    ASSUME FeedInv, AnswerList \/ (\E j \in FeedJobs : AnswerJob(j)) \/ LoseAnswer
    PROVE  FeedInv'
<1>1. log' = log /\ stream' = stream /\ page' = page
    BY DEF AnswerList, AnswerJob, LoseAnswer
<1>2. log \in Seq(Saved) /\ FeedTyped /\ SnapshotsSaved /\ CursorShown /\ StreamLeads
    BY FeedFields DEF FeedInv
<1>3. replies \subseteq Versions /\ \A jobs \in replies : Snapshots(jobs)
    BY <1>2 DEF FeedTyped, SnapshotsSaved
<1>4. replies' \subseteq Versions /\ \A jobs \in replies' : Snapshots(jobs)
  <2>1. CASE AnswerList
      BY <1>2, <1>3, <2>1, ListIsCurrent DEF AnswerList
  <2>2. ASSUME NEW j \in FeedJobs, AnswerJob(j)
        PROVE  replies' \subseteq Versions /\ \A jobs \in replies' : Snapshots(jobs)
      BY <1>2, <1>3, <2>2, ListIsCurrent DEF AnswerJob
  <2>3. CASE LoseAnswer
      BY <1>3, <2>3 DEF LoseAnswer
  <2> QED BY <2>1, <2>2, <2>3
<1>5. FeedTyped' /\ SnapshotsSaved'
    BY <1>1, <1>2, <1>4 DEF FeedTyped, SnapshotsSaved, Snapshots
<1>6. CursorShown' /\ StreamLeads'
    BY <1>1, <1>2 DEF CursorShown, StreamLeads, ShowsUpTo, ShowsItself
<1> QED BY <1>5, <1>6 DEF FeedInv

(* A late answer is merged: the page never loses what it had.              *)
LEMMA AcceptStep ==
    ASSUME FeedInv, AcceptAnswer
    PROVE  /\ FeedInv'
           /\ \A j \in FeedJobs : page'.jobs[j] >= page.jobs[j]
<1>0. PICK jobs \in replies : /\ replies' = replies \ {jobs}
                              /\ page' = [page EXCEPT !.jobs = MergeJobs(@, jobs)]
    BY DEF AcceptAnswer
<1>1. log' = log /\ stream' = stream
    BY DEF AcceptAnswer
<1>2. FeedTyped /\ SnapshotsSaved /\ CursorShown /\ StreamLeads
    BY DEF FeedInv
<1>3. /\ replies \subseteq Versions /\ \A r \in replies : Snapshots(r)
      /\ Snapshots(page.jobs)
    BY <1>2 DEF FeedTyped, SnapshotsSaved
<1> DEFINE merged == MergeJobs(page.jobs, jobs)
<1>4. /\ merged \in Versions /\ Snapshots(merged)
      /\ \A j \in FeedJobs : merged[j] >= page.jobs[j]
    BY <1>3, FeedFields, Merged
<1>5. ShowsUpTo(merged, page.cursor)
    BY <1>2, <1>3, FeedFields, MergedShows DEF CursorShown
<1>6. page' = [page EXCEPT !.jobs = merged]
    BY <1>0
<1> HIDE DEF merged
<1>7. /\ page'.jobs = merged /\ page'.cursor = page.cursor
      /\ page' \in [cursor : Nat \cup {NoCursor}, jobs : Versions, reloads : Nat]
    BY <1>4, <1>6, FeedFields
<1>8. FeedTyped'
    BY <1>0, <1>1, <1>2, <1>7 DEF FeedTyped
<1>9. SnapshotsSaved'
    BY <1>0, <1>1, <1>2, <1>4, <1>7 DEF SnapshotsSaved, Snapshots
<1>10. CursorShown' /\ StreamLeads'
    BY <1>1, <1>2, <1>5, <1>7 DEF CursorShown, StreamLeads, ShowsUpTo, ShowsItself
<1> QED BY <1>4, <1>7, <1>8, <1>9, <1>10 DEF FeedInv

(* What waits on the way to the page.                                      *)
LEMMA SentEvents ==
    ASSUME FeedInv, stream.open, stream.sent # <<>>
    PROVE  LET sent == stream.sent
               first == stream.cursor - Len(stream.sent) IN
           /\ Len(sent) \in Nat /\ Len(sent) >= 1 /\ first >= -1 /\ first \in Int
           /\ stream.cursor \in Nat /\ stream.cursor <= Len(log)
           /\ \A k \in 1..Len(sent) :
                  /\ sent[k] \in Events /\ sent[k].id = first + k /\ Snapshots(sent[k].jobs)
                  /\ k > 1 => ShowsItself(sent[k])
           /\ \/ ShowsUpTo(sent[1].jobs, sent[1].id)
              \/ ShowsItself(sent[1]) /\ page.cursor = first
<1>1. /\ stream.sent \in Seq(Events) /\ stream.cursor \in Nat /\ Len(stream.sent) \in Nat
      /\ SnapshotsSaved /\ StreamLeads
    BY FeedFields DEF FeedInv
<1>2. Len(stream.sent) >= 1
    BY <1>1
<1>3. \A k \in 1..Len(stream.sent) : stream.sent[k] \in Events /\ Snapshots(stream.sent[k].jobs)
    BY <1>1 DEF SnapshotsSaved
<1>4. /\ stream.cursor <= Len(log) /\ Len(stream.sent) <= stream.cursor + 1
      /\ \A k \in 1..Len(stream.sent) :
             /\ stream.sent[k].id = (stream.cursor - Len(stream.sent)) + k
             /\ k > 1 => ShowsItself(stream.sent[k])
      /\ \/ ShowsUpTo(stream.sent[1].jobs, stream.sent[1].id)
         \/ /\ ShowsItself(stream.sent[1])
            /\ page.cursor = stream.cursor - Len(stream.sent)
    BY <1>1 DEF StreamLeads
<1> QED BY <1>1, <1>2, <1>3, <1>4

(* An event is merged: the page has what it had, and all up to the event.  *)
LEMMA ReceiveStep ==
    ASSUME FeedInv, ReceiveEvent
    PROVE  /\ FeedInv'
           /\ \A j \in FeedJobs : page'.jobs[j] >= page.jobs[j]
<1> DEFINE sent == stream.sent
           event == Head(sent)
           merged == MergeJobs(page.jobs, event.jobs)
           rest == Tail(sent)
           first == stream.cursor - Len(sent)
<1>0. /\ log' = log /\ replies' = replies /\ stream.open /\ sent # <<>>
      /\ page' = [page EXCEPT !.cursor = event.id, !.jobs = merged]
      /\ stream' = [stream EXCEPT !.sent = rest]
    BY DEF ReceiveEvent
<1>1. /\ FeedTyped /\ SnapshotsSaved /\ CursorShown /\ StreamLeads
      /\ log \in Seq(Saved) /\ Len(log) \in Nat /\ page.jobs \in Versions
      /\ page.cursor \in Int /\ sent \in Seq(Events) /\ event = sent[1]
      /\ Snapshots(page.jobs)
    BY <1>0, FeedFields DEF FeedInv, SnapshotsSaved
<1>2. /\ Len(sent) \in Nat /\ Len(sent) >= 1 /\ first >= -1 /\ first \in Int
      /\ stream.cursor \in Nat /\ stream.cursor <= Len(log)
      /\ \A k \in 1..Len(sent) :
             /\ sent[k] \in Events /\ sent[k].id = first + k /\ Snapshots(sent[k].jobs)
             /\ k > 1 => ShowsItself(sent[k])
      /\ \/ ShowsUpTo(sent[1].jobs, sent[1].id)
         \/ ShowsItself(sent[1]) /\ page.cursor = first
    BY <1>0, SentEvents
<1>3. /\ event \in Events /\ event.id = first + 1 /\ event.id \in Nat
      /\ event.jobs \in Versions /\ Snapshots(event.jobs)
    BY <1>1, <1>2 DEF Events
<1>4. /\ merged \in Versions /\ Snapshots(merged)
      /\ \A j \in FeedJobs : merged[j] >= page.jobs[j] /\ merged[j] >= event.jobs[j]
    BY <1>1, <1>3, Merged
<1>5. \A j \in FeedJobs : /\ merged[j] \in Nat /\ page.jobs[j] \in Nat
                          /\ event.jobs[j] \in Nat
    BY <1>1, <1>3, <1>4 DEF Versions
<1>6. ShowsUpTo(merged, event.id)
  <2>1. \A e \in 1..Len(log) : e \in Nat /\ log[e].job \in FeedJobs
      BY <1>1, LogEntries
  <2>2. CASE ShowsUpTo(event.jobs, event.id)
      BY <1>4, <1>5, <2>1, <2>2 DEF ShowsUpTo
  <2>3. CASE ShowsItself(event) /\ page.cursor = first
    <3>1. ShowsUpTo(page.jobs, first)
        BY <1>1, <2>3 DEF CursorShown
    <3>2. ASSUME NEW e \in 1..Len(log), e <= event.id PROVE merged[log[e].job] >= e
      <4>1. CASE e <= first
          BY <4>1, <3>1, <2>1, <1>4, <1>5 DEF ShowsUpTo
      <4>2. CASE e = event.id
          BY <4>2, <2>3, <2>1, <1>4, <1>5 DEF ShowsItself
      <4> QED BY <3>2, <4>1, <4>2, <2>1, <1>2, <1>3
    <3> QED BY <3>2 DEF ShowsUpTo
  <2> QED BY <1>1, <1>2, <2>2, <2>3
<1>7. /\ rest \in Seq(Events) /\ Len(rest) = Len(sent) - 1
      /\ \A k \in 1..Len(rest) : rest[k] = sent[k + 1] /\ k + 1 \in 1..Len(sent)
      /\ rest # <<>> => Len(rest) >= 1
      /\ rest = <<>> => Len(sent) = 1
  <2> DEFINE s == stream.sent
  <2>1. s \in Seq(Events) /\ s # <<>> /\ Len(s) \in Nat /\ Len(s) >= 1
      BY <1>0, <1>1, <1>2
  <2> HIDE DEF s
  <2>2. Tail(s) \in Seq(Events) /\ Len(Tail(s)) = Len(s) - 1
      BY <2>1
  <2>3. \A k \in 1..Len(Tail(s)) : Tail(s)[k] = s[k + 1] /\ k + 1 \in 1..Len(s)
      BY <2>1, <2>2
  <2>4. /\ Tail(s) # <<>> => Len(Tail(s)) >= 1
        /\ Tail(s) = <<>> => Len(s) = 1
      BY <2>1, <2>2
  <2> QED BY <2>2, <2>3, <2>4 DEF s
<1> DEFINE size == Len(sent)
           left == Len(rest)
<1>8. /\ size \in Nat /\ size >= 1 /\ left = size - 1 /\ stream.cursor \in Nat
       /\ first = stream.cursor - size /\ first >= -1 /\ event.id = first + 1
       /\ left \in Nat /\ left = Len(rest)
    BY <1>2, <1>3, <1>7
<1> HIDE DEF sent, event, merged, rest, first, size, left
<1>9. /\ page'.jobs = merged /\ page'.cursor = event.id
      /\ page' \in [cursor : Nat \cup {NoCursor}, jobs : Versions, reloads : Nat]
    BY <1>0, <1>3, <1>4, FeedFields
<1>10. /\ stream'.open = stream.open /\ stream'.cursor = stream.cursor /\ stream'.sent = rest
      /\ stream' \in [open : BOOLEAN, cursor : Nat, sent : Seq(Events)]
    BY <1>0, <1>7, FeedFields
<1>11. FeedTyped'
    BY <1>0, <1>1, <1>9, <1>10 DEF FeedTyped
<1>12. SnapshotsSaved'
  <2>1. \A k \in 1..Len(rest) : Snapshots(rest[k].jobs)
      BY <1>2, <1>7
  <2> QED BY <2>1, <1>0, <1>1, <1>4, <1>9, <1>10 DEF SnapshotsSaved, Snapshots
<1>13. CursorShown'
  <2>1. event.id <= Len(log)
      BY <1>2, <1>8
  <2> QED BY <2>1, <1>0, <1>6, <1>9 DEF CursorShown, ShowsUpTo
<1>14. StreamLeads'
  <2>1. \A k \in 1..Len(rest) :
            /\ rest[k].id = (stream.cursor - Len(rest)) + k
            /\ ShowsItself(rest[k])
    <3> SUFFICES ASSUME NEW k \in 1..Len(rest)
                 PROVE  rest[k].id = (stream.cursor - Len(rest)) + k /\ ShowsItself(rest[k])
        OBVIOUS
    <3>1. rest[k] = sent[k + 1] /\ k + 1 \in 1..Len(sent) /\ k \in Nat /\ k >= 1
        BY <1>7
    <3>2. rest[k].id = first + (k + 1) /\ ShowsItself(rest[k])
        BY <1>2, <3>1
    <3>3. first + (k + 1) = (stream.cursor - Len(rest)) + k
      <4>1. k \in Nat
          BY <3>1
      <4>2. /\ stream.cursor \in Nat /\ Len(rest) \in Nat
            /\ first = stream.cursor - (Len(rest) + 1)
          BY <1>8
      <4> HIDE DEF rest, first
      <4> QED BY <4>1, <4>2
    <3> QED BY <3>2, <3>3
  <2>2. rest = <<>> => event.id = stream.cursor
      BY <1>7, <1>8 DEF size
  <2>3. rest # <<>> => ShowsItself(rest[1]) /\ event.id = stream.cursor - Len(rest)
      BY <1>7, <1>8, <2>1
  <2>4. Len(rest) <= stream.cursor + 1
      BY <1>8
  <2> QED BY <1>0, <1>2, <1>9, <1>10, <2>1, <2>2, <2>3, <2>4 DEF StreamLeads, ShowsItself
<1> QED BY <1>4, <1>9, <1>11, <1>12, <1>13, <1>14 DEF FeedInv

(* The smaller of two numbers, which bounds a page of events.              *)
LEMMA SmallerOfTwo ==
    ASSUME NEW a \in Nat, NEW b \in Nat
    PROVE  Min({a, b}) \in {a, b} /\ Min({a, b}) <= a /\ Min({a, b}) <= b
<1>1. \E x \in {a, b} : \A y \in {a, b} : x <= y
    OBVIOUS
<1> QED BY <1>1 DEF Min

(* One page of events, each of which shows itself.                         *)
LEMMA PageOfEvents ==
    ASSUME log \in Seq(Saved), NEW c \in Nat, NEW last \in Nat, c < last, last <= Len(log)
    PROVE  LET sent == [k \in 1..(last - c) |->
                           LET e == c + k IN
                           [id |-> e, jobs |-> [NoJobs EXCEPT ![log[e].job] = e]]] IN
           /\ sent \in Seq(Events) /\ Len(sent) = last - c
           /\ \A k \in 1..(last - c) : /\ sent[k].id = c + k /\ ShowsItself(sent[k])
                                       /\ Snapshots(sent[k].jobs)
<1> DEFINE single(e) == [id |-> e, jobs |-> [NoJobs EXCEPT ![log[e].job] = e]]
           sent == [k \in 1..(last - c) |-> single(c + k)]
<1>0. last - c \in Nat
    OBVIOUS
<1>1. ASSUME NEW e \in 1..Len(log)
      PROVE  /\ single(e) \in Events /\ single(e).id = e
             /\ ShowsItself(single(e)) /\ Snapshots(single(e).jobs)
  <2> DEFINE jobs == [NoJobs EXCEPT ![log[e].job] = e]
  <2>1. Len(log) \in Nat /\ e \in Nat /\ log[e].job \in FeedJobs
      BY LogEntries
  <2>2. /\ jobs \in Versions /\ jobs[log[e].job] = e
        /\ \A j \in FeedJobs : jobs[j] = Unseen \/ (jobs[j] = e /\ j = log[e].job)
      BY <2>1 DEF NoJobs, Versions, Unseen
  <2> HIDE DEF jobs
  <2>3. Snapshots(jobs)
      BY <2>2 DEF Snapshots
  <2>4. single(e) = [id |-> e, jobs |-> jobs]
      BY DEF jobs
  <2> HIDE DEF single
  <2> QED BY <2>1, <2>2, <2>3, <2>4 DEF Events, ShowsItself
<1> HIDE DEF single
<1>2. \A k \in 1..(last - c) : c + k \in 1..Len(log) /\ sent[k] = single(c + k)
  <2>1. Len(log) \in Nat
      BY LogEntries
  <2> QED BY <2>1
<1>3. \A k \in 1..(last - c) : /\ sent[k] \in Events /\ sent[k].id = c + k
                               /\ ShowsItself(sent[k]) /\ Snapshots(sent[k].jobs)
    BY <1>1, <1>2
<1>4. sent \in Seq(Events) /\ Len(sent) = last - c
    BY <1>0, <1>3
<1> HIDE DEF sent
<1> QED BY <1>3, <1>4 DEF sent, single

(* What is sent after what was sent.                                       *)
LEMMA Joined ==
    ASSUME NEW a \in Seq(Events), NEW b \in Seq(Events)
    PROVE  /\ a \o b \in Seq(Events) /\ Len(a \o b) = Len(a) + Len(b)
           /\ \A k \in 1..Len(a) : (a \o b)[k] = a[k]
           /\ \A k \in 1..Len(b) : (a \o b)[Len(a) + k] = b[k]
OBVIOUS

(* A page of events joins what is under way, without a gap.                *)
LEMMA SendStep ==
    ASSUME FeedInv, SendEvents
    PROVE  FeedInv'
<1> DEFINE c == stream.cursor
           last == Min({Len(log), c + Page})
           more == [k \in 1..(last - c) |->
                       LET e == c + k IN
                       [id |-> e, jobs |-> [NoJobs EXCEPT ![log[e].job] = e]]]
           old == stream.sent
           sent == old \o more
<1>0. /\ log' = log /\ replies' = replies /\ page' = page /\ stream.open /\ c < Len(log)
      /\ stream' = [stream EXCEPT !.cursor = last, !.sent = sent]
    BY DEF SendEvents
<1>1. /\ FeedTyped /\ SnapshotsSaved /\ CursorShown /\ StreamLeads
      /\ log \in Seq(Saved) /\ Len(log) \in Nat /\ c \in Nat /\ page.cursor \in Int
      /\ old \in Seq(Events) /\ Len(old) \in Nat
    BY FeedFields DEF FeedInv
<1>2. last \in Nat /\ c < last /\ last <= Len(log)
  <2>1. c + Page \in Nat /\ c < c + Page
      BY <1>1, FeedAssumption
  <2>2. last \in {Len(log), c + Page} /\ last <= Len(log)
      BY <1>1, <2>1, SmallerOfTwo
  <2> HIDE DEF last
  <2> QED BY <1>0, <1>1, <2>1, <2>2
<1> HIDE DEF last, c
<1>3. /\ more \in Seq(Events) /\ Len(more) = last - c
      /\ \A k \in 1..(last - c) : /\ more[k].id = c + k /\ ShowsItself(more[k])
                                  /\ Snapshots(more[k].jobs)
    BY <1>1, <1>2, PageOfEvents
<1> HIDE DEF more
<1> DEFINE before == Len(old)
           size == Len(sent)
<1>4. /\ before \in Nat /\ size = before + (last - c) /\ size \in Nat /\ sent \in Seq(Events)
      /\ \A k \in 1..before : sent[k] = old[k]
      /\ \A k \in 1..size : k > before => /\ k - before \in 1..(last - c)
                                          /\ sent[k] = more[k - before]
  <2>1. /\ sent \in Seq(Events) /\ size = before + Len(more)
        /\ \A k \in 1..before : sent[k] = old[k]
        /\ \A k \in 1..Len(more) : sent[before + k] = more[k]
      BY <1>1, <1>3, Joined
  <2>2. before \in Nat /\ last - c \in Nat /\ Len(more) = last - c
      BY <1>1, <1>2, <1>3
  <2> HIDE DEF old, sent, before, size
  <2>3. ASSUME NEW k \in 1..size, k > before
        PROVE  k - before \in 1..(last - c) /\ sent[k] = more[k - before]
    <3>1. k - before \in 1..(last - c) /\ before + (k - before) = k
        BY <2>1, <2>2, <2>3
    <3> QED BY <3>1, <2>1, <2>2
  <2> QED BY <2>1, <2>2, <2>3
<1>5. /\ c <= Len(log) /\ before <= c + 1
      /\ \A k \in 1..before : old[k].id = (c - before) + k /\ (k > 1 => ShowsItself(old[k]))
      /\ before = 0 => page.cursor = c
      /\ before # 0 => \/ ShowsUpTo(old[1].jobs, old[1].id)
                       \/ ShowsItself(old[1]) /\ page.cursor = c - before
  <2>1. before = 0 <=> old = <<>>
      BY <1>1
  <2> QED BY <2>1, <1>0, <1>1 DEF StreamLeads, c
<1>6. \A k \in 1..before : Snapshots(old[k].jobs)
    BY <1>1 DEF SnapshotsSaved
<1> HIDE DEF old, sent, before, size
<1>7. \A k \in 1..size : Snapshots(sent[k].jobs)
  <2> SUFFICES ASSUME NEW k \in 1..size PROVE Snapshots(sent[k].jobs)
      OBVIOUS
  <2>1. CASE k <= before
      BY <2>1, <1>4, <1>6
  <2>2. CASE k > before
      BY <2>2, <1>3, <1>4
  <2> QED BY <2>1, <2>2, <1>4
<1>8. \A k \in 1..size : sent[k].id = (last - size) + k /\ (k > 1 => ShowsItself(sent[k]))
  <2> SUFFICES ASSUME NEW k \in 1..size
               PROVE  sent[k].id = (last - size) + k /\ (k > 1 => ShowsItself(sent[k]))
      OBVIOUS
  <2>0. /\ last - size = c - before /\ c \in Nat /\ before \in Nat
        /\ k \in Nat /\ k >= 1 /\ (k <= before => k \in 1..before)
      BY <1>1, <1>2, <1>4
  <2>1. CASE k <= before
      BY <2>0, <2>1, <1>4, <1>5
  <2>2. CASE k > before
      BY <2>0, <2>2, <1>3, <1>4
  <2> QED BY <2>1, <2>2, <1>4
<1>9. /\ size >= 1
      /\ \/ ShowsUpTo(sent[1].jobs, sent[1].id)
         \/ ShowsItself(sent[1]) /\ page.cursor = last - size
  <2>0. /\ last - size = c - before /\ c \in Nat /\ before \in Nat /\ size >= 1
        /\ last - c >= 1 /\ size >= before /\ 1 \in 1..size
      BY <1>1, <1>2, <1>4
  <2>1. CASE before = 0
    <3>1. 1 - before = 1 /\ 1 \in 1..(last - c) /\ sent[1] = more[1 - before]
        BY <2>0, <2>1, <1>4
    <3>2. ShowsItself(sent[1]) /\ page.cursor = last - size
        BY <2>0, <2>1, <3>1, <1>3, <1>5
    <3> QED BY <2>0, <3>2
  <2>2. CASE before # 0
    <3>1. sent[1] = old[1]
        BY <2>0, <2>2, <1>4
    <3> QED BY <2>0, <2>2, <3>1, <1>5
  <2> QED BY <2>1, <2>2
<1>10. /\ stream'.open = stream.open /\ stream'.cursor = last /\ stream'.sent = sent
       /\ stream' \in [open : BOOLEAN, cursor : Nat, sent : Seq(Events)]
    BY <1>0, <1>2, <1>4, FeedFields
<1>11. FeedTyped'
    BY <1>0, <1>1, <1>10 DEF FeedTyped
<1>12. SnapshotsSaved'
    BY <1>0, <1>1, <1>7, <1>10 DEF SnapshotsSaved, Snapshots, size
<1>13. CursorShown'
    BY <1>0, <1>1 DEF CursorShown, ShowsUpTo
<1>14. StreamLeads'
  <2>1. size <= last + 1 /\ last <= Len(log) /\ sent # <<>>
    <3>1. sent # <<>>
        BY <1>9 DEF size
    <3> QED BY <3>1, <1>1, <1>2, <1>4, <1>5
  <2> QED BY <2>1, <1>0, <1>8, <1>9, <1>10 DEF StreamLeads, ShowsItself, ShowsUpTo, size
<1> QED BY <1>11, <1>12, <1>13, <1>14 DEF FeedInv

(* Every step keeps the invariant; only a reload lets the page forget.     *)
LEMMA FeedStep ==
    ASSUME FeedInv, [FeedNext]_feedVars
    PROVE  /\ FeedInv'
           /\ page'.reloads = page.reloads =>
                  \A j \in FeedJobs : page'.jobs[j] >= page.jobs[j]
<1>0. page.jobs \in Versions /\ page.reloads \in Nat
    BY FeedFields
<1>1. page' = page => \A j \in FeedJobs : page'.jobs[j] >= page.jobs[j]
    BY <1>0 DEF Versions
<1>2. ASSUME NEW j \in FeedJobs, AnswerJob(j) PROVE FeedInv' /\ page' = page
    BY <1>2, AnswerStep DEF AnswerJob
<1>3. ASSUME NEW j \in FeedJobs, NEW active \in BOOLEAN, SaveJob(j, active)
      PROVE  FeedInv' /\ page' = page
    BY <1>3, SaveStep DEF SaveJob
<1>4. CASE OpenStream
    BY <1>1, <1>4, OpenStep DEF OpenStream
<1>5. CASE SendEvents
    BY <1>1, <1>5, SendStep DEF SendEvents
<1>6. CASE StreamEnds
    BY <1>1, <1>6, CloseStep DEF StreamEnds
<1>7. CASE ReceiveEvent
    BY <1>7, ReceiveStep
<1>8. CASE AnswerList
    BY <1>1, <1>8, AnswerStep DEF AnswerList
<1>9. CASE AcceptAnswer
    BY <1>9, AcceptStep
<1>10. CASE LoseAnswer
    BY <1>1, <1>10, AnswerStep DEF LoseAnswer
<1>11. CASE ReloadPage
  <2>1. page'.reloads = page.reloads + 1
      BY <1>11 DEF ReloadPage
  <2> QED BY <1>0, <1>11, <2>1, ReloadPageStep
<1>12. CASE UNCHANGED feedVars
  <2>1. page' = page /\ log' = log /\ stream' = stream /\ replies' = replies
      BY <1>12 DEF feedVars
  <2>2. FeedTyped'
      BY <2>1 DEF FeedInv, FeedTyped
  <2>3. SnapshotsSaved'
      BY <2>1 DEF FeedInv, SnapshotsSaved, Snapshots
  <2>4. CursorShown'
      BY <2>1, Zenon DEF FeedInv, CursorShown, ShowsUpTo
  <2>5. StreamLeads'
      BY <2>1, Zenon DEF FeedInv, StreamLeads, ShowsUpTo, ShowsItself
  <2>6. FeedInv'
      BY <2>2, <2>3, <2>4, <2>5 DEF FeedInv
  <2> QED BY <1>1, <2>1, <2>6
<1> QED BY <1>1, <1>2, <1>3, <1>4, <1>5, <1>6, <1>7, <1>8, <1>9, <1>10, <1>11, <1>12 DEF
    FeedNext

(* The page follows the jobs: over reconnections, pages of events, and     *)
(* answers that come late, in any order or not at all, it never shows a    *)
(* job as older than it did before, has everything its cursor says, and    *)
(* shows every job as it is once the stream caught up.                     *)
THEOREM PageFollows == FeedSpec => PageFollowsJobs
<1>1. FeedInit => FeedInv
    BY FeedStart
<1>2. FeedInv /\ [FeedNext]_feedVars => FeedInv'
    BY FeedStep
<1>3. FeedInv => /\ \A e \in 1..Len(log) : e <= page.cursor => page.jobs[log[e].job] >= e
                 /\ stream.open /\ stream.sent = <<>> /\ stream.cursor = Len(log) =>
                        page.jobs = JobRows
    BY FeedHolds
<1>4. FeedInv /\ [FeedNext]_feedVars =>
          [page'.reloads = page.reloads =>
              \A j \in FeedJobs : page'.jobs[j] >= page.jobs[j]]_feedVars
    BY FeedStep
<1> QED BY <1>1, <1>2, <1>3, <1>4, PTL DEF FeedSpec, PageFollowsJobs


-----------------------------------------------------------------------------
(* Exact resume                                                            *)

(* The samplers after some crops exist: each follows from the one before.  *)
LEMMA SamplersFollow ==
    ASSUME NEW s, NEW count \in Nat
    PROVE  /\ After(s, count)[0] = s
           /\ \A n \in 1..count : After(s, count)[n] = Consume(After(s, count)[n - 1])
<1> DEFINE Follows(f, m) == f = [n \in 0..m |-> IF n = 0 THEN s ELSE Consume(f[n - 1])]
           F == {m \in Nat : ~ \E f : Follows(f, m)}
<1>1. F = {}
  <2> SUFFICES ASSUME F # {} PROVE FALSE
      OBVIOUS
  <2>1. PICK m \in F : \A k \in F : m <= k
    <3>1. F \in SUBSET Nat
        OBVIOUS
    <3> HIDE DEF F
    <3> QED BY <3>1, Smallest
  <2>2. m # 0
    <3>1. Follows([n \in 0..0 |-> s], 0)
        OBVIOUS
    <3> QED BY <3>1
  <2>3. m \in Nat /\ m - 1 \in Nat /\ m - 1 \notin F
    <3>1. m \in Nat
        OBVIOUS
    <3> HIDE DEF F
    <3> QED BY <3>1, <2>1, <2>2
  <2>4. PICK f : Follows(f, m - 1)
      BY <2>3
  <2> DEFINE g == [n \in 0..m |-> IF n = 0 THEN s ELSE Consume(f[n - 1])]
  <2>5. \A n \in 0..(m - 1) : g[n] = f[n]
      BY <2>1, <2>3, <2>4
  <2>6. \A n \in 0..m : g[n] = IF n = 0 THEN s ELSE Consume(g[n - 1])
    <3>1. g[0] = s
        BY <2>3
    <3>2. ASSUME NEW n \in 1..m PROVE n \in 0..m /\ n - 1 \in 0..(m - 1) /\ g[n] = Consume(f[n - 1])
        BY <2>3
    <3> HIDE DEF g
    <3> QED BY <3>1, <3>2, <2>3, <2>5
  <2>7. g = [n \in 0..m |-> g[n]]
      OBVIOUS
  <2> HIDE DEF g
  <2>8. Follows(g, m)
      BY <2>6, <2>7
  <2> QED BY <2>1, <2>8
<1>2. \E f : Follows(f, count)
    BY <1>1
<1>3. Follows(After(s, count), count)
    BY <1>2 DEF After
<1> DEFINE a == After(s, count)
<1>4. a = [n \in 0..count |-> IF n = 0 THEN s ELSE Consume(a[n - 1])]
    BY <1>3
<1> HIDE DEF a
<1>5. a[0] = s /\ \A n \in 1..count : a[n] = Consume(a[n - 1])
    BY <1>4
<1> QED BY <1>5 DEF a

(* Where a run stands in the stream of crops does not depend on how it got *)
(* there.                                                                  *)
LEMMA SamplersAgree ==
    ASSUME NEW n \in Nat, NEW count \in Nat, LastCrop \in Nat, n + count <= LastCrop
    PROVE  \A k \in 0..count : After(SamplerAfter[n], count)[k] = SamplerAfter[n + k]
<1> DEFINE a == After(SamplerAfter[n], count)
           F == {k \in 0..count : a[k] # SamplerAfter[n + k]}
<1>1. a[0] = SamplerAfter[n] /\ \A k \in 1..count : a[k] = Consume(a[k - 1])
    BY SamplersFollow
<1>2. \A k \in 1..LastCrop : SamplerAfter[k] = Consume(SamplerAfter[k - 1])
    BY SamplersFollow DEF SamplerAfter
<1> HIDE DEF a
<1>3. F = {}
  <2> SUFFICES ASSUME F # {} PROVE FALSE
      OBVIOUS
  <2>1. PICK k \in F : \A i \in F : k <= i
    <3>1. F \in SUBSET Nat
        OBVIOUS
    <3> HIDE DEF F
    <3> QED BY <3>1, Smallest
  <2>2. k \in 0..count /\ a[k] # SamplerAfter[n + k] /\ k # 0
      BY <1>1
  <2>3. k - 1 \in 0..count /\ k - 1 \notin F
    <3> HIDE DEF F
    <3> QED BY <2>1, <2>2
  <2>4. a[k - 1] = SamplerAfter[n + (k - 1)]
      BY <2>3
  <2>5. n + k \in 1..LastCrop /\ (n + k) - 1 = n + (k - 1) /\ k \in 1..count
      BY <2>2
  <2> QED BY <1>1, <1>2, <2>2, <2>4, <2>5
<1> QED BY <1>3 DEF a

(* The numbers of crops.                                                   *)
LEMMA CropNumbers ==
    /\ PhysicalBatch \in Nat \ {0} /\ Accumulation \in Nat \ {0} /\ PlannedSteps \in Nat
    /\ EffectiveBatch \in Nat \ {0} /\ LastCrop \in Nat
BY PilotTrainingAssumption DEF EffectiveBatch, LastCrop

(* Updates, batches and crops.                                             *)
LEMMA BatchNumbers ==
    ASSUME NEW step \in Nat, NEW batches \in Nat
    PROVE  /\ (step * Accumulation + batches) * PhysicalBatch
                  = step * EffectiveBatch + batches * PhysicalBatch
           /\ step * EffectiveBatch \in Nat /\ batches * PhysicalBatch \in Nat
           /\ step * Accumulation + batches \in Nat
           /\ Accumulation * PhysicalBatch = EffectiveBatch
           /\ step * EffectiveBatch + EffectiveBatch = (step + 1) * EffectiveBatch
           /\ step * Accumulation + Accumulation = (step + 1) * Accumulation
           /\ batches * PhysicalBatch + PhysicalBatch = (batches + 1) * PhysicalBatch
BY CropNumbers DEF EffectiveBatch

(* A batch of an unfinished update is within the plan.                     *)
LEMMA BatchFits ==
    ASSUME NEW step \in Nat, NEW batches \in Nat, step < PlannedSteps, batches < Accumulation
    PROVE  (step * Accumulation + batches) * PhysicalBatch + PhysicalBatch <= LastCrop
<1>1. ASSUME NEW a \in Nat, NEW b \in Nat, NEW c \in Nat, a <= b PROVE a * c <= b * c
    BY <1>1
<1>2. (batches + 1) * PhysicalBatch <= Accumulation * PhysicalBatch
    BY <1>1, CropNumbers
<1>3. (step + 1) * EffectiveBatch <= PlannedSteps * EffectiveBatch
    BY <1>1, CropNumbers
<1> DEFINE x == step * EffectiveBatch
           y == batches * PhysicalBatch
           z == (step * Accumulation + batches) * PhysicalBatch
<1>4. /\ x \in Nat /\ y \in Nat /\ z = x + y /\ x + EffectiveBatch <= LastCrop
      /\ y + PhysicalBatch <= EffectiveBatch
    BY <1>2, <1>3, BatchNumbers DEF LastCrop
<1> HIDE DEF x, y, z
<1>5. z + PhysicalBatch <= LastCrop
    BY <1>4, CropNumbers
<1> QED BY <1>5 DEF z

(* Which batch a crop belongs to.                                          *)
LEMMA PayloadOf ==
    ASSUME NEW payload \in Nat, NEW k \in 1..PhysicalBatch
    PROVE  ((payload * PhysicalBatch + k) - 1) \div PhysicalBatch = payload
BY CropNumbers

(* What an uninterrupted run learns from after m crops, n crops long.      *)
Segment(m, n) == [k \in 1..n |-> Uninterrupted[m + k]]
Segments == {Segment(m, n) : m \in Nat, n \in Nat}

(* A sequence, entry by entry.                                             *)
LEMMA EntryByEntry ==
    ASSUME NEW S, NEW s \in Seq(S) PROVE s = [k \in 1..Len(s) |-> s[k]]
OBVIOUS

LEMMA SegmentsJoin ==
    ASSUME NEW m \in Nat, NEW a \in Nat, NEW b \in Nat
    PROVE  /\ Segment(m, a) \o Segment(m + a, b) = Segment(m, a + b)
           /\ Len(Segment(m, a)) = a
           /\ Segment(m, 0) = <<>>
<1> DEFINE X == {Uninterrupted[k] : k \in Nat}
           s == Segment(m, a)
           t == Segment(m + a, b)
<1>1. \A i \in Nat, n \in Nat : Segment(i, n) \in Seq(X) /\ Len(Segment(i, n)) = n
    BY DEF Segment
<1>2. /\ s \in Seq(X) /\ Len(s) = a /\ t \in Seq(X) /\ Len(t) = b
      /\ \A k \in 1..a : s[k] = Uninterrupted[m + k]
      /\ \A k \in 1..b : t[k] = Uninterrupted[(m + a) + k]
  <2>1. m + a \in Nat
      OBVIOUS
  <2>2. s \in Seq(X) /\ Len(s) = a /\ t \in Seq(X) /\ Len(t) = b
    <3> HIDE DEF X
    <3> QED BY <2>1, <1>1
  <2> QED BY <2>2 DEF Segment
<1> HIDE DEF s, t, X
<1>3. /\ s \o t \in Seq(X) /\ Len(s \o t) = a + b
      /\ \A k \in 1..a : (s \o t)[k] = s[k]
      /\ \A k \in 1..b : (s \o t)[a + k] = t[k]
  <2>1. s \in Seq(X) /\ Len(s) = a /\ t \in Seq(X) /\ Len(t) = b
      BY <1>2
  <2>2. ASSUME NEW u \in Seq(X), NEW v \in Seq(X), Len(u) = a, Len(v) = b
        PROVE  /\ u \o v \in Seq(X) /\ Len(u \o v) = a + b
               /\ \A k \in 1..a : (u \o v)[k] = u[k]
               /\ \A k \in 1..b : (u \o v)[a + k] = v[k]
      BY <2>2
  <2> QED BY <2>1, <2>2
<1>4. \A k \in 1..(a + b) : (s \o t)[k] = Uninterrupted[m + k]
  <2> SUFFICES ASSUME NEW k \in 1..(a + b) PROVE (s \o t)[k] = Uninterrupted[m + k]
      OBVIOUS
  <2>1. CASE k <= a
    <3>1. k \in 1..a
        BY <2>1
    <3> QED BY <3>1, <1>2, <1>3
  <2>2. CASE k > a
    <3>1. k - a \in 1..b /\ (m + a) + (k - a) = m + k /\ a + (k - a) = k
        BY <2>2
    <3>2. (s \o t)[a + (k - a)] = t[k - a] /\ t[k - a] = Uninterrupted[(m + a) + (k - a)]
        BY <3>1, <1>2, <1>3
    <3> QED BY <3>1, <3>2
  <2>3. k <= a \/ k > a
      OBVIOUS
  <2> QED BY <2>1, <2>2, <2>3, Zenon
<1>5. s \o t = [k \in 1..(a + b) |-> (s \o t)[k]]
    BY <1>3, EntryByEntry
<1>6. s \o t = Segment(m, a + b)
    BY <1>4, <1>5 DEF Segment
<1>7. Segment(m, 0) = <<>>
    BY DEF Segment
<1> QED BY <1>2, <1>6, <1>7 DEF s, t

(* The property's words for it.                                            *)
LEMMA SegmentIsPrefix ==
    ASSUME NEW n \in Nat, n <= LastCrop
    PROVE  Segment(0, n) = SubSeq(Uninterrupted, 1, n)
<1> DEFINE X == {Uninterrupted[k] : k \in Nat}
<1>1. LastCrop \in Nat
    BY CropNumbers
<1>2. Uninterrupted \in Seq(X) /\ Len(Uninterrupted) = LastCrop
  <2>1. \A k \in 1..LastCrop : Uninterrupted[k] \in X
      BY <1>1
  <2> DEFINE u == Uninterrupted
  <2>2. u = [k \in 1..LastCrop |-> u[k]]
      BY DEF Uninterrupted
  <2> HIDE DEF u, X
  <2> QED BY <1>1, <2>1, <2>2 DEF u
<1> DEFINE p == SubSeq(Uninterrupted, 1, n)
<1> HIDE DEF X
<1>3. p \in Seq(X) /\ Len(p) = n /\ \A k \in 1..n : p[k] = Uninterrupted[k]
    BY <1>1, <1>2
<1>4. p = [k \in 1..n |-> p[k]]
    BY <1>3
<1> HIDE DEF p
<1>5. p = Segment(0, n)
    BY <1>3, <1>4 DEF Segment
<1> QED BY <1>5 DEF p

(* A batch drawn where the uninterrupted run stands is its next segment.   *)
LEMMA BatchIsSegment ==
    ASSUME NEW payload \in Nat, payload * PhysicalBatch + PhysicalBatch <= LastCrop
    PROVE  LET n == payload * PhysicalBatch IN
           /\ BatchOf(SamplerAfter[n], payload) = Segment(n, PhysicalBatch)
           /\ After(SamplerAfter[n], PhysicalBatch)[PhysicalBatch] = SamplerAfter[n + PhysicalBatch]
<1> DEFINE n == payload * PhysicalBatch
           a == After(SamplerAfter[n], PhysicalBatch)
<1>1. n \in Nat /\ PhysicalBatch \in Nat \ {0} /\ LastCrop \in Nat
    BY CropNumbers
<1> HIDE DEF n
<1>2. \A k \in 0..PhysicalBatch : a[k] = SamplerAfter[n + k]
  <2>1. n + PhysicalBatch <= LastCrop
      BY DEF n
  <2> QED BY <1>1, <2>1, SamplersAgree
<1> HIDE DEF a
<1>3. ASSUME NEW k \in 1..PhysicalBatch
      PROVE  <<Crop(a[k - 1]), payload>> = Uninterrupted[n + k]
  <2>1. k - 1 \in 0..PhysicalBatch /\ n + k \in 1..LastCrop /\ n + (k - 1) = (n + k) - 1
    <3>1. n + PhysicalBatch <= LastCrop
        BY DEF n
    <3> QED BY <1>1, <3>1
  <2>2. a[k - 1] = SamplerAfter[(n + k) - 1]
      BY <1>2, <2>1
  <2>3. ((n + k) - 1) \div PhysicalBatch = payload
      BY PayloadOf DEF n
  <2>4. Uninterrupted[n + k] = <<Crop(SamplerAfter[(n + k) - 1]), ((n + k) - 1) \div PhysicalBatch>>
      BY <2>1 DEF Uninterrupted
  <2> QED BY <2>2, <2>3, <2>4
<1>4. BatchOf(SamplerAfter[n], payload) = [k \in 1..PhysicalBatch |-> <<Crop(a[k - 1]), payload>>]
    BY DEF BatchOf, a
<1>5. BatchOf(SamplerAfter[n], payload) = Segment(n, PhysicalBatch)
    BY <1>3, <1>4 DEF Segment
<1>6. a[PhysicalBatch] = SamplerAfter[n + PhysicalBatch]
    BY <1>1, <1>2
<1> QED BY <1>5, <1>6 DEF n, a

(* Unused runs have no name.                                               *)
Names == PilotNames \cup {Idle.name}
Samplers == {SamplerAfter[n] : n \in Nat}
Critics == {NoCritic} \cup {<<k>> : k \in Nat}
States == [step : 0..PlannedSteps, sampler : Samplers, payload : Nat, learned : Segments]
Sessions == [pc : {"none", "load", "train", "save"}, name : Names,
             mode : {"new", "resume", "fork"}, target : 0..PlannedSteps, state : States,
             critic : Critics, gradients : Segments, batches : 0..Accumulation]

(* A state is that of the uninterrupted run, after some updates and some   *)
(* batches more.                                                           *)
AtPoint(state, batches) ==
    /\ state.payload = state.step * Accumulation + batches
    /\ state.learned = Segment(0, state.step * EffectiveBatch)
    /\ state.sampler = SamplerAfter[state.payload * PhysicalBatch]

CriticFits(critic, step) == critic = NoCritic \/ critic[1] <= step

Checkpoints == {c \in [state : States, critic : Critics] :
                    AtPoint(c.state, 0) /\ CriticFits(c.critic, c.state.step)}

(* What a run has taken since its last update is the next segment, and a   *)
(* run that waits for its checkpoint has taken nothing.                    *)
SessionFits(r) ==
    /\ r \in Sessions
    /\ AtPoint(r.state, r.batches)
    /\ r.gradients = Segment(r.state.step * EffectiveBatch, r.batches * PhysicalBatch)
    /\ r.state.step <= r.target
    /\ r.batches > 0 => r.state.step < r.target
    /\ r.pc \in {"load", "save"} => r.batches = 0
    /\ r.pc = "load" => r.state.step = 0
    /\ CriticFits(r.critic, r.state.step)

ResumeInv ==
    /\ saves \in [PilotNames -> SUBSET Checkpoints]
    /\ trainer = [t \in Trainers |-> trainer[t]]
    /\ \A t \in Trainers : SessionFits(trainer[t])

(* A run has not gone past the planned end.                                *)
LEMMA CropsFit ==
    ASSUME NEW step \in Nat, NEW batches \in Nat,
           \/ batches = 0 /\ step <= PlannedSteps
           \/ batches <= Accumulation /\ step < PlannedSteps
    PROVE  (step * Accumulation + batches) * PhysicalBatch <= LastCrop
<1> DEFINE x == step * EffectiveBatch
           y == batches * PhysicalBatch
           z == (step * Accumulation + batches) * PhysicalBatch
<1>0. ASSUME NEW a \in Nat, NEW b \in Nat, NEW c \in Nat, a <= b PROVE a * c <= b * c
    BY <1>0
<1>1. x \in Nat /\ y \in Nat /\ z = x + y
    BY BatchNumbers
<1>2. CASE batches = 0 /\ step <= PlannedSteps
  <2>1. x <= LastCrop
      BY <1>0, <1>2, CropNumbers DEF LastCrop
  <2>2. y = 0
      BY <1>2, CropNumbers
  <2> HIDE DEF x, y, z
  <2>3. z <= LastCrop
      BY <1>1, <2>1, <2>2, CropNumbers
  <2> QED BY <2>3 DEF z
<1>3. CASE batches <= Accumulation /\ step < PlannedSteps
  <2>1. (step + 1) * EffectiveBatch <= PlannedSteps * EffectiveBatch
      BY <1>0, <1>3, CropNumbers
  <2>2. y <= Accumulation * PhysicalBatch
      BY <1>0, <1>3, CropNumbers
  <2>3. x + EffectiveBatch <= LastCrop /\ y <= EffectiveBatch
      BY <2>1, <2>2, BatchNumbers DEF LastCrop
  <2> HIDE DEF x, y, z
  <2>4. z <= LastCrop
      BY <1>1, <2>3, CropNumbers
  <2> QED BY <2>4 DEF z
<1> QED BY <1>2, <1>3

(* What the property says of a state and what was taken since.             *)
LEMMA PointIsExact ==
    ASSUME NEW state \in States, NEW batches \in 0..Accumulation, AtPoint(state, batches),
           batches > 0 => state.step < PlannedSteps
    PROVE  LET gradients == Segment(state.step * EffectiveBatch, batches * PhysicalBatch)
               seen == state.learned \o gradients IN
           /\ seen = SubSeq(Uninterrupted, 1, Len(seen))
           /\ state.sampler = SamplerAfter[Len(seen)]
           /\ state.payload * PhysicalBatch = Len(seen)
           /\ Len(state.learned) = state.step * EffectiveBatch
<1> DEFINE x == state.step * EffectiveBatch
           y == batches * PhysicalBatch
           seen == state.learned \o Segment(x, y)
<1>1. /\ state.step \in Nat /\ state.step <= PlannedSteps /\ batches \in Nat
      /\ batches <= Accumulation
    BY CropNumbers DEF States
<1>2. /\ x \in Nat /\ y \in Nat
      /\ state.payload * PhysicalBatch = x + y
      /\ x + y <= LastCrop
  <2>1. (state.step * Accumulation + batches) * PhysicalBatch <= LastCrop
      BY <1>1, CropsFit
  <2> QED BY <1>1, <2>1, BatchNumbers DEF AtPoint
<1>3. state.learned = Segment(0, x) /\ state.sampler = SamplerAfter[state.payload * PhysicalBatch]
    BY DEF AtPoint
<1> HIDE DEF x, y
<1>4. seen = Segment(0, x + y) /\ Len(Segment(0, x)) = x /\ Len(Segment(0, x + y)) = x + y
  <2>1. 0 + x = x /\ 0 \in Nat /\ x + y \in Nat
      BY <1>2
  <2>2. /\ Segment(0, x) \o Segment(0 + x, y) = Segment(0, x + y)
        /\ Len(Segment(0, x)) = x /\ Len(Segment(0, x + y)) = x + y
      BY <1>2, <2>1, SegmentsJoin
  <2> QED BY <1>3, <2>1, <2>2
<1> HIDE DEF seen
<1>5. seen = SubSeq(Uninterrupted, 1, Len(seen)) /\ Len(seen) = x + y
  <2>1. x + y \in Nat
      BY <1>2
  <2> QED BY <1>2, <1>4, <2>1, SegmentIsPrefix
<1>6. Len(state.learned) = x
    BY <1>3, <1>4
<1> QED BY <1>2, <1>3, <1>5, <1>6 DEF seen, x, y

(* The invariant is stronger than the property.                            *)
LEMMA ResumeHolds == ASSUME ResumeInv PROVE ResumeIsExact
<1>1. ASSUME NEW t \in Trainers
      PROVE  LET state == trainer[t].state
                 gradients == trainer[t].gradients
                 seen == state.learned \o gradients IN
             /\ seen = SubSeq(Uninterrupted, 1, Len(seen))
             /\ state.sampler = SamplerAfter[Len(seen)]
             /\ state.payload * PhysicalBatch = Len(seen)
             /\ Len(state.learned) = state.step * EffectiveBatch
             /\ trainer[t].critic # NoCritic => trainer[t].critic[1] <= state.step
  <2> DEFINE r == trainer[t]
  <2>1. SessionFits(r)
      BY DEF ResumeInv
  <2> HIDE DEF r
  <2>2. /\ r.state \in States /\ r.batches \in 0..Accumulation /\ AtPoint(r.state, r.batches)
        /\ r.target \in 0..PlannedSteps /\ r.state.step \in 0..PlannedSteps
        /\ r.gradients = Segment(r.state.step * EffectiveBatch, r.batches * PhysicalBatch)
        /\ r.batches > 0 => r.state.step < r.target
        /\ r.critic # NoCritic => r.critic[1] <= r.state.step
      BY <2>1 DEF SessionFits, Sessions, States, CriticFits
  <2>3. r.batches > 0 => r.state.step < PlannedSteps
      BY <2>2, CropNumbers
  <2> QED BY <2>2, <2>3, PointIsExact DEF r
<1>2. ASSUME NEW e \in PilotNames, NEW c \in saves[e]
      PROVE  LET state == c.state
                 seen == state.learned \o <<>> IN
             /\ seen = SubSeq(Uninterrupted, 1, Len(seen))
             /\ state.sampler = SamplerAfter[Len(seen)]
             /\ state.payload * PhysicalBatch = Len(seen)
             /\ Len(state.learned) = state.step * EffectiveBatch
             /\ c.critic # NoCritic => c.critic[1] <= state.step
  <2>1. c \in Checkpoints
      BY DEF ResumeInv
  <2>2. c.state \in States /\ AtPoint(c.state, 0) /\ c.state.step \in Nat
        /\ (c.critic # NoCritic => c.critic[1] <= c.state.step)
      BY <2>1, CropNumbers DEF Checkpoints, States, CriticFits
  <2>3. Segment(c.state.step * EffectiveBatch, 0 * PhysicalBatch) = <<>>
    <3>1. 0 * PhysicalBatch = 0 /\ c.state.step * EffectiveBatch \in Nat /\ 0 \in Nat
        BY <2>2, CropNumbers, BatchNumbers
    <3> QED BY <3>1, SegmentsJoin
  <2>4. 0 \in 0..Accumulation
      BY CropNumbers
  <2>5. LET state == c.state
            gradients == Segment(state.step * EffectiveBatch, 0 * PhysicalBatch)
            seen == state.learned \o gradients IN
        /\ seen = SubSeq(Uninterrupted, 1, Len(seen))
        /\ state.sampler = SamplerAfter[Len(seen)]
        /\ state.payload * PhysicalBatch = Len(seen)
        /\ Len(state.learned) = state.step * EffectiveBatch
    <3>1. 0 > 0 => c.state.step < PlannedSteps
        OBVIOUS
    <3> QED BY <2>2, <2>4, <3>1, PointIsExact, Zenon
  <2> QED BY <2>2, <2>3, <2>5
<1> QED BY <1>1, <1>2, Zenon DEF ResumeIsExact

(* A run begins where the uninterrupted one does.                          *)
LEMMA FreshIsExact ==
    /\ Fresh \in States /\ Fresh.step = 0 /\ AtPoint(Fresh, 0)
    /\ <<>> \in Segments /\ <<>> = Segment(Fresh.step * EffectiveBatch, 0 * PhysicalBatch)
<1>1. /\ 0 * EffectiveBatch = 0 /\ 0 * Accumulation + 0 = 0 /\ 0 * PhysicalBatch = 0
      /\ 0 \in Nat /\ 0 \in 0..PlannedSteps
    BY CropNumbers
<1>2. Segment(0, 0) = <<>> /\ Segment(0, 0) \in Segments
    BY <1>1, SegmentsJoin DEF Segments
<1>3. SamplerAfter[0] = FreshSampler /\ SamplerAfter[0] \in Samplers
    BY CropNumbers, SamplersFollow DEF SamplerAfter, Samplers
<1>4. /\ Fresh.step = 0 /\ Fresh.sampler = SamplerAfter[0] /\ Fresh.payload = 0
      /\ Fresh.learned = <<>>
    BY <1>3 DEF Fresh
<1>5. Fresh \in States
    BY <1>1, <1>2, <1>3 DEF Fresh, States
<1> QED BY <1>1, <1>2, <1>4, <1>5 DEF AtPoint

(* A run that starts, from whatever rests.                                 *)
LEMMA IdleFits ==
    ASSUME NEW name \in Names, NEW mode \in {"new", "resume", "fork"},
           NEW target \in 0..PlannedSteps, NEW pc \in {"none", "load", "train"},
           NEW on \in BOOLEAN
    PROVE  /\ SessionFits([Idle EXCEPT !.pc = pc, !.name = name, !.mode = mode,
                                       !.target = target, !.critic = Critic(on)])
           /\ SessionFits(Idle)
<1> DEFINE Resting(n) == [pc |-> "none", name |-> n, mode |-> "new", target |-> 0,
                          state |-> Fresh, critic |-> NoCritic, gradients |-> <<>>,
                          batches |-> 0]
           r == [Idle EXCEPT !.pc = pc, !.name = name, !.mode = mode,
                             !.target = target, !.critic = Critic(on)]
<1>1. /\ Critic(on) \in Critics /\ CriticFits(Critic(on), 0)
      /\ NoCritic \in Critics /\ CriticFits(NoCritic, 0)
  <2>1. <<0>>[1] <= 0 /\ <<0>> \in {<<k>> : k \in Nat}
      OBVIOUS
  <2> QED BY <2>1 DEF Critic, Critics, CriticFits
<1>2. /\ Idle \in Sessions /\ Idle.state = Fresh /\ Idle.gradients = <<>>
      /\ Idle.batches = 0 /\ Idle.critic = NoCritic /\ Idle.pc = "none" /\ Idle.target = 0
  <2>1. Idle = Resting(Idle.name)
      BY Zenon DEF Idle
  <2>2. 0 \in 0..Accumulation /\ 0 \in 0..PlannedSteps /\ Idle.name \in Names
      BY CropNumbers DEF Names
  <2>3. ASSUME NEW n \in Names
        PROVE  /\ Resting(n) \in Sessions /\ Resting(n).state = Fresh
               /\ Resting(n).gradients = <<>> /\ Resting(n).batches = 0
               /\ Resting(n).critic = NoCritic /\ Resting(n).pc = "none"
               /\ Resting(n).target = 0
      BY <1>1, <2>2, FreshIsExact DEF Sessions
  <2> HIDE DEF Resting
  <2> QED BY <2>1, <2>2, <2>3
<1>3. /\ r \in Sessions /\ r.state = Fresh /\ r.gradients = <<>> /\ r.batches = 0
      /\ r.critic = Critic(on) /\ r.target = target
  <2> DEFINE c == Critic(on)
  <2>1. c \in Critics
      BY <1>1
  <2> HIDE DEF c
  <2>2. ASSUME NEW i \in Sessions
        PROVE  LET x == [i EXCEPT !.pc = pc, !.name = name, !.mode = mode,
                                  !.target = target, !.critic = c] IN
               /\ x \in Sessions /\ x.state = i.state /\ x.gradients = i.gradients
               /\ x.batches = i.batches /\ x.critic = c /\ x.target = target
      BY <2>1 DEF Sessions
  <2> QED BY <1>2, <2>2 DEF c
<1> HIDE DEF r
<1>4. ASSUME NEW i \in Sessions, i.state = Fresh, i.gradients = <<>>, i.batches = 0,
             CriticFits(i.critic, 0), i.target \in 0..PlannedSteps
      PROVE  SessionFits(i)
  <2>1. AtPoint(i.state, i.batches) /\ CriticFits(i.critic, i.state.step)
      BY <1>4, FreshIsExact
  <2>2. i.gradients = Segment(i.state.step * EffectiveBatch, i.batches * PhysicalBatch)
      BY <1>4, FreshIsExact
  <2>3. i.state.step <= i.target /\ ~ (i.batches > 0) /\ i.state.step = 0
      BY <1>4, FreshIsExact, CropNumbers
  <2> QED BY <1>4, <2>1, <2>2, <2>3 DEF SessionFits
<1>5. 0 \in 0..PlannedSteps
    BY CropNumbers
<1> QED BY <1>1, <1>2, <1>3, <1>4, <1>5 DEF r

(* A step of one run.                                                      *)
LEMMA RunChanges ==
    ASSUME ResumeInv, NEW t \in Trainers, NEW r, SessionFits(r),
           trainer' = [trainer EXCEPT ![t] = r],
           saves' \in [PilotNames -> SUBSET Checkpoints]
    PROVE  ResumeInv'
<1>1. trainer = [u \in Trainers |-> trainer[u]] /\ \A u \in Trainers : SessionFits(trainer[u])
    BY DEF ResumeInv
<1>2. /\ trainer' = [u \in Trainers |-> trainer'[u]]
      /\ \A u \in Trainers : trainer'[u] = r \/ trainer'[u] = trainer[u]
    BY <1>1
<1>3. \A u \in Trainers : SessionFits(trainer'[u])
    BY <1>1, <1>2
<1> QED BY <1>2, <1>3 DEF ResumeInv

(* The fields of a run.                                                    *)
LEMMA SessionOf ==
    ASSUME ResumeInv, NEW t \in Trainers
    PROVE  LET r == trainer[t] IN
           /\ SessionFits(r) /\ r \in Sessions /\ r.state \in States
           /\ r = [pc |-> r.pc, name |-> r.name, mode |-> r.mode, target |-> r.target,
                   state |-> r.state, critic |-> r.critic, gradients |-> r.gradients,
                   batches |-> r.batches]
           /\ r.state = [step |-> r.state.step, sampler |-> r.state.sampler,
                         payload |-> r.state.payload, learned |-> r.state.learned]
           /\ r.state.step \in Nat /\ r.batches \in Nat /\ r.state.payload \in Nat
           /\ r.state.step <= PlannedSteps /\ r.batches <= Accumulation
           /\ r.target \in Nat /\ r.target <= PlannedSteps
           /\ r.gradients = <<>> <=> r.batches = 0
<1> DEFINE r == trainer[t]
<1>1. SessionFits(r)
    BY DEF ResumeInv
<1> HIDE DEF r
<1>2. r \in Sessions /\ r.state \in States /\ AtPoint(r.state, r.batches)
      /\ r.gradients = Segment(r.state.step * EffectiveBatch, r.batches * PhysicalBatch)
    BY <1>1 DEF SessionFits, Sessions
<1>3. /\ r = [pc |-> r.pc, name |-> r.name, mode |-> r.mode, target |-> r.target,
              state |-> r.state, critic |-> r.critic, gradients |-> r.gradients,
              batches |-> r.batches]
      /\ r.batches \in Nat /\ r.batches <= Accumulation
      /\ r.target \in Nat /\ r.target <= PlannedSteps
    BY <1>2, CropNumbers DEF Sessions
<1>4. /\ r.state = [step |-> r.state.step, sampler |-> r.state.sampler,
                    payload |-> r.state.payload, learned |-> r.state.learned]
      /\ r.state.step \in Nat /\ r.state.payload \in Nat /\ r.state.step <= PlannedSteps
    BY <1>2, CropNumbers DEF States
<1>5. r.gradients = <<>> <=> r.batches = 0
  <2> DEFINE x == r.state.step * EffectiveBatch
             y == r.batches * PhysicalBatch
  <2>1. x \in Nat /\ y \in Nat /\ (y = 0 <=> r.batches = 0)
      BY <1>3, <1>4, CropNumbers, BatchNumbers
  <2> HIDE DEF x, y
  <2>2. Len(Segment(x, y)) = y /\ Segment(x, 0) = <<>> /\ Len(<<>>) = 0
      BY <2>1, SegmentsJoin
  <2> QED BY <1>2, <2>1, <2>2 DEF x, y
<1> QED BY <1>1, <1>2, <1>3, <1>4, <1>5 DEF r

(* A run starts, afresh or to read a checkpoint.                           *)
LEMMA StartStep ==
    ASSUME ResumeInv, NEW t \in Trainers, NEW e \in PilotNames,
           NEW mode \in {"new", "resume", "fork"}, NEW critic \in BOOLEAN,
           NEW target \in 1..PlannedSteps, StartPilot(t, e, mode, critic, target)
    PROVE  ResumeInv'
<1> DEFINE pc == IF mode = "new" THEN "train" ELSE "load"
           r == [Idle EXCEPT !.pc = pc, !.name = e, !.mode = mode,
                             !.target = target, !.critic = Critic(critic)]
<1>1. trainer' = [trainer EXCEPT ![t] = r] /\ saves' = saves
    BY DEF StartPilot
<1>2. SessionFits(r)
  <2>1. pc \in {"none", "load", "train"} /\ e \in Names /\ target \in 0..PlannedSteps
      BY CropNumbers DEF Names
  <2> HIDE DEF pc
  <2> QED BY <2>1, IdleFits
<1>3. saves' \in [PilotNames -> SUBSET Checkpoints]
    BY <1>1 DEF ResumeInv
<1> HIDE DEF r
<1> QED BY <1>1, <1>2, <1>3, RunChanges

(* A run goes on from a checkpoint, its own or that of another experiment. *)
LEMMA LoadStep ==
    ASSUME ResumeInv, NEW t \in Trainers, LoadPilot(t)
    PROVE  ResumeInv'
<1> DEFINE r == trainer[t]
<1>0. PICK e \in PilotNames : \E c \in saves[e] :
          /\ c.state.step <= r.target
          /\ trainer' = [trainer EXCEPT ![t] = [Restored(@, c) EXCEPT !.pc = "train"]]
    BY DEF LoadPilot
<1>1. PICK c \in saves[e] :
          /\ c.state.step <= r.target
          /\ trainer' = [trainer EXCEPT ![t] = [Restored(@, c) EXCEPT !.pc = "train"]]
    BY <1>0
<1>2. /\ c \in Checkpoints /\ c.state \in States /\ c.critic \in Critics
      /\ AtPoint(c.state, 0) /\ CriticFits(c.critic, c.state.step) /\ c.state.step \in Nat
  <2>1. c \in Checkpoints
      BY DEF ResumeInv
  <2>2. \A s \in States : s.step \in Nat
      BY CropNumbers DEF States
  <2> QED BY <2>1, <2>2 DEF Checkpoints
<1>3. /\ SessionFits(r) /\ r \in Sessions /\ r.pc = "load" /\ r.target \in Nat
    BY SessionOf DEF LoadPilot, Trains
<1>4. /\ r.batches = 0 /\ r.state.step = 0 /\ r.critic \in Critics
      /\ CriticFits(r.critic, 0) /\ r.gradients = <<>>
    BY <1>3, SessionOf DEF SessionFits, Sessions
<1> DEFINE critic == RestoredCritic(r, c)
           x == [[r EXCEPT !.state = c.state, !.critic = critic] EXCEPT !.pc = "train"]
<1>5. critic \in Critics /\ CriticFits(critic, c.state.step)
  <2>1. \A k \in Nat : <<k>>[1] = k
      OBVIOUS
  <2>2. CriticFits(r.critic, c.state.step)
    <3>1. CASE r.critic = NoCritic
        BY <3>1 DEF CriticFits
    <3>2. CASE r.critic # NoCritic
      <4>1. PICK k \in Nat : r.critic = <<k>>
          BY <1>4, <3>2 DEF Critics
      <4> QED BY <1>2, <1>4, <3>2, <4>1 DEF CriticFits
    <3> QED BY <3>1, <3>2
  <2> QED BY <1>2, <1>4, <2>2 DEF RestoredCritic
<1>6. trainer' = [trainer EXCEPT ![t] = x]
  <2>1. [trainer EXCEPT ![t] = [Restored(@, c) EXCEPT !.pc = "train"]] = [trainer EXCEPT ![t] = x]
      BY Zenon DEF Restored
  <2> QED BY <1>1, <2>1
<1> HIDE DEF critic, r
<1>7. /\ x \in Sessions /\ x.pc = "train" /\ x.state = c.state /\ x.critic = critic
      /\ x.target = r.target /\ x.gradients = r.gradients /\ x.batches = r.batches
    BY <1>2, <1>3, <1>5 DEF Sessions
<1> HIDE DEF x
<1>8. x.gradients = Segment(x.state.step * EffectiveBatch, x.batches * PhysicalBatch)
  <2>1. 0 * PhysicalBatch = 0 /\ c.state.step * EffectiveBatch \in Nat
      BY <1>2, CropNumbers, BatchNumbers
  <2> QED BY <1>4, <1>7, <2>1, SegmentsJoin
<1>9. SessionFits(x)
    BY <1>1, <1>2, <1>3, <1>4, <1>5, <1>7, <1>8 DEF SessionFits, r
<1>10. saves' \in [PilotNames -> SUBSET Checkpoints]
    BY DEF ResumeInv, LoadPilot
<1> QED BY <1>6, <1>9, <1>10, RunChanges

(* A run ends: what was not saved is lost.                                 *)
LEMMA EndStep ==
    ASSUME ResumeInv, NEW t \in Trainers, EndPilot(t) PROVE ResumeInv'
<1>1. trainer' = [trainer EXCEPT ![t] = Idle] /\ saves' = saves
    BY DEF EndPilot
<1>2. SessionFits(Idle)
  <2>1. 0 \in 0..PlannedSteps /\ Idle.name \in Names
      BY CropNumbers DEF Names
  <2> QED BY <2>1, IdleFits
<1>3. saves' \in [PilotNames -> SUBSET Checkpoints]
    BY <1>1 DEF ResumeInv
<1> QED BY <1>1, <1>2, <1>3, RunChanges

(* A run stops between two updates, to save.                               *)
LEMMA LeaveStep ==
    ASSUME ResumeInv, NEW t \in Trainers, LeavePilotLoop(t) PROVE ResumeInv'
<1> DEFINE r == trainer[t]
           x == [r EXCEPT !.pc = "save"]
<1>1. trainer' = [trainer EXCEPT ![t] = x] /\ saves' = saves /\ r.gradients = <<>>
    BY DEF LeavePilotLoop, Unfinished
<1>2. SessionFits(r) /\ r \in Sessions /\ r.batches = 0
    BY <1>1, SessionOf
<1> HIDE DEF r
<1>3. /\ x \in Sessions /\ x.pc = "save" /\ x.state = r.state /\ x.critic = r.critic
      /\ x.target = r.target /\ x.gradients = r.gradients /\ x.batches = r.batches
    BY <1>2 DEF Sessions
<1> HIDE DEF x
<1>4. SessionFits(x)
    BY <1>2, <1>3 DEF SessionFits
<1>5. saves' \in [PilotNames -> SUBSET Checkpoints]
    BY <1>1 DEF ResumeInv
<1> QED BY <1>1, <1>4, <1>5, RunChanges

(* A batch: the crops and bits that the uninterrupted run takes next.      *)
LEMMA TakeStep ==
    ASSUME ResumeInv, NEW t \in Trainers, TakeBatch(t) PROVE ResumeInv'
<1> DEFINE r == trainer[t]
           s == r.state
           gradients == r.gradients \o BatchOf(s.sampler, s.payload)
           sampler == After(s.sampler, PhysicalBatch)[PhysicalBatch]
           payload == s.payload + 1
           batches == r.batches + 1
           state == [s EXCEPT !.sampler = sampler, !.payload = payload]
           x == [r EXCEPT !.gradients = gradients, !.state = state, !.batches = batches]
<1>1. /\ SessionFits(r) /\ r \in Sessions /\ s \in States /\ r.batches \in Nat
      /\ s.step \in Nat /\ s.payload \in Nat /\ r.target <= PlannedSteps
      /\ r.target \in Nat /\ s.step <= PlannedSteps
    BY SessionOf
<1>2. saves' = saves /\ r.pc = "train" /\ r.batches < Accumulation /\ s.step < r.target
  <2>1. r.gradients # <<>> \/ s.step < r.target
      BY DEF TakeBatch, Unfinished
  <2>2. r.gradients = <<>> <=> r.batches = 0
      BY SessionOf
  <2>3. r.batches > 0 => s.step < r.target
      BY <1>1 DEF SessionFits
  <2>4. r.batches \in Nat
      BY <1>1
  <2>5. s.step < r.target
    <3> HIDE DEF r, s
    <3> QED BY <2>1, <2>2, <2>3, <2>4
  <2> QED BY <2>5 DEF TakeBatch, Trains
<1>3. trainer' = [trainer EXCEPT ![t] = x]
  <2>0. t \in DOMAIN trainer
      BY Zenon DEF ResumeInv
  <2>1. trainer' = [trainer EXCEPT ![t].gradients = @ \o BatchOf(s.sampler, s.payload),
           ![t].state.sampler = After(s.sampler, PhysicalBatch)[PhysicalBatch],
           ![t].state.payload = @ + 1,
           ![t].batches = @ + 1]
      BY Zenon DEF TakeBatch
  <2>2. DOMAIN trainer' = DOMAIN trainer /\ \A u \in DOMAIN trainer : u # t => trainer'[u] = trainer[u]
      BY ONLY <2>1
  <2>3. trainer'[t] = x
      BY ONLY <2>0, <2>1
  <2>4. trainer' = [u \in DOMAIN trainer |-> trainer'[u]]
      BY ONLY <2>1
  <2> HIDE DEF x
  <2> QED BY ONLY <2>2, <2>3, <2>4
<1>4. /\ s.payload = s.step * Accumulation + r.batches
      /\ s.learned = Segment(0, s.step * EffectiveBatch)
      /\ s.sampler = SamplerAfter[s.payload * PhysicalBatch]
      /\ r.gradients = Segment(s.step * EffectiveBatch, r.batches * PhysicalBatch)
    BY <1>1 DEF SessionFits, AtPoint
<1> DEFINE n == s.payload * PhysicalBatch
           first == s.step * EffectiveBatch
           taken == r.batches * PhysicalBatch
<1>5. /\ n = first + taken /\ n \in Nat /\ first \in Nat /\ taken \in Nat
      /\ PhysicalBatch \in Nat /\ n + PhysicalBatch <= LastCrop
      /\ taken + PhysicalBatch = batches * PhysicalBatch
      /\ n + PhysicalBatch = payload * PhysicalBatch
      /\ payload = s.step * Accumulation + batches
  <2> DEFINE i == s.step
             j == r.batches
  <2>1. i \in Nat /\ j \in Nat /\ i < PlannedSteps /\ j < Accumulation
    <3>1. PlannedSteps \in Nat
        BY CropNumbers
    <3>2. /\ s.step \in Nat /\ r.batches \in Nat /\ r.target \in Nat /\ s.step < r.target
          /\ r.target <= PlannedSteps /\ r.batches < Accumulation
        BY <1>1, <1>2
    <3> HIDE DEF r, s
    <3> QED BY <3>1, <3>2
  <2>2. s.payload = i * Accumulation + j
      BY <1>4
  <2> HIDE DEF i, j
  <2>3. /\ (i * Accumulation + j) * PhysicalBatch = i * EffectiveBatch + j * PhysicalBatch
        /\ i * EffectiveBatch \in Nat /\ j * PhysicalBatch \in Nat
        /\ i * Accumulation + j \in Nat
        /\ j * PhysicalBatch + PhysicalBatch = (j + 1) * PhysicalBatch
      BY <2>1, BatchNumbers
  <2>4. (i * Accumulation + j) * PhysicalBatch + PhysicalBatch <= LastCrop
      BY <2>1, BatchFits
  <2>5. n + PhysicalBatch = payload * PhysicalBatch
      BY <1>1, CropNumbers
  <2>6. payload = i * Accumulation + (j + 1)
    <3>1. i * Accumulation \in Nat
        BY <2>1, CropNumbers
    <3> QED BY <2>1, <2>2, <3>1
  <2>7. n = i * EffectiveBatch + j * PhysicalBatch /\ n + PhysicalBatch <= LastCrop /\ n \in Nat
    <3>1. n = (i * Accumulation + j) * PhysicalBatch
        BY <2>2
    <3>2. n \in Nat
        BY <1>1, CropNumbers
    <3> HIDE DEF n
    <3> QED BY <2>3, <2>4, <3>1, <3>2
  <2>8. PhysicalBatch \in Nat
      BY CropNumbers
  <2> HIDE DEF n
  <2> QED BY <2>3, <2>5, <2>6, <2>7, <2>8 DEF i, j
<1>6. /\ BatchOf(s.sampler, s.payload) = Segment(n, PhysicalBatch)
      /\ sampler = SamplerAfter[n + PhysicalBatch]
    BY <1>1, <1>4, <1>5, BatchIsSegment
<1>7. gradients = Segment(first, taken + PhysicalBatch)
  <2>1. r.gradients = Segment(first, taken)
      BY <1>4
  <2>2. gradients = r.gradients \o BatchOf(s.sampler, s.payload)
      OBVIOUS
  <2> HIDE DEF gradients, n, first, taken, r, s
  <2>3. Segment(first, taken) \o Segment(first + taken, PhysicalBatch)
            = Segment(first, taken + PhysicalBatch)
      BY <1>5, SegmentsJoin
  <2> QED BY <1>5, <1>6, <2>1, <2>2, <2>3
<1>8. /\ gradients \in Segments /\ sampler \in Samplers /\ payload \in Nat
      /\ batches \in 0..Accumulation
  <2>1. payload \in Nat /\ batches \in 0..Accumulation
    <3>1. Accumulation \in Nat
        BY CropNumbers
    <3>2. s.payload \in Nat /\ r.batches \in Nat /\ r.batches < Accumulation
        BY <1>1, <1>2
    <3> HIDE DEF r, s
    <3> QED BY <3>1, <3>2
  <2> HIDE DEF gradients, sampler, payload, batches, n, first, taken, r, s
  <2>2. taken + PhysicalBatch \in Nat /\ n + PhysicalBatch \in Nat /\ first \in Nat
      BY <1>5
  <2>3. gradients \in Segments
      BY <1>7, <2>2 DEF Segments
  <2>4. sampler \in Samplers
      BY <1>6, <2>2 DEF Samplers
  <2> QED BY <2>1, <2>3, <2>4
<1> HIDE DEF gradients, sampler, payload, batches, n, first, taken
<1>9. /\ state \in States /\ state.step = s.step /\ state.sampler = sampler
      /\ state.payload = payload /\ state.learned = s.learned
    BY <1>1, <1>8 DEF States
<1> HIDE DEF s, state
<1>10. /\ x \in Sessions /\ x.pc = r.pc /\ x.state = state /\ x.critic = r.critic
       /\ x.target = r.target /\ x.gradients = gradients /\ x.batches = batches
    BY <1>1, <1>8, <1>9 DEF Sessions
<1> HIDE DEF x, r
<1>11. AtPoint(x.state, x.batches)
    BY <1>4, <1>5, <1>6, <1>9, <1>10 DEF AtPoint
<1>12. x.gradients = Segment(x.state.step * EffectiveBatch, x.batches * PhysicalBatch)
    BY <1>5, <1>7, <1>9, <1>10 DEF first
<1>13. SessionFits(x)
    BY <1>1, <1>2, <1>9, <1>10, <1>11, <1>12 DEF SessionFits, s
<1>14. saves' \in [PilotNames -> SUBSET Checkpoints]
    BY <1>2 DEF ResumeInv
<1> QED BY <1>3, <1>13, <1>14, RunChanges

(* An update: the segment since the last one has been learned.             *)
LEMMA CommitStep ==
    ASSUME ResumeInv, NEW t \in Trainers, CommitUpdate(t) PROVE ResumeInv'
<1> DEFINE r == trainer[t]
           s == r.state
           learned == s.learned \o r.gradients
           step == s.step + 1
           critic == CriticLearns(r.critic)
           state == [s EXCEPT !.learned = learned, !.step = step]
           x == [r EXCEPT !.state = state, !.critic = critic, !.gradients = <<>>, !.batches = 0]
<1>1. /\ SessionFits(r) /\ r \in Sessions /\ s \in States
      /\ s.step \in Nat /\ s.payload \in Nat /\ r.target <= PlannedSteps /\ r.target \in Nat
      /\ saves' = saves /\ r.pc = "train" /\ r.batches = Accumulation
    BY SessionOf DEF CommitUpdate, Trains
<1>2. s.step < r.target
    BY <1>1, CropNumbers DEF SessionFits
<1>3. trainer' = [trainer EXCEPT ![t] = x]
  <2>0. t \in DOMAIN trainer
      BY Zenon DEF ResumeInv
  <2>1. trainer' = [trainer EXCEPT ![t].state.learned = @ \o trainer[t].gradients,
           ![t].state.step = @ + 1,
           ![t].critic = CriticLearns(@),
           ![t].gradients = <<>>, ![t].batches = 0]
      BY Zenon DEF CommitUpdate
  <2>2. DOMAIN trainer' = DOMAIN trainer /\ \A u \in DOMAIN trainer : u # t => trainer'[u] = trainer[u]
      BY ONLY <2>1
  <2>3. trainer'[t] = x
      BY ONLY <2>0, <2>1
  <2>4. trainer' = [u \in DOMAIN trainer |-> trainer'[u]]
      BY ONLY <2>1
  <2> HIDE DEF x
  <2> QED BY ONLY <2>2, <2>3, <2>4
<1>4. /\ s.payload = s.step * Accumulation + Accumulation
      /\ s.learned = Segment(0, s.step * EffectiveBatch)
      /\ s.sampler = SamplerAfter[s.payload * PhysicalBatch]
      /\ r.gradients = Segment(s.step * EffectiveBatch, Accumulation * PhysicalBatch)
    BY <1>1 DEF SessionFits, AtPoint
<1> DEFINE first == s.step * EffectiveBatch
<1>5. /\ first \in Nat /\ EffectiveBatch \in Nat
      /\ r.gradients = Segment(first, EffectiveBatch)
      /\ first + EffectiveBatch = step * EffectiveBatch
      /\ s.payload = step * Accumulation + 0
  <2> DEFINE i == s.step
  <2>1. i \in Nat
      BY <1>1
  <2>2. /\ s.payload = i * Accumulation + Accumulation
        /\ r.gradients = Segment(i * EffectiveBatch, Accumulation * PhysicalBatch)
      BY <1>4
  <2> HIDE DEF i
  <2>3. /\ i * EffectiveBatch \in Nat /\ EffectiveBatch \in Nat /\ 0 \in Nat
        /\ Accumulation * PhysicalBatch = EffectiveBatch
        /\ i * EffectiveBatch + EffectiveBatch = (i + 1) * EffectiveBatch
        /\ i * Accumulation + Accumulation = (i + 1) * Accumulation
    <3>1. 0 \in Nat
        OBVIOUS
    <3> QED BY <2>1, <3>1, BatchNumbers, CropNumbers
  <2>4. (i + 1) * Accumulation + 0 = (i + 1) * Accumulation
    <3>1. (i + 1) * Accumulation \in Nat
        BY <2>1, CropNumbers
    <3> QED BY <3>1
  <2> QED BY <2>2, <2>3, <2>4 DEF i
<1>6. learned = Segment(0, first + EffectiveBatch)
  <2>1. 0 + first = first /\ 0 \in Nat
      BY <1>5
  <2>2. Segment(0, first) \o Segment(0 + first, EffectiveBatch) = Segment(0, first + EffectiveBatch)
      BY <1>5, <2>1, SegmentsJoin
  <2> QED BY <1>4, <1>5, <2>1, <2>2
<1>7. critic \in Critics /\ CriticFits(critic, step)
  <2>1. \A k \in Nat : <<k>>[1] = k /\ k + 1 \in Nat
      OBVIOUS
  <2>2. r.critic \in Critics /\ CriticFits(r.critic, s.step)
      BY <1>1 DEF SessionFits, Sessions
  <2>3. CASE r.critic = NoCritic
      BY <2>3 DEF CriticLearns, Critics, CriticFits
  <2>4. CASE r.critic # NoCritic
    <3>1. PICK k \in Nat : r.critic = <<k>>
        BY <2>2, <2>4 DEF Critics
    <3>2. k <= s.step /\ critic = <<k + 1>>
        BY <2>1, <2>2, <2>4, <3>1 DEF CriticFits, CriticLearns
    <3> QED BY <1>1, <2>1, <3>2 DEF Critics, CriticFits
  <2> QED BY <2>3, <2>4
<1>8. /\ learned \in Segments /\ step \in 0..PlannedSteps /\ <<>> \in Segments
      /\ 0 \in 0..Accumulation
  <2>1. first + EffectiveBatch \in Nat /\ 0 \in Nat
      BY <1>5
  <2>2. step \in 0..PlannedSteps /\ 0 \in 0..Accumulation
      BY <1>1, <1>2, CropNumbers
  <2> QED BY <1>6, <2>1, <2>2, FreshIsExact DEF Segments
<1>9. step <= r.target
    BY <1>1, <1>2
<1> HIDE DEF learned, step, critic, first
<1>10. /\ state \in States /\ state.step = step /\ state.sampler = s.sampler
       /\ state.payload = s.payload /\ state.learned = learned
    BY <1>1, <1>8 DEF States
<1> HIDE DEF s, state
<1>11. /\ x \in Sessions /\ x.pc = r.pc /\ x.state = state /\ x.critic = critic
       /\ x.target = r.target /\ x.gradients = <<>> /\ x.batches = 0
    BY <1>1, <1>7, <1>8, <1>10 DEF Sessions
<1> HIDE DEF x, r
<1>12. AtPoint(x.state, x.batches)
    BY <1>4, <1>5, <1>6, <1>10, <1>11 DEF AtPoint
<1>13. x.gradients = Segment(x.state.step * EffectiveBatch, x.batches * PhysicalBatch)
  <2>1. 0 * PhysicalBatch = 0 /\ step * EffectiveBatch \in Nat
      BY <1>5, CropNumbers
  <2> QED BY <1>10, <1>11, <2>1, SegmentsJoin
<1>14. SessionFits(x)
    BY <1>1, <1>7, <1>9, <1>10, <1>11, <1>12, <1>13 DEF SessionFits
<1>15. saves' \in [PilotNames -> SUBSET Checkpoints]
    BY <1>1 DEF ResumeInv
<1> QED BY <1>3, <1>14, <1>15, RunChanges

(* A save: what was taken since the last update is not in it.              *)
LEMMA SaveRunStep ==
    ASSUME ResumeInv, NEW t \in Trainers, SavePilot(t) PROVE ResumeInv'
<1> DEFINE r == trainer[t]
           c == [state |-> r.state, critic |-> r.critic]
<1>1. SessionFits(r) /\ r \in Sessions /\ r.state \in States
    BY SessionOf
<1>2. r.batches = 0
  <2>1. r.pc = "save" \/ r.gradients = <<>>
      BY DEF SavePilot, Trains, Unfinished
  <2> QED BY <1>1, <2>1, SessionOf DEF SessionFits
<1>3. c \in Checkpoints
  <2>1. r.critic \in Critics /\ AtPoint(r.state, 0) /\ CriticFits(r.critic, r.state.step)
      BY <1>1, <1>2 DEF SessionFits, Sessions
  <2> HIDE DEF r
  <2> QED BY <1>1, <2>1 DEF Checkpoints
<1>4. PICK kept \in SUBSET saves[r.name] : saves' = [saves EXCEPT ![r.name] = kept \cup {c}]
    BY DEF SavePilot, Snapshot
<1> HIDE DEF c
<1>5. saves' \in [PilotNames -> SUBSET Checkpoints]
  <2>1. saves \in [PilotNames -> SUBSET Checkpoints]
      BY DEF ResumeInv
  <2> HIDE DEF r
  <2> QED BY <1>3, <1>4, <2>1
<1>6. trainer' = trainer \/ trainer' = [trainer EXCEPT ![t] = Idle]
    BY DEF SavePilot
<1>7. CASE trainer' = trainer
    BY <1>5, <1>7 DEF ResumeInv
<1>8. CASE trainer' = [trainer EXCEPT ![t] = Idle]
  <2>1. 0 \in 0..PlannedSteps /\ Idle.name \in Names
      BY CropNumbers DEF Names
  <2>2. SessionFits(Idle)
      BY <2>1, IdleFits
  <2> QED BY <1>5, <1>8, <2>2, RunChanges
<1> QED BY <1>6, <1>7, <1>8

(* At first there are no checkpoints, and no runs.                         *)
LEMMA ResumeStart == PilotRunInit => ResumeInv
<1> SUFFICES ASSUME PilotRunInit PROVE ResumeInv
    OBVIOUS
<1>1. saves \in [PilotNames -> SUBSET Checkpoints]
    BY DEF PilotRunInit
<1>2. trainer = [t \in Trainers |-> Idle]
    BY DEF PilotRunInit
<1>3. SessionFits(Idle)
  <2>1. 0 \in 0..PlannedSteps /\ Idle.name \in Names
      BY CropNumbers DEF Names
  <2> QED BY <2>1, IdleFits
<1> QED BY <1>1, <1>2, <1>3 DEF ResumeInv

(* Every step keeps the invariant.                                         *)
LEMMA ResumeStep == ASSUME ResumeInv, [PilotRunNext]_pilotRunVars PROVE ResumeInv'
<1>1. CASE trainer' = trainer /\ saves' = saves
    BY <1>1 DEF ResumeInv
<1>2. CASE UNCHANGED pilotRunVars
    BY <1>1, <1>2 DEF pilotRunVars
<1>3. ASSUME NEW t \in Trainers, TouchDirectory(t) PROVE ResumeInv'
    BY <1>1, <1>3 DEF TouchDirectory
<1> QED BY <1>2, <1>3, StartStep, LoadStep, TakeStep, CommitStep, LeaveStep, SaveRunStep,
           EndStep DEF PilotRunNext

(* Exact resume: every checkpoint and every live run has learned from      *)
(* exactly the crops and message bits that the uninterrupted run of the    *)
(* frozen profile would have seen, in that order, and goes on from there;  *)
(* a checkpoint holds no part of an update (pilot_training.py,             *)
(* pilot_training_state.py, pilot_training_fork.py, pilot_sampler.py).     *)
THEOREM ResumesAreExact == PilotRunSpec => []ResumeIsExact
<1>1. ResumeInv /\ [PilotRunNext]_pilotRunVars => ResumeInv'
    BY ResumeStep
<1>2. ResumeInv => ResumeIsExact
    BY ResumeHolds
<1> QED BY ResumeStart, <1>1, <1>2, PTL DEF PilotRunSpec

-----------------------------------------------------------------------------
(* No leakage between splits                                               *)

LastFile == Cardinality(Files)

LEMMA FileNumbers ==
    /\ LastFile \in Nat /\ Files = 1..LastFile
    /\ 0..LastFile \subseteq Nat
BY PreparationAssumption, FS_CardinalityType DEF LastFile

(* A forest of files: root says where each tree ends and depth how far it  *)
(* is to go, never farther than there are files that are no root.          *)
Inner(parents) == {f \in Files : parents[f] # f}
Rooted(parents, root, depth) ==
    /\ parents \in [Files -> Files] /\ root \in [Files -> Files]
    /\ depth \in [Files -> 0..Cardinality(Inner(parents))]
    /\ \A f \in Files :
           /\ root[parents[f]] = root[f] /\ root[root[f]] = root[f]
           /\ parents[root[f]] = root[f] /\ depth[root[f]] = 0
           /\ f # root[f] => depth[parents[f]] < depth[f]

(* The walk of find exists: each place follows from the one before.        *)
Walk(parents, f) == CHOOSE at : at = [n \in 0..LastFile |-> IF n = 0 THEN f ELSE parents[at[n - 1]]]
LEMMA WalkFollows ==
    ASSUME NEW parents, NEW f
    PROVE  /\ Root(parents, f) = Walk(parents, f)[LastFile]
           /\ Walk(parents, f)[0] = f
           /\ \A n \in 1..LastFile : Walk(parents, f)[n] = parents[Walk(parents, f)[n - 1]]
<1> DEFINE Follows(at, m) == at = [n \in 0..m |-> IF n = 0 THEN f ELSE parents[at[n - 1]]]
           F == {m \in Nat : ~ \E at : Follows(at, m)}
<1>1. F = {}
  <2> SUFFICES ASSUME F # {} PROVE FALSE
      OBVIOUS
  <2>1. PICK m \in F : \A k \in F : m <= k
    <3>1. F \in SUBSET Nat
        OBVIOUS
    <3> HIDE DEF F
    <3> QED BY <3>1, Smallest
  <2>2. m # 0
    <3>1. Follows([n \in 0..0 |-> f], 0)
        OBVIOUS
    <3> QED BY <3>1
  <2>3. m \in Nat /\ m - 1 \in Nat /\ m - 1 \notin F
    <3>1. m \in Nat
        OBVIOUS
    <3> HIDE DEF F
    <3> QED BY <3>1, <2>1, <2>2
  <2>4. PICK at : Follows(at, m - 1)
      BY <2>3
  <2> DEFINE g == [n \in 0..m |-> IF n = 0 THEN f ELSE parents[at[n - 1]]]
  <2>5. \A n \in 0..(m - 1) : g[n] = at[n]
      BY <2>1, <2>3, <2>4
  <2>6. \A n \in 0..m : g[n] = IF n = 0 THEN f ELSE parents[g[n - 1]]
    <3>1. g[0] = f
        BY <2>3
    <3>2. ASSUME NEW n \in 1..m
          PROVE  n \in 0..m /\ n - 1 \in 0..(m - 1) /\ g[n] = parents[at[n - 1]]
        BY <2>3
    <3> HIDE DEF g
    <3> QED BY <3>1, <3>2, <2>3, <2>5
  <2>7. g = [n \in 0..m |-> g[n]]
      OBVIOUS
  <2> HIDE DEF g
  <2>8. Follows(g, m)
      BY <2>6, <2>7
  <2> QED BY <2>1, <2>8
<1>2. \E at : Follows(at, LastFile)
    BY <1>1, FileNumbers
<1>3. Follows(Walk(parents, f), LastFile)
    BY <1>2 DEF Walk
<1>4. Root(parents, f) = Walk(parents, f)[LastFile]
    BY Zenon DEF Root, Walk, LastFile
<1> DEFINE a == Walk(parents, f)
<1>5. a = [n \in 0..LastFile |-> IF n = 0 THEN f ELSE parents[a[n - 1]]]
    BY <1>3
<1> HIDE DEF a
<1>6. a[0] = f /\ \A n \in 1..LastFile : a[n] = parents[a[n - 1]]
    BY <1>5, FileNumbers
<1> QED BY <1>4, <1>6 DEF a

(* find ends in the root.                                                  *)
LEMMA FindEnds ==
    ASSUME NEW parents, NEW root, NEW depth, Rooted(parents, root, depth), NEW f \in Files
    PROVE  Root(parents, f) = root[f]
<1> DEFINE at == Walk(parents, f)
           F == {n \in 0..LastFile : ~ (at[n] \in Files /\ root[at[n]] = root[f]
                                     /\ (at[n] = root[f] \/ depth[at[n]] + n <= depth[f]))}
<1>1. at[0] = f /\ (\A n \in 1..LastFile : at[n] = parents[at[n - 1]]) /\ Root(parents, f) = at[LastFile]
    BY WalkFollows
<1> HIDE DEF at
<1>2. Cardinality(Inner(parents)) \in Nat /\ Cardinality(Inner(parents)) <= LastFile
  <2>1. Inner(parents) \in SUBSET Files /\ IsFiniteSet(Files)
      BY PreparationAssumption DEF Inner
  <2> QED BY <2>1, FS_Subset, FS_CardinalityType DEF LastFile
<1>3. \A x \in Files : depth[x] \in Nat /\ depth[x] <= LastFile
    BY <1>2, FileNumbers DEF Rooted
<1>4. F = {}
  <2> SUFFICES ASSUME F # {} PROVE FALSE
      OBVIOUS
  <2>1. PICK n \in F : \A k \in F : n <= k
    <3>1. F \in SUBSET Nat
        BY FileNumbers
    <3> HIDE DEF F
    <3> QED BY <3>1, Smallest
  <2>2. n # 0
      BY <1>1, <1>3
  <2>3. n \in 1..LastFile /\ n - 1 \in 0..LastFile /\ n - 1 \notin F
    <3>1. n \in 0..LastFile
        OBVIOUS
    <3> HIDE DEF F
    <3> QED BY <3>1, <2>1, <2>2, FileNumbers
  <2> DEFINE x == at[n - 1]
  <2>4. x \in Files /\ root[x] = root[f] /\ (x = root[f] \/ depth[x] + (n - 1) <= depth[f])
      BY <2>3
  <2>5. at[n] = parents[x]
      BY <1>1, <2>3
  <2> HIDE DEF x
  <2>6. parents[x] \in Files /\ root[parents[x]] = root[f]
      BY <2>4 DEF Rooted
  <2>7. parents[x] = root[f] \/ depth[parents[x]] + n <= depth[f]
    <3>1. CASE x = root[f]
        BY <3>1, <2>4 DEF Rooted
    <3>2. CASE x # root[f]
      <4>1. depth[parents[x]] < depth[x] /\ depth[x] + (n - 1) <= depth[f]
          BY <3>2, <2>4 DEF Rooted
      <4>2. depth[parents[x]] \in Nat /\ depth[x] \in Nat /\ depth[f] \in Nat
          BY <1>3, <2>4, <2>6
      <4> QED BY <4>1, <4>2, <2>3, FileNumbers
    <3> QED BY <3>1, <3>2
  <2> QED BY <2>3, <2>5, <2>6, <2>7
<1>5. at[LastFile] \in Files /\ root[at[LastFile]] = root[f]
      /\ (at[LastFile] = root[f] \/ depth[at[LastFile]] + LastFile <= depth[f])
    BY <1>4, FileNumbers
<1>6. CASE at[LastFile] # root[f]
  <2>1. depth[at[LastFile]] = 0
      BY <1>3, <1>5, <1>6, FileNumbers
  <2>2. depth[parents[at[LastFile]]] \in Nat
      BY <1>3, <1>5 DEF Rooted
  <2>3. at[LastFile] # root[at[LastFile]] => depth[parents[at[LastFile]]] < 0
      BY <1>5, <2>1 DEF Rooted
  <2> QED BY <1>1, <1>5, <1>6, <2>2, <2>3
<1> QED BY <1>1, <1>6

(* A link of two roots keeps a forest, and both trees end in the second.   *)
TreesMerged(root, a, b) == [f \in Files |-> IF root[f] = a THEN b ELSE root[f]]
LEMMA LinkKeepsForest ==
    ASSUME NEW parents, NEW root, NEW depth, Rooted(parents, root, depth),
           NEW f \in Files, NEW g \in Files
    PROVE  \E deeper : Rooted([parents EXCEPT ![root[f]] = root[g]],
                              TreesMerged(root, root[f], root[g]), deeper)
<1> DEFINE a == root[f]
           b == root[g]
           joined == [parents EXCEPT ![a] = b]
           both == TreesMerged(root, a, b)
           deeper == [x \in Files |-> IF root[x] = a THEN depth[x] + 1 ELSE depth[x]]
           k == Cardinality(Inner(parents))
<1>1. /\ parents \in [Files -> Files] /\ root \in [Files -> Files]
      /\ \A x \in Files :
             /\ root[parents[x]] = root[x] /\ root[root[x]] = root[x]
             /\ parents[root[x]] = root[x] /\ depth[root[x]] = 0
             /\ x # root[x] => depth[parents[x]] < depth[x]
    BY DEF Rooted
<1>2. a \in Files /\ b \in Files /\ root[a] = a /\ root[b] = b /\ parents[a] = a /\ parents[b] = b
      /\ depth[a] = 0 /\ depth[b] = 0
    BY <1>1
<1>3. IsFiniteSet(Inner(parents)) /\ k \in Nat
  <2>1. Inner(parents) \in SUBSET Files /\ IsFiniteSet(Files)
      BY PreparationAssumption DEF Inner
  <2> QED BY <2>1, FS_Subset, FS_CardinalityType
<1>4. \A x \in Files : depth[x] \in 0..k
    BY DEF Rooted
<1> HIDE DEF a, b
<1>5. CASE a = b
  <2>1. joined = parents /\ both = root
      BY <1>1, <1>2, <1>5 DEF TreesMerged
  <2>2. Rooted(joined, both, depth)
      BY <2>1
  <2> QED BY <2>2 DEF a, b
<1>6. CASE a # b
  <2>1. joined \in [Files -> Files] /\ joined[a] = b /\ \A x \in Files \ {a} : joined[x] = parents[x]
      BY <1>1, <1>2
  <2>2. both \in [Files -> Files] /\ \A x \in Files : both[x] = IF root[x] = a THEN b ELSE root[x]
      BY <1>1, <1>2 DEF TreesMerged
  <2>3. Inner(joined) = Inner(parents) \cup {a} /\ a \notin Inner(parents)
      BY <1>2, <1>6, <2>1 DEF Inner
  <2>4. Cardinality(Inner(joined)) = k + 1
      BY <1>3, <2>3, FS_AddElement
  <2>5. deeper \in [Files -> 0..(k + 1)]
        /\ \A x \in Files : deeper[x] = IF root[x] = a THEN depth[x] + 1 ELSE depth[x]
      BY <1>3, <1>4
  <2> HIDE DEF joined, both, deeper, k
  <2>6. ASSUME NEW x \in Files
        PROVE  /\ both[joined[x]] = both[x] /\ both[both[x]] = both[x]
               /\ joined[both[x]] = both[x] /\ deeper[both[x]] = 0
               /\ x # both[x] => deeper[joined[x]] < deeper[x]
    <3>1. parents[x] \in Files /\ root[x] \in Files /\ joined[x] \in Files
        BY <1>1, <2>1
    <3>2. both[joined[x]] = both[x] /\ both[both[x]] = both[x]
        BY <1>1, <1>2, <1>6, <2>1, <2>2, <3>1
    <3>3. joined[both[x]] = both[x]
        BY <1>1, <1>2, <1>6, <2>1, <2>2, <3>1
    <3>4. deeper[both[x]] = 0
        BY <1>1, <1>2, <1>6, <2>2, <2>5, <3>1
    <3>5. ASSUME x # both[x] PROVE deeper[joined[x]] < deeper[x]
      <4>1. CASE x = a
        <5>1. deeper[joined[x]] = 0 /\ deeper[x] = 1
            BY <1>2, <1>6, <2>1, <2>5, <4>1
        <5> QED BY <5>1
      <4>2. CASE x # a
        <5>1. x # root[x]
            BY <1>1, <2>2, <3>5, <4>2
        <5>2. depth[parents[x]] < depth[x] /\ joined[x] = parents[x] /\ root[parents[x]] = root[x]
            BY <1>1, <2>1, <4>2, <5>1
        <5>3. depth[parents[x]] \in Nat /\ depth[x] \in Nat
            BY <1>3, <1>4, <3>1
        <5> QED BY <2>5, <3>1, <5>2, <5>3
      <4> QED BY <4>1, <4>2
    <3> QED BY <3>2, <3>3, <3>4, <3>5
  <2>7. Rooted(joined, both, deeper)
      BY <2>1, <2>2, <2>4, <2>5, <2>6 DEF Rooted
  <2> QED BY <2>7 DEF joined, both, a, b
<1> QED BY <1>5, <1>6

(* What the forest has after some keys of some images: the first image of  *)
(* each key, one tree for all images that share a key, and no tree that    *)
(* reaches beyond what shared keys connect.                                *)
Shares(images, f, g) == Keys(images, f) \cap Keys(images, g) # {}
Whole(images, C) ==
    \A f \in C, g \in DOMAIN images : Shares(images, f, g) => g \in C
Joins(forest, images, done) ==
    /\ DOMAIN forest = {"parents", "tokens"}
    /\ \A key \in DOMAIN forest.tokens :
           forest.tokens[key] \in DOMAIN images /\ key \in Keys(images, forest.tokens[key])
    /\ \E root, depth :
           /\ Rooted(forest.parents, root, depth)
           /\ \A f \in DOMAIN images : \A key \in Keys(images, f) : <<f, key>> \in done =>
                  key \in DOMAIN forest.tokens /\ root[forest.tokens[key]] = root[f]
           /\ \A C \in SUBSET DOMAIN images : Whole(images, C) =>
                  \A f \in DOMAIN images : f \in C <=> root[f] \in C

(* One more key of one image.                                              *)
LEMMA LinkJoins ==
    ASSUME NEW images, DOMAIN images \subseteq Files, NEW forest, NEW done,
           Joins(forest, images, done), NEW f \in DOMAIN images, NEW key \in Keys(images, f)
    PROVE  Joins(Link(forest, f, key), images, done \cup {<<f, key>>})
<1> DEFINE tokens == forest.tokens
           parents == forest.parents
           after == Link(forest, f, key)
<1>1. PICK root, depth :
           /\ Rooted(parents, root, depth)
           /\ \A x \in DOMAIN images : \A k \in Keys(images, x) : <<x, k>> \in done =>
                  k \in DOMAIN tokens /\ root[tokens[k]] = root[x]
           /\ \A C \in SUBSET DOMAIN images : Whole(images, C) =>
                  \A x \in DOMAIN images : x \in C <=> root[x] \in C
    BY DEF Joins
<1>2. /\ DOMAIN forest = {"parents", "tokens"}
      /\ \A k \in DOMAIN tokens : tokens[k] \in DOMAIN images /\ k \in Keys(images, tokens[k])
    BY DEF Joins
<1>3. CASE key \in DOMAIN tokens
  <2> DEFINE t == tokens[key]
             a == root[f]
             b == root[t]
             both == TreesMerged(root, a, b)
  <2>1. t \in DOMAIN images /\ key \in Keys(images, t) /\ f \in Files /\ t \in Files
      BY <1>2, <1>3
  <2>2. Root(parents, f) = a /\ Root(parents, t) = b
      BY <1>1, <2>1, FindEnds
  <2>3. after = [forest EXCEPT !.parents[a] = b]
      BY <1>3, <2>2 DEF Link
  <2>4. DOMAIN after = {"parents", "tokens"} /\ after.tokens = tokens
        /\ after.parents = [parents EXCEPT ![a] = b]
      BY <1>2, <2>3
  <2>5. PICK deeper : Rooted(after.parents, both, deeper)
      BY <1>1, <2>1, <2>4, LinkKeepsForest
  <2>6. root \in [Files -> Files] /\ \A x \in Files : both[x] = IF root[x] = a THEN b ELSE root[x]
      BY <1>1 DEF Rooted, TreesMerged
  <2> HIDE DEF after, both, t
  <2>7. ASSUME NEW x \in DOMAIN images, NEW k \in Keys(images, x), <<x, k>> \in done \cup {<<f, key>>}
        PROVE  k \in DOMAIN tokens /\ both[tokens[k]] = both[x]
    <3>1. CASE <<x, k>> \in done
      <4>1. k \in DOMAIN tokens /\ root[tokens[k]] = root[x] /\ x \in Files /\ tokens[k] \in Files
          BY <1>1, <1>2, <2>7, <3>1
      <4> QED BY <4>1, <2>6
    <3>2. CASE x = f /\ k = key
      <4>1. both[f] = b /\ both[t] = b
          BY <2>1, <2>6
      <4> QED BY <1>3, <3>2, <4>1 DEF t
    <3> QED BY <2>7, <3>1, <3>2
  <2>8. ASSUME NEW C \in SUBSET DOMAIN images, Whole(images, C), NEW x \in DOMAIN images
        PROVE  x \in C <=> both[x] \in C
    <3>1. \A y \in DOMAIN images : y \in C <=> root[y] \in C
        BY <1>1, <2>8
    <3>2. f \in C <=> t \in C
      <4>1. Shares(images, f, t) /\ Shares(images, t, f)
          BY <2>1 DEF Shares
      <4> QED BY <2>1, <2>8, <4>1 DEF Whole
    <3>3. a \in C <=> b \in C
        BY <2>1, <3>1, <3>2
    <3> QED BY <2>6, <3>1, <3>3
  <2> QED BY <1>2, <2>4, <2>5, <2>7, <2>8 DEF Joins, after
<1>4. CASE key \notin DOMAIN tokens
  <2> DEFINE more == [k \in DOMAIN tokens \cup {key} |-> IF k = key THEN f ELSE tokens[k]]
  <2>1. after = [forest EXCEPT !.tokens = more]
      BY <1>4 DEF Link
  <2>2. DOMAIN after = {"parents", "tokens"} /\ after.parents = parents /\ after.tokens = more
      BY <1>2, <2>1
  <2>3. DOMAIN more = DOMAIN tokens \cup {key} /\ more[key] = f
        /\ \A k \in DOMAIN tokens : more[k] = tokens[k]
      BY <1>4
  <2> HIDE DEF after, more
  <2>4. \A k \in DOMAIN more : more[k] \in DOMAIN images /\ k \in Keys(images, more[k])
      BY <1>2, <2>3
  <2>5. ASSUME NEW x \in DOMAIN images, NEW k \in Keys(images, x), <<x, k>> \in done \cup {<<f, key>>}
        PROVE  k \in DOMAIN more /\ root[more[k]] = root[x]
    <3>1. CASE <<x, k>> \in done
        BY <1>1, <2>3, <2>5, <3>1
    <3>2. CASE x = f /\ k = key
        BY <2>3, <3>2
    <3> QED BY <2>5, <3>1, <3>2
  <2> QED BY <1>1, <2>2, <2>4, <2>5 DEF Joins, after
<1> QED BY <1>3, <1>4

(* All keys of one image.                                                  *)
LEMMA ImageJoins ==
    ASSUME NEW images, DOMAIN images \subseteq Files, NEW forest, NEW done,
           Joins(forest, images, done), NEW f \in DOMAIN images
    PROVE  Joins(LinkImage(forest, images, f), images,
                 done \cup {<<f, key>> : key \in Keys(images, f)})
<1> DEFINE first == RgbKey(images, f)
           second == IdentityKey(f)
           all == done \cup {<<f, key>> : key \in Keys(images, f)}
<1>1. first \in Keys(images, f)
    BY DEF Keys
<1>2. Joins(Link(forest, f, first), images, done \cup {<<f, first>>})
    BY <1>1, LinkJoins
<1>3. CASE rows = NoRows
  <2>1. LinkImage(forest, images, f) = Link(forest, f, first)
      BY <1>3 DEF LinkImage
  <2>2. Keys(images, f) = {first}
      BY <1>3 DEF Keys
  <2> HIDE DEF first
  <2>3. all = done \cup {<<f, first>>}
      BY <2>2
  <2> QED BY <1>2, <2>1, <2>3
<1>4. CASE rows # NoRows
  <2>1. LinkImage(forest, images, f) = Link(Link(forest, f, first), f, second)
      BY <1>4 DEF LinkImage
  <2>2. Keys(images, f) = {first, second}
      BY <1>4 DEF Keys
  <2> HIDE DEF first, second
  <2>3. Joins(Link(Link(forest, f, first), f, second), images,
              (done \cup {<<f, first>>}) \cup {<<f, second>>})
    <3>1. second \in Keys(images, f)
        BY <2>2
    <3> QED BY <1>2, <3>1, LinkJoins
  <2>4. all = (done \cup {<<f, first>>}) \cup {<<f, second>>}
      BY <2>2
  <2> QED BY <2>1, <2>3, <2>4
<1> QED BY <1>3, <1>4

(* The forest after each file.                                             *)
NoLinks == [parents |-> [g \in Files |-> g], tokens |-> <<>>]
Grown(images) ==
    CHOOSE after : after = [f \in 0..LastFile |->
        IF f = 0 THEN NoLinks
        ELSE IF f \in DOMAIN images THEN LinkImage(after[f - 1], images, f) ELSE after[f - 1]]
LEMMA ForestGrows ==
    ASSUME NEW images
    PROVE  /\ Forest(images) = Grown(images)[LastFile]
           /\ Grown(images)[0] = NoLinks
           /\ \A f \in 1..LastFile : Grown(images)[f] =
                  IF f \in DOMAIN images THEN LinkImage(Grown(images)[f - 1], images, f)
                  ELSE Grown(images)[f - 1]
<1> DEFINE Next1(x, f) == IF f \in DOMAIN images THEN LinkImage(x, images, f) ELSE x
           Follows(after, m) == after = [n \in 0..m |-> IF n = 0 THEN NoLinks ELSE Next1(after[n - 1], n)]
           F == {m \in Nat : ~ \E after : Follows(after, m)}
<1>0. Forest(images) = Grown(images)[LastFile] /\
      Grown(images) = CHOOSE after : Follows(after, LastFile)
    BY Zenon DEF Forest, Grown, LastFile, NoLinks
<1> HIDE DEF Next1
<1>1. F = {}
  <2> SUFFICES ASSUME F # {} PROVE FALSE
      OBVIOUS
  <2>1. PICK m \in F : \A k \in F : m <= k
    <3>1. F \in SUBSET Nat
        OBVIOUS
    <3> HIDE DEF F
    <3> QED BY <3>1, Smallest
  <2>2. m # 0
    <3>1. Follows([n \in 0..0 |-> NoLinks], 0)
        OBVIOUS
    <3> QED BY <3>1
  <2>3. m \in Nat /\ m - 1 \in Nat /\ m - 1 \notin F
    <3>1. m \in Nat
        OBVIOUS
    <3> HIDE DEF F
    <3> QED BY <3>1, <2>1, <2>2
  <2>4. PICK at : Follows(at, m - 1)
      BY <2>3
  <2> DEFINE g == [n \in 0..m |-> IF n = 0 THEN NoLinks ELSE Next1(at[n - 1], n)]
  <2>5. \A n \in 0..(m - 1) : g[n] = at[n]
      BY <2>1, <2>3, <2>4
  <2>6. \A n \in 0..m : g[n] = IF n = 0 THEN NoLinks ELSE Next1(g[n - 1], n)
    <3>1. g[0] = NoLinks
        BY <2>3
    <3>2. ASSUME NEW n \in 1..m
          PROVE  n \in 0..m /\ n - 1 \in 0..(m - 1) /\ g[n] = Next1(at[n - 1], n)
        BY <2>3
    <3> HIDE DEF g
    <3> QED BY <3>1, <3>2, <2>3, <2>5
  <2>7. g = [n \in 0..m |-> g[n]]
      OBVIOUS
  <2> HIDE DEF g
  <2>8. Follows(g, m)
      BY <2>6, <2>7
  <2> QED BY <2>1, <2>8
<1>2. \E after : Follows(after, LastFile)
    BY <1>1, FileNumbers
<1>3. Follows(Grown(images), LastFile)
    BY <1>0, <1>2
<1> DEFINE a == Grown(images)
<1>5. a = [n \in 0..LastFile |-> IF n = 0 THEN NoLinks ELSE Next1(a[n - 1], n)]
    BY <1>3
<1> HIDE DEF a
<1>6. a[0] = NoLinks /\ \A n \in 1..LastFile : a[n] = Next1(a[n - 1], n)
    BY <1>5, FileNumbers
<1> QED BY <1>0, <1>6 DEF a, Next1

(* The finished forest: two images that share a key are in one tree, and   *)
(* a set that shared keys do not lead out of has whole trees only.         *)
Pairs(images, n) == {pair \in (DOMAIN images) \X UNION {Keys(images, f) : f \in DOMAIN images} :
                         pair[1] <= n /\ pair[2] \in Keys(images, pair[1])}
LEMMA TreesJoin ==
    ASSUME NEW images, DOMAIN images \subseteq Files
    PROVE  \E root \in [Files -> Files] :
               /\ \A f \in Files : Root(Forest(images).parents, f) = root[f]
               /\ \A f, g \in DOMAIN images : Shares(images, f, g) => root[f] = root[g]
               /\ \A C \in SUBSET DOMAIN images : Whole(images, C) =>
                      \A f \in DOMAIN images : f \in C <=> root[f] \in C
<1> DEFINE grown == Grown(images)
           F == {n \in 0..LastFile : ~ Joins(grown[n], images, Pairs(images, n))}
<1>1. /\ Forest(images) = grown[LastFile] /\ grown[0] = NoLinks
      /\ \A f \in 1..LastFile : grown[f] = IF f \in DOMAIN images THEN LinkImage(grown[f - 1], images, f)
                                        ELSE grown[f - 1]
    BY ForestGrows
<1> HIDE DEF grown
<1>2. \A f \in DOMAIN images : f \in 1..LastFile
    BY FileNumbers
<1>3. \A n \in 0..LastFile : \A f \in DOMAIN images : \A key \in Keys(images, f) :
          <<f, key>> \in Pairs(images, n) <=> f <= n
    BY DEF Pairs
<1>4. F = {}
  <2> SUFFICES ASSUME F # {} PROVE FALSE
      OBVIOUS
  <2>1. PICK n \in F : \A k \in F : n <= k
    <3>1. F \in SUBSET Nat
        BY FileNumbers
    <3> HIDE DEF F
    <3> QED BY <3>1, Smallest
  <2>2. n # 0
    <3> DEFINE own == [g \in Files |-> g]
               none == [g \in Files |-> 0]
    <3>1. Inner(own) = {} /\ Cardinality(Inner(own)) = 0
        BY FS_EmptySet DEF Inner
    <3>2. Rooted(own, own, none)
        BY <3>1 DEF Rooted
    <3>3. DOMAIN NoLinks = {"parents", "tokens"} /\ NoLinks.parents = own
          /\ NoLinks.tokens = <<>> /\ DOMAIN NoLinks.tokens = {}
        BY DEF NoLinks
    <3>4. \A f \in DOMAIN images : own[f] = f
        OBVIOUS
    <3>5. \A f \in DOMAIN images : \A key \in Keys(images, f) : ~ (<<f, key>> \in Pairs(images, 0))
      <4>1. \A f \in DOMAIN images : ~ (f <= 0)
          BY <1>2, FileNumbers
      <4> QED BY <4>1 DEF Pairs
    <3> HIDE DEF own, none
    <3>6. Joins(NoLinks, images, Pairs(images, 0))
        BY <3>2, <3>3, <3>4, <3>5 DEF Joins
    <3> QED BY <1>1, <3>6
  <2>3. n \in 1..LastFile /\ n - 1 \in 0..LastFile /\ n - 1 \notin F
    <3>1. n \in 0..LastFile
        OBVIOUS
    <3> HIDE DEF F
    <3> QED BY <3>1, <2>1, <2>2, FileNumbers
  <2>4. Joins(grown[n - 1], images, Pairs(images, n - 1))
      BY <2>3
  <2>5. CASE n \in DOMAIN images
    <3>1. grown[n] = LinkImage(grown[n - 1], images, n)
        BY <1>1, <2>3, <2>5
    <3> DEFINE more == Pairs(images, n - 1) \cup {<<n, key>> : key \in Keys(images, n)}
    <3>2. Joins(grown[n], images, more)
      <4>1. Joins(LinkImage(grown[n - 1], images, n), images,
                  Pairs(images, n - 1) \cup {<<n, key>> : key \in Keys(images, n)})
          BY <2>4, <2>5, ImageJoins
      <4> QED BY <3>1, <4>1, Zenon
    <3>3. \A f \in DOMAIN images : \A key \in Keys(images, f) :
              <<f, key>> \in Pairs(images, n) => <<f, key>> \in more
      <4>1. ASSUME NEW f \in DOMAIN images, NEW key \in Keys(images, f), f <= n
            PROVE  f <= n - 1 \/ f = n
          BY <4>1, <1>2, <2>3, FileNumbers
      <4> QED BY <1>3, <2>3, <4>1
    <3> HIDE DEF more
    <3>4. Joins(grown[n], images, Pairs(images, n))
        BY <3>2, <3>3 DEF Joins
    <3> QED BY <3>4
  <2>6. CASE n \notin DOMAIN images
    <3>1. grown[n] = grown[n - 1]
        BY <1>1, <2>3, <2>6
    <3>2. \A f \in DOMAIN images : \A key \in Keys(images, f) :
              <<f, key>> \in Pairs(images, n) => <<f, key>> \in Pairs(images, n - 1)
      <4>1. ASSUME NEW f \in DOMAIN images, f <= n
            PROVE  f <= n - 1
          BY <4>1, <1>2, <2>3, <2>6, FileNumbers
      <4> QED BY <1>3, <2>3, <4>1
    <3>3. Joins(grown[n], images, Pairs(images, n))
        BY <2>4, <3>1, <3>2 DEF Joins
    <3> QED BY <3>3
  <2> QED BY <2>5, <2>6
<1>5. Joins(grown[LastFile], images, Pairs(images, LastFile))
    BY <1>4, FileNumbers
<1>6. PICK root, depth :
          /\ Rooted(grown[LastFile].parents, root, depth)
          /\ \A f \in DOMAIN images : \A key \in Keys(images, f) : <<f, key>> \in Pairs(images, LastFile) =>
                 key \in DOMAIN grown[LastFile].tokens /\ root[grown[LastFile].tokens[key]] = root[f]
          /\ \A C \in SUBSET DOMAIN images : Whole(images, C) =>
                 \A f \in DOMAIN images : f \in C <=> root[f] \in C
    BY <1>5 DEF Joins
<1>7. root \in [Files -> Files] /\ \A f \in Files : Root(Forest(images).parents, f) = root[f]
  <2>1. ASSUME NEW f \in Files PROVE Root(grown[LastFile].parents, f) = root[f]
      BY <1>6, FindEnds
  <2> QED BY <1>1, <1>6, <2>1 DEF Rooted
<1>8. ASSUME NEW f \in DOMAIN images, NEW g \in DOMAIN images, Shares(images, f, g)
      PROVE  root[f] = root[g]
  <2>1. PICK key : key \in Keys(images, f) /\ key \in Keys(images, g)
      BY <1>8 DEF Shares
  <2>2. <<f, key>> \in Pairs(images, LastFile) /\ <<g, key>> \in Pairs(images, LastFile)
    <3>1. LastFile \in 0..LastFile /\ f <= LastFile /\ g <= LastFile
        BY <1>2, FileNumbers
    <3> QED BY <1>3, <2>1, <3>1
  <2> QED BY <1>6, <2>1, <2>2
<1> QED BY <1>6, <1>7, <1>8

(* Two images are linked when they share a key.                            *)
LEMMA LinkedShare ==
    ASSUME NEW images, NEW f, NEW g
    PROVE  Linked(images, f, g) <=> Shares(images, f, g)
<1>1. RgbKey(images, f) # IdentityKey(g) /\ IdentityKey(f) # RgbKey(images, g)
    BY DEF RgbKey, IdentityKey
<1>2. RgbKey(images, f) = RgbKey(images, g) <=> images[f] = images[g]
    BY DEF RgbKey
<1>3. IdentityKey(f) = IdentityKey(g) <=> rows[f].identity = rows[g].identity
    BY DEF IdentityKey
<1> QED BY <1>1, <1>2, <1>3 DEF Linked, Shares, Keys

(* The images that n links reach: each set follows from the one before.    *)
Spread(images, S) == {h \in DOMAIN images : \E g \in S : Linked(images, g, h)}
Reached(images, f) ==
    CHOOSE reach : reach = [n \in 0..LastFile |-> IF n = 0 THEN {f} ELSE Spread(images, reach[n - 1])]
LEMMA ReachFollows ==
    ASSUME NEW images, NEW f
    PROVE  /\ Connected(images, f) = Reached(images, f)[LastFile]
           /\ Reached(images, f)[0] = {f}
           /\ \A n \in 1..LastFile : Reached(images, f)[n] = Spread(images, Reached(images, f)[n - 1])
<1> DEFINE start == {f}
           Wider(x) == Spread(images, x)
           Follows(reach, m) == reach = [n \in 0..m |-> IF n = 0 THEN start ELSE Wider(reach[n - 1])]
           F == {m \in Nat : ~ \E reach : Follows(reach, m)}
<1>0. Connected(images, f) = Reached(images, f)[LastFile]
      /\ Reached(images, f) = CHOOSE reach : Follows(reach, LastFile)
    BY Zenon DEF Connected, Reached, Spread, LastFile
<1> HIDE DEF Wider, start
<1>1. F = {}
  <2> SUFFICES ASSUME F # {} PROVE FALSE
      OBVIOUS
  <2>1. PICK m \in F : \A k \in F : m <= k
    <3>1. F \in SUBSET Nat
        OBVIOUS
    <3> HIDE DEF F
    <3> QED BY <3>1, Smallest
  <2>2. m # 0
    <3>1. Follows([n \in 0..0 |-> start], 0)
        OBVIOUS
    <3> QED BY <3>1
  <2>3. m \in Nat /\ m - 1 \in Nat /\ m - 1 \notin F
    <3>1. m \in Nat
        OBVIOUS
    <3> HIDE DEF F
    <3> QED BY <3>1, <2>1, <2>2
  <2>4. PICK at : Follows(at, m - 1)
      BY <2>3
  <2> DEFINE g == [n \in 0..m |-> IF n = 0 THEN start ELSE Wider(at[n - 1])]
  <2>5. \A n \in 0..(m - 1) : g[n] = at[n]
      BY <2>1, <2>3, <2>4
  <2>6. \A n \in 0..m : g[n] = IF n = 0 THEN start ELSE Wider(g[n - 1])
    <3>1. g[0] = start
        BY <2>3
    <3>2. ASSUME NEW n \in 1..m
          PROVE  n \in 0..m /\ n - 1 \in 0..(m - 1) /\ g[n] = Wider(at[n - 1])
        BY <2>3
    <3> HIDE DEF g
    <3> QED BY <3>1, <3>2, <2>3, <2>5
  <2>7. g = [n \in 0..m |-> g[n]]
      OBVIOUS
  <2> HIDE DEF g
  <2>8. Follows(g, m)
      BY <2>6, <2>7
  <2> QED BY <2>1, <2>8
<1>2. \E reach : Follows(reach, LastFile)
    BY <1>1, FileNumbers
<1>3. Follows(Reached(images, f), LastFile)
    BY <1>0, <1>2
<1> DEFINE a == Reached(images, f)
<1>4. a = [n \in 0..LastFile |-> IF n = 0 THEN start ELSE Wider(a[n - 1])]
    BY <1>3
<1> HIDE DEF a
<1>5. a[0] = start /\ \A n \in 1..LastFile : a[n] = Wider(a[n - 1])
    BY <1>4, FileNumbers
<1> QED BY <1>0, <1>5 DEF a, Wider, start

(* The chains of links from an image reach the smallest set of images that *)
(* holds it and that no shared key leads out of: as long as a key does,    *)
(* each link adds an image, and there are only so many.                    *)
Closure(images, f, C) ==
    /\ C \subseteq DOMAIN images /\ f \in C /\ Whole(images, C)
    /\ \A D \in SUBSET DOMAIN images : f \in D /\ Whole(images, D) => C \subseteq D
LEMMA ChainsConnect ==
    ASSUME NEW images, DOMAIN images \subseteq Files, NEW f \in DOMAIN images
    PROVE  Closure(images, f, Connected(images, f))
<1> DEFINE reach == Reached(images, f)
           Far(n) == /\ reach[n] \subseteq DOMAIN images /\ f \in reach[n]
                     /\ \A D \in SUBSET DOMAIN images : f \in D /\ Whole(images, D) => reach[n] \subseteq D
                     /\ Whole(images, reach[n]) \/ Cardinality(reach[n]) >= n + 1
           F == {n \in 0..LastFile : ~ Far(n)}
<1>1. /\ Connected(images, f) = reach[LastFile] /\ reach[0] = {f}
      /\ \A n \in 1..LastFile : reach[n] = Spread(images, reach[n - 1])
    BY ReachFollows
<1> HIDE DEF reach
<1>2. \A S : Spread(images, S) = {h \in DOMAIN images : \E g \in S : Shares(images, g, h)}
    BY LinkedShare, Zenon DEF Spread
<1>3. \A g : Shares(images, g, g)
    BY DEF Shares, Keys
<1>4. IsFiniteSet(DOMAIN images) /\ Cardinality(DOMAIN images) <= LastFile
    BY PreparationAssumption, FS_Subset DEF LastFile
<1>5. F = {}
  <2> SUFFICES ASSUME F # {} PROVE FALSE
      OBVIOUS
  <2>1. PICK n \in F : \A k \in F : n <= k
    <3>1. F \in SUBSET Nat
        BY FileNumbers
    <3> HIDE DEF F
    <3> QED BY <3>1, Smallest
  <2>2. n # 0
    <3>1. Cardinality({f}) = 1
        BY FS_Singleton
    <3>2. Far(0)
        BY <1>1, <3>1
    <3> QED BY <3>2
  <2>3. n \in 1..LastFile /\ n - 1 \in 0..LastFile /\ n - 1 \notin F
    <3>1. n \in 0..LastFile
        OBVIOUS
    <3> HIDE DEF F
    <3> QED BY <3>1, <2>1, <2>2, FileNumbers
  <2>4. Far(n - 1)
      BY <2>3
  <2> DEFINE S == reach[n - 1]
             T == reach[n]
  <2>5. T = {h \in DOMAIN images : \E g \in S : Shares(images, g, h)}
      BY <1>1, <1>2, <2>3
  <2>6. /\ S \subseteq DOMAIN images /\ f \in S
        /\ \A D \in SUBSET DOMAIN images : f \in D /\ Whole(images, D) => S \subseteq D
        /\ Whole(images, S) \/ Cardinality(S) >= n
      BY <2>3, <2>4, FileNumbers
  <2> HIDE DEF S, T, F, Far
  <2>7. S \subseteq T /\ T \subseteq DOMAIN images /\ f \in T
      BY <1>3, <2>5, <2>6
  <2>8. ASSUME NEW D \in SUBSET DOMAIN images, f \in D, Whole(images, D) PROVE T \subseteq D
      BY <2>5, <2>6, <2>8 DEF Whole
  <2>9. Whole(images, T) \/ Cardinality(T) >= n + 1
    <3>1. CASE Whole(images, S)
      <4>1. T = S
          BY <2>5, <2>6, <2>7, <3>1 DEF Whole
      <4> QED BY <3>1, <4>1
    <3>2. CASE ~ Whole(images, S)
      <4>1. PICK h : h \in T /\ h \notin S
          BY <2>5, <3>2 DEF Whole
      <4>2. IsFiniteSet(S) /\ IsFiniteSet(T)
          BY <1>4, <2>6, <2>7, FS_Subset
      <4>3. Cardinality(S \cup {h}) = Cardinality(S) + 1
          BY <4>1, <4>2, FS_AddElement
      <4>4. Cardinality(S \cup {h}) <= Cardinality(T)
        <5>1. S \cup {h} \subseteq T
            BY <2>7, <4>1
        <5> QED BY <4>2, <5>1, FS_Subset
      <4>5. Cardinality(S) \in Nat /\ Cardinality(T) \in Nat /\ Cardinality(S \cup {h}) \in Nat
        <5>1. IsFiniteSet(S \cup {h})
            BY <4>2, FS_AddElement
        <5> QED BY <4>2, <5>1, FS_CardinalityType
      <4> QED BY <2>3, <2>6, <3>2, <4>3, <4>4, <4>5, FileNumbers
    <3> QED BY <3>1, <3>2
  <2>10. Far(n)
      BY <2>7, <2>8, <2>9 DEF Far, T
  <2> QED BY <2>10 DEF F
<1>6. Far(LastFile)
    BY <1>5, FileNumbers
<1>7. Whole(images, reach[LastFile])
  <2>1. IsFiniteSet(reach[LastFile]) /\ Cardinality(reach[LastFile]) <= Cardinality(DOMAIN images)
      BY <1>4, <1>6, FS_Subset
  <2>2. Cardinality(reach[LastFile]) \in Nat /\ Cardinality(DOMAIN images) \in Nat
      BY <1>4, <2>1, FS_CardinalityType
  <2> QED BY <1>4, <1>6, <2>1, <2>2, FileNumbers
<1> QED BY <1>1, <1>6, <1>7 DEF Closure

(* The groups are what the chains connect.                                 *)
LEMMA GroupsAreChains ==
    ASSUME NEW images, DOMAIN images \subseteq Files
    PROVE  /\ Groups(images) = {Connected(images, f) : f \in DOMAIN images}
           /\ \A f, g \in DOMAIN images :
                  g \in Connected(images, f) <=> Connected(images, g) = Connected(images, f)
<1> DEFINE linked(f) == Connected(images, f)
<1>1. PICK root \in [Files -> Files] :
           /\ \A f \in Files : Root(Forest(images).parents, f) = root[f]
           /\ \A f, g \in DOMAIN images : Shares(images, f, g) => root[f] = root[g]
           /\ \A C \in SUBSET DOMAIN images : Whole(images, C) =>
                  \A f \in DOMAIN images : f \in C <=> root[f] \in C
    BY TreesJoin
<1>2. \A f \in DOMAIN images : Closure(images, f, linked(f))
    BY ChainsConnect
<1> HIDE DEF linked
<1>3. \A f \in DOMAIN images : linked(f) = {x \in DOMAIN images : root[x] = root[f]}
  <2> SUFFICES ASSUME NEW f \in DOMAIN images
               PROVE  linked(f) = {x \in DOMAIN images : root[x] = root[f]}
      OBVIOUS
  <2> DEFINE tree == {x \in DOMAIN images : root[x] = root[f]}
  <2>1. Whole(images, tree) /\ f \in tree /\ tree \in SUBSET DOMAIN images
      BY <1>1 DEF Whole
  <2>2. linked(f) \subseteq tree
      BY <1>2, <2>1 DEF Closure
  <2>3. linked(f) \in SUBSET DOMAIN images /\ Whole(images, linked(f)) /\ f \in linked(f)
      BY <1>2 DEF Closure
  <2>4. tree \subseteq linked(f)
      BY <1>1, <2>3
  <2> QED BY <2>2, <2>4
<1>4. Groups(images) = {{x \in DOMAIN images : root[x] = r} : r \in {root[f] : f \in DOMAIN images}}
    BY <1>1 DEF Groups
<1>5. Groups(images) = {linked(f) : f \in DOMAIN images}
  <2>1. ASSUME NEW group \in Groups(images) PROVE \E f \in DOMAIN images : group = linked(f)
    <3>1. PICK f \in DOMAIN images : group = {x \in DOMAIN images : root[x] = root[f]}
        BY <1>4
    <3> QED BY <1>3, <3>1
  <2>2. ASSUME NEW f \in DOMAIN images PROVE linked(f) \in Groups(images)
    <3>1. {x \in DOMAIN images : root[x] = root[f]} \in Groups(images)
        BY <1>4
    <3> QED BY <1>3, <3>1
  <2> QED BY <2>1, <2>2
<1>6. \A f, g \in DOMAIN images : g \in linked(f) <=> linked(g) = linked(f)
    BY <1>3
<1> QED BY <1>5, <1>6 DEF linked

(* One group, one split, and the declared one if there is any.             *)
LEMMA AssignKeepsGroups ==
    ASSUME NEW images, DOMAIN images \subseteq Files, NEW mapping, ~ Conflict(images, mapping),
           NEW f \in DOMAIN images, NEW g \in DOMAIN images
    PROVE  /\ Assign(images, mapping)[f].group = Assign(images, mapping)[g].group
                  <=> g \in Connected(images, f)
           /\ g \in Connected(images, f) =>
                  Assign(images, mapping)[f].split = Assign(images, mapping)[g].split
           /\ rows # NoRows => Assign(images, mapping)[f].split = mapping[rows[f].label]
<1> DEFINE linked(x) == Connected(images, x)
           GroupOf(x) == CHOOSE group \in Groups(images) : x \in group
           Split(group) ==
               LET declared == DeclaredSplits(mapping, group) IN
               IF declared = {} THEN Generated(GroupId(images, group))
                                ELSE CHOOSE split \in declared : TRUE
<1>1. /\ Groups(images) = {linked(x) : x \in DOMAIN images}
      /\ \A x, y \in DOMAIN images : y \in linked(x) <=> linked(y) = linked(x)
    BY GroupsAreChains
<1>2. \A x \in DOMAIN images : Closure(images, x, linked(x))
    BY ChainsConnect
<1>3. \A x \in DOMAIN images :
          /\ Assign(images, mapping)[x].group = GroupId(images, GroupOf(x))
          /\ Assign(images, mapping)[x].split = Split(GroupOf(x))
    BY Zenon DEF Assign
<1> HIDE DEF linked
<1>4. \A x \in DOMAIN images : GroupOf(x) = linked(x)
  <2> SUFFICES ASSUME NEW x \in DOMAIN images PROVE GroupOf(x) = linked(x)
      OBVIOUS
  <2>1. linked(x) \in Groups(images) /\ x \in linked(x)
      BY <1>1, <1>2 DEF Closure
  <2>2. \A group \in Groups(images) : x \in group => group = linked(x)
      BY <1>1
  <2> QED BY <2>1, <2>2
<1> HIDE DEF GroupOf, Split
<1>5. \A x \in DOMAIN images :
          /\ Assign(images, mapping)[x].group = GroupId(images, linked(x))
          /\ Assign(images, mapping)[x].split = Split(linked(x))
    BY <1>3, <1>4
<1>6. GroupId(images, linked(f)) = GroupId(images, linked(g)) => g \in linked(f)
  <2> SUFFICES ASSUME GroupId(images, linked(f)) = GroupId(images, linked(g))
               PROVE  g \in linked(f)
      OBVIOUS
  <2>1. g \in linked(g)
      BY <1>2 DEF Closure
  <2>2. RgbKey(images, g) \in GroupId(images, linked(g))
      BY <2>1 DEF GroupId, Keys
  <2>3. PICK x \in linked(f) : RgbKey(images, g) \in Keys(images, x)
      BY <2>2 DEF GroupId
  <2>4. Shares(images, x, g)
      BY <2>3 DEF Shares, Keys
  <2> QED BY <1>2, <2>4 DEF Closure, Whole
<1>7. rows # NoRows => Split(linked(f)) = mapping[rows[f].label]
  <2> SUFFICES ASSUME rows # NoRows PROVE Split(linked(f)) = mapping[rows[f].label]
      OBVIOUS
  <2> DEFINE split == [x \in linked(f) |-> mapping[rows[x].label]]
             declared == {mapping[rows[x].label] : x \in linked(f)}
  <2>1. DeclaredSplits(mapping, linked(f)) = declared
      BY DEF DeclaredSplits
  <2>2. f \in linked(f) /\ linked(f) \subseteq DOMAIN images /\ linked(f) \in Groups(images)
      BY <1>1, <1>2 DEF Closure
  <2>3. mapping[rows[f].label] \in declared
      BY <2>2
  <2>4. IsFiniteSet(declared)
    <3>1. IsFiniteSet(linked(f))
        BY <2>2, PreparationAssumption, FS_Subset
    <3>2. split \in Surjection(linked(f), declared)
        BY DEF Surjection
    <3> QED BY <3>1, <3>2, FS_Surjection
  <2>5. Cardinality(declared) \in Nat /\ ~ (Cardinality(declared) > 1)
      BY <2>1, <2>2, <2>4, FS_CardinalityType DEF Conflict
  <2>6. ASSUME NEW a \in declared, NEW b \in declared PROVE a = b
    <3>1. SUFFICES ASSUME a # b PROVE FALSE
        OBVIOUS
    <3>2. IsFiniteSet({a, b}) /\ Cardinality({a, b}) = 2
      <4>1. IsFiniteSet({a}) /\ Cardinality({a}) = 1
          BY FS_Singleton
      <4>2. {a, b} = {a} \cup {b} /\ b \notin {a}
          BY <3>1
      <4>3. Cardinality({a} \cup {b}) = Cardinality({a}) + 1 /\ IsFiniteSet({a} \cup {b})
          BY <4>1, <4>2, FS_AddElement
      <4> QED BY <4>1, <4>2, <4>3
    <3>3. Cardinality({a, b}) <= Cardinality(declared)
      <4>1. {a, b} \subseteq declared
          OBVIOUS
      <4> HIDE DEF declared
      <4> QED BY <2>4, <4>1, FS_Subset
    <3> QED BY <2>5, <3>2, <3>3
  <2> HIDE DEF declared
  <2>7. (CHOOSE s \in declared : TRUE) = mapping[rows[f].label] /\ declared # {}
      BY <2>3, <2>6
  <2>8. Split(linked(f)) = IF declared = {} THEN Generated(GroupId(images, linked(f)))
                           ELSE CHOOSE s \in declared : TRUE
      BY <2>1 DEF Split
  <2> QED BY <2>7, <2>8
<1>8. g \in linked(f) <=> linked(g) = linked(f)
    BY <1>1
<1> QED BY <1>5, <1>6, <1>7, <1>8 DEF linked

(* What the chains connect does not change while the metadata stays.       *)
ChainsAreClosed ==
    \A images, f : DOMAIN images \subseteq Files /\ f \in DOMAIN images =>
                       Closure(images, f, Connected(images, f))
LEMMA ChainsAlwaysClosed == ChainsAreClosed
BY ChainsConnect DEF ChainsAreClosed

LEMMA ChainsStay ==
    ASSUME rows' = rows, NEW images, DOMAIN images \subseteq Files, NEW f \in DOMAIN images
    PROVE  Connected(images, f)' = Connected(images, f)
<1>1. ChainsAreClosed /\ ChainsAreClosed'
    BY ChainsAlwaysClosed, PTL
<1>2. Closure(images, f, Connected(images, f)) /\ Closure(images, f, Connected(images, f))'
    BY <1>1 DEF ChainsAreClosed
<1>3. \A g : Keys(images, g)' = Keys(images, g)
    BY DEF Keys, RgbKey, IdentityKey
<1>4. \A C : Whole(images, C)' <=> Whole(images, C)
  <2>1. \A g, h : Shares(images, g, h)' <=> Shares(images, g, h)
    <3> SUFFICES ASSUME NEW g, NEW h PROVE Shares(images, g, h)' <=> Shares(images, g, h)
        OBVIOUS
    <3>1. Keys(images, g)' = Keys(images, g) /\ Keys(images, h)' = Keys(images, h)
        BY <1>3
    <3> QED BY <3>1 DEF Shares
  <2> QED BY <2>1 DEF Whole
<1> QED BY <1>2, <1>4 DEF Closure

(* A revision without leaks, and an import that follows the scan.          *)
KeepsApart(revision) ==
    /\ \A f, g \in DOMAIN revision.images :
           /\ (revision.records[f].group = revision.records[g].group)
                  <=> g \in Connected(revision.images, f)
           /\ g \in Connected(revision.images, f) =>
                  revision.records[f].split = revision.records[g].split
    /\ \A f \in DOMAIN revision.images :
           /\ rows # NoRows => revision.records[f].split = revision.mapping[rows[f].label]
           /\ revision.images[f] = revision.seen[f].content
    /\ DOMAIN revision.images = {f \in Files : Decodes(revision.seen[f].content)}
ImportFollowsScan ==
    /\ DOMAIN run = {"pc", "mapping", "seen", "images"}
    /\ DOMAIN run.images \subseteq Files
    /\ \A f \in DOMAIN run.images :
           run.images[f] = run.seen[f].content /\ Decodes(run.seen[f].content)
PreparationInv == SplitsDoNotLeak /\ ImportFollowsScan

(* A published revision stays without leaks.                               *)
LEMMA ApartStays ==
    ASSUME rows' = rows, NEW revision, KeepsApart(revision)
    PROVE  KeepsApart(revision)'
<1> DEFINE images == revision.images
<1>1. DOMAIN images = {f \in Files : Decodes(revision.seen[f].content)}
    BY DEF KeepsApart
<1>2. \A f \in DOMAIN images : Connected(images, f)' = Connected(images, f)
  <2> DEFINE i == images
  <2>1. DOMAIN images \subseteq Files
      BY <1>1
  <2> QED BY <2>1, ChainsStay
<1> QED BY <1>2 DEF KeepsApart, Decodes, NoRows

(* Every step keeps the invariant.                                         *)
LEMMA PreparationKeepsInv == PreparationInv /\ [PreparationNext]_preparationVars => PreparationInv'
<1> SUFFICES ASSUME PreparationInv, [PreparationNext]_preparationVars
             PROVE  PreparationInv'
    OBVIOUS
<1>0. SplitsDoNotLeak /\ ImportFollowsScan
    BY DEF PreparationInv
<1>1. /\ DOMAIN run = {"pc", "mapping", "seen", "images"}
      /\ DOMAIN run.images \subseteq Files
      /\ \A f \in DOMAIN run.images :
             run.images[f] = run.seen[f].content /\ Decodes(run.seen[f].content)
    BY <1>0 DEF ImportFollowsScan
<1>2. \A revision \in revisions : KeepsApart(revision)
    BY <1>0, Zenon DEF SplitsDoNotLeak, KeepsApart
<1>3. rows' = rows
    BY DEF PreparationNext, InventoryDataset, ReuseRevision, PublishRevision, PreparationFails,
           ImportImage, EditSource, preparationVars
<1>4. ASSUME revisions' = revisions PROVE SplitsDoNotLeak'
  <2>1. ASSUME NEW revision \in revisions' PROVE KeepsApart(revision)'
      BY <1>2, <1>3, <1>4, <2>1, ApartStays
  <2> QED BY <2>1, Zenon DEF SplitsDoNotLeak, KeepsApart
<1>5. ASSUME run' = NoImport PROVE ImportFollowsScan'
    BY <1>5 DEF ImportFollowsScan, NoImport
<1>6. ASSUME NEW mapping \in Mappings, InventoryDataset(mapping) PROVE PreparationInv'
  <2>1. revisions' = revisions /\ run' = [pc |-> "reuse", mapping |-> mapping, seen |-> source, images |-> <<>>]
      BY <1>6 DEF InventoryDataset
  <2>2. ImportFollowsScan'
      BY <2>1 DEF ImportFollowsScan
  <2> QED BY <1>4, <2>1, <2>2 DEF PreparationInv
<1>7. CASE ReuseRevision
  <2>1. revisions' = revisions /\ (run' = NoImport \/ run' = [run EXCEPT !.pc = "import"])
      BY <1>7 DEF ReuseRevision
  <2>2. ASSUME run' = [run EXCEPT !.pc = "import"] PROVE ImportFollowsScan'
    <3>1. DOMAIN run' = DOMAIN run /\ run'.images = run.images /\ run'.seen = run.seen
        BY <1>1, <2>2
    <3> QED BY <1>1, <3>1 DEF ImportFollowsScan, Decodes
  <2> QED BY <1>4, <1>5, <2>1, <2>2 DEF PreparationInv
<1>8. ASSUME NEW f \in Files, ImportImage(f) PROVE PreparationInv'
  <2> DEFINE content == run.seen[f].content
             more == [g \in DOMAIN run.images \cup {f} |-> IF g = f THEN content ELSE run.images[g]]
  <2>1. revisions' = revisions /\ Decodes(content) /\ run' = [run EXCEPT !.images = more]
      BY <1>8 DEF ImportImage
  <2>2. DOMAIN more = DOMAIN run.images \cup {f}
        /\ \A g \in DOMAIN more : more[g] = IF g = f THEN content ELSE run.images[g]
      OBVIOUS
  <2> HIDE DEF more
  <2>3. DOMAIN run' = DOMAIN run /\ run'.images = more /\ run'.seen = run.seen
      BY <1>1, <2>1
  <2>4. ImportFollowsScan'
      BY <1>1, <2>1, <2>2, <2>3 DEF ImportFollowsScan, Decodes
  <2> QED BY <1>4, <2>1, <2>4 DEF PreparationInv
<1>9. CASE PublishRevision
  <2> DEFINE images == run.images
             mapping == EffectiveMapping(run.mapping)
             revision == Revision(images, mapping)
  <2>1. /\ \A f \in Files \ DOMAIN images : ~ Decodes(run.seen[f].content)
        /\ Groupable(images, mapping) /\ revisions' = revisions \cup {revision} /\ run' = NoImport
      BY <1>9, Zenon DEF PublishRevision
  <2>2. /\ revision.images = images /\ revision.mapping = mapping /\ revision.seen = run.seen
        /\ revision.records = Assign(images, mapping)
      BY DEF Revision
  <2>3. DOMAIN images \subseteq Files /\ ~ Conflict(images, mapping)
      BY <1>1, <2>1 DEF Groupable
  <2>4. \A f, g \in DOMAIN images :
            /\ Assign(images, mapping)[f].group = Assign(images, mapping)[g].group
                   <=> g \in Connected(images, f)
            /\ g \in Connected(images, f) =>
                   Assign(images, mapping)[f].split = Assign(images, mapping)[g].split
            /\ rows # NoRows => Assign(images, mapping)[f].split = mapping[rows[f].label]
    <3> HIDE DEF images, mapping
    <3> QED BY <2>3, AssignKeepsGroups
  <2>5. DOMAIN images = {f \in Files : Decodes(run.seen[f].content)}
        /\ \A f \in DOMAIN images : images[f] = run.seen[f].content
      BY <1>1, <2>1
  <2> HIDE DEF images, mapping, revision
  <2>6. KeepsApart(revision)
      BY <2>2, <2>4, <2>5 DEF KeepsApart
  <2>7. ASSUME NEW r \in revisions' PROVE KeepsApart(r)'
    <3>1. KeepsApart(r)
        BY <1>2, <2>1, <2>6, <2>7
    <3> QED BY <1>3, <3>1, ApartStays
  <2>8. SplitsDoNotLeak'
      BY <2>7, Zenon DEF SplitsDoNotLeak, KeepsApart
  <2> QED BY <1>5, <2>1, <2>8 DEF PreparationInv
<1>10. CASE PreparationFails
  <2>1. revisions' = revisions /\ run' = NoImport
      BY <1>10 DEF PreparationFails
  <2> QED BY <1>4, <1>5, <2>1 DEF PreparationInv
<1>11. CASE \/ \E f \in Files : \E c \in Pictures : EditSource(f, c)
            \/ UNCHANGED preparationVars
  <2>1. revisions' = revisions /\ run' = run
      BY <1>11 DEF EditSource, preparationVars
  <2>2. ImportFollowsScan'
      BY <1>0, <2>1 DEF ImportFollowsScan, Decodes
  <2> QED BY <1>4, <2>1, <2>2 DEF PreparationInv
<1> QED BY <1>6, <1>7, <1>8, <1>9, <1>10, <1>11 DEF PreparationNext

(* Splits do not leak: in every revision the groups are the chains of      *)
(* equal pixels and equal identities, a group is in one split, a declared  *)
(* split is kept, and the images are those of one scan that can be read    *)
(* (dataset_groups.py, dataset_preparation.py).                            *)
THEOREM SplitsAreSafe == PreparationSpec => []SplitsDoNotLeak
<1>1. PreparationInit => PreparationInv
    BY DEF PreparationInit, PreparationInv, SplitsDoNotLeak, ImportFollowsScan, NoImport
<1>2. PreparationInv => SplitsDoNotLeak
    BY DEF PreparationInv
<1> QED BY <1>1, <1>2, PreparationKeepsInv, PTL DEF PreparationSpec

-----------------------------------------------------------------------------
(* Published sources                                                       *)

Labels == {NoLabel} \cup {UpstreamLabel[key] : key \in DOMAIN UpstreamLabel}
Parts == STRING \cup {"images", "text"} \cup RowNames \cup Labels
StagePaths == Seq(Parts) \ {<<>>}
StagedFiles == [path : StagePaths, kind : {"image", "text"}]
KeptImages == [path : StagePaths, label : Labels]
Plans == [source : {"hugging_face", "archive"}, content : {"images", "text"},
          labelled : SUBSET DOMAIN UpstreamLabel, cap : ImageCaps]
Archives == [kind : {"archive"}, name : AssetNames, seen : SUBSET Paths,
             kept : SUBSET [path : Paths, kind : {"image", "text"}], rejected : Nat]
Tallies == [images : SUBSET KeptImages, texts : Nat, rejected : Nat]
Readings == [assets : Nat, read : Nat, shards : SUBSET (Parts \X Labels)]
RowFiles == [kind : {"rows"}, label : Labels]
StageTyped ==
    /\ plan \in Plans
    /\ staged \subseteq StagedFiles /\ IsFiniteSet(staged)
    /\ tally \in Tallies
    /\ IsFiniteSet(tally.images)
    /\ asset \in {NoAsset, RunOver} \cup Archives \cup RowFiles
    /\ progress \in Readings
    /\ IsFiniteSet(progress.shards)

(* Images and texts of the stage; the members of an archive that is being  *)
(* read are not in the account yet.                                        *)
ImagesOf(files) == {file \in files : file.kind = "image"}
Open == IF asset.kind = "archive" THEN asset.kept ELSE {}
Settled == staged \ Open
OneByPath(files) == \A f, g \in files : f.path = g.path => f = g
Accounts ==
    /\ OneByPath(staged) /\ OneByPath(tally.images) /\ Open \subseteq staged
    /\ PathsOf(ImagesOf(Settled)) = PathsOf(tally.images)
    /\ Cardinality(Settled \ ImagesOf(Settled)) = tally.texts
    /\ Cardinality(tally.images) <= plan.cap

(* A label is from the plan; that of an image in one folder is its         *)
(* folder's, or the folder has the name of the label.                      *)
OfPlan(label) == label = NoLabel \/ \E key \in plan.labelled : label = UpstreamLabel[key]
Fits(path, label) ==
    /\ OfPlan(label)
    /\ LabelledByFolder(path) =>
           \/ label \in {NoLabel, path[1]}
           \/ <<path[1]>> \in plan.labelled /\ label = UpstreamLabel[<<path[1]>>]
LabelsFit ==
    /\ \A image \in tally.images : Fits(image.path, image.label)
    /\ asset.kind = "rows" => OfPlan(asset.label)

PublishedLast == published = NoFolder \/
    (asset = RunOver /\ published = {[files |-> staged, marker |-> Marker]})
StageInv == StageTyped /\ Accounts /\ LabelsFit /\ PublishedLast

(* As many paths as files, when no two files share one.                    *)
LEMMA PathsCount ==
    ASSUME NEW S, IsFiniteSet(S), OneByPath(S)
    PROVE  IsFiniteSet(PathsOf(S)) /\ Cardinality(PathsOf(S)) = Cardinality(S)
<1> DEFINE path == [file \in S |-> file.path]
<1>1. path \in Surjection(S, PathsOf(S))
    BY DEF Surjection, PathsOf
<1>2. path \in Injection(S, PathsOf(S))
    BY <1>1 DEF Injection, IsInjective, Surjection, OneByPath
<1> QED BY <1>1, <1>2, FS_Surjection

(* Files that are added to others: their images and their texts.           *)
LEMMA AddedFiles ==
    ASSUME NEW D, NEW N, IsFiniteSet(D), IsFiniteSet(N), D \cap N = {}
    PROVE  /\ PathsOf(ImagesOf(D \cup N)) = PathsOf(ImagesOf(D)) \cup PathsOf(ImagesOf(N))
           /\ Cardinality((D \cup N) \ ImagesOf(D \cup N))
                  = Cardinality(D \ ImagesOf(D)) + Cardinality(N \ ImagesOf(N))
<1>1. ImagesOf(D \cup N) = ImagesOf(D) \cup ImagesOf(N)
    BY DEF ImagesOf
<1>2. PathsOf(ImagesOf(D) \cup ImagesOf(N)) = PathsOf(ImagesOf(D)) \cup PathsOf(ImagesOf(N))
    BY DEF PathsOf
<1>3. (D \cup N) \ ImagesOf(D \cup N) = (D \ ImagesOf(D)) \cup (N \ ImagesOf(N))
    BY DEF ImagesOf
<1> DEFINE A == D \ ImagesOf(D)
           B == N \ ImagesOf(N)
<1>4. IsFiniteSet(A) /\ IsFiniteSet(B) /\ A \cap B = {}
  <2>1. A \subseteq D /\ B \subseteq N /\ A \cap B = {}
      OBVIOUS
  <2> HIDE DEF A, B
  <2> QED BY <2>1, FS_Subset
<1> HIDE DEF A, B
<1>5. Cardinality(A \cup B) = Cardinality(A) + Cardinality(B)
  <2>1. Cardinality(A \cup B) = Cardinality(A) + Cardinality(B) - Cardinality(A \cap B)
      BY <1>4, FS_Union
  <2>2. Cardinality(A \cap B) = 0 /\ Cardinality(A) \in Nat /\ Cardinality(B) \in Nat
      BY <1>4, FS_EmptySet, FS_CardinalityType
  <2> QED BY <2>1, <2>2
<1> QED BY <1>1, <1>2, <1>3, <1>5 DEF A, B

(* The metadata of a source joins its images.                              *)
LEMMA MetadataJoins ==
    ASSUME StageInv, asset = RunOver, NEW folder, folder = [files |-> staged, marker |-> Marker],
           HasMetadata(folder),
           \A file \in ImagesOf(staged) : Len(file.path) = 1 \/ LabelledByFolder(file.path)
    PROVE  JoinAccepts(folder)
<1> DEFINE images == tally.images
           paths == PathsOf(images)
           names == {Last(path) : path \in paths}
           table == MetadataRows
<1>1. IsFiniteSet(images) /\ OneByPath(images) /\ images \subseteq KeptImages
      /\ \A image \in images : Fits(image.path, image.label)
    BY DEF StageInv, StageTyped, Tallies, Accounts, LabelsFit
<1>2. PathsOf({f \in folder.files : f.kind = "image"}) = paths
  <2>1. Open = {} /\ Settled = staged
      BY DEF Open, Settled, RunOver
  <2> QED BY <2>1 DEF StageInv, Accounts, ImagesOf
<1>3. folder.marker.metadata = table /\ table # {}
    BY DEF HasMetadata, Marker
<1>4. /\ \A image \in images : image.label # NoLabel
      /\ Cardinality(names) = Cardinality(images)
      /\ table = {Row(image) : image \in images}
    BY <1>3 DEF MetadataRows
<1>5. IsFiniteSet(paths) /\ Cardinality(paths) = Cardinality(images)
    BY <1>1, PathsCount
<1>6. {row.name : row \in table} = names
  <2>1. \A image \in images : Row(image).name = Last(image.path) /\ Row(image).label = image.label
      BY DEF Row
  <2> QED BY <1>4, <2>1 DEF PathsOf
<1>7. Cardinality(names) = Cardinality(table)
  <2> DEFINE row == [image \in images |-> Row(image)]
             name == [r \in table |-> r.name]
  <2> HIDE DEF table, names, images
  <2>1. row \in Surjection(images, table)
      BY <1>4 DEF Surjection
  <2>2. IsFiniteSet(table) /\ Cardinality(table) <= Cardinality(images)
      BY <1>1, <2>1, FS_Surjection
  <2>3. name \in Surjection(table, names)
      BY <1>6 DEF Surjection
  <2>4. IsFiniteSet(names) /\ Cardinality(names) <= Cardinality(table)
      BY <2>2, <2>3, FS_Surjection
  <2>5. Cardinality(names) \in Nat /\ Cardinality(table) \in Nat /\ Cardinality(images) \in Nat
      BY <1>1, <2>2, <2>4, FS_CardinalityType
  <2> QED BY <1>4, <2>2, <2>4, <2>5
<1>8. ASSUME NEW path \in paths, NEW part \in Range(Front(path)),
             part \in {row.label : row \in table}
      PROVE  part \in {row.label : row \in {r \in table : r.name = Last(path)}}
  <2>1. PICK image \in images : image.path = path
      BY DEF PathsOf
  <2>2. path \in StagePaths /\ path \in Seq(Parts) /\ Len(path) \in Nat /\ image.label \in Labels
      BY <1>1, <2>1 DEF KeptImages, StagePaths
  <2>3. Len(path) = 1 \/ LabelledByFolder(path)
    <3>1. PICK file \in ImagesOf(staged) : file.path = path
        BY <1>2 DEF PathsOf, ImagesOf
    <3> QED BY <3>1
  <2>4. Front(path) = [k \in 1..(Len(path) - 1) |-> path[k]]
      BY <2>2, <2>3 DEF Front, LabelledByFolder
  <2>5. PICK k : k \in 1..(Len(path) - 1) /\ part = path[k]
    <3>1. part \in Range([k \in 1..(Len(path) - 1) |-> path[k]])
        BY <2>4
    <3> QED BY <3>1 DEF Range
  <2>6. LabelledByFolder(path) /\ part = path[1]
    <3>1. Len(path) # 1
      <4> DEFINE n == Len(path)
      <4>1. n \in Nat /\ k \in 1..(n - 1)
          BY <2>2, <2>5
      <4> HIDE DEF n
      <4>2. n # 1
          BY <4>1
      <4> QED BY <4>2 DEF n
    <3>2. Len(path) = 2 /\ LabelledByFolder(path)
        BY <2>3, <3>1 DEF LabelledByFolder
    <3>3. k = 1
        BY <2>5, <3>2
    <3> QED BY <2>5, <3>2, <3>3
  <2>7. PICK other \in images : part = other.label
    <3>1. PICK row \in table : part = row.label
        BY <1>8
    <3>2. PICK other \in images : row = Row(other)
        BY <1>4, <3>1
    <3> QED BY <3>1, <3>2 DEF Row
  <2>8. PICK key \in plan.labelled : part = UpstreamLabel[key]
      BY <1>1, <1>4, <2>7 DEF Fits, OfPlan
  <2>9. plan.labelled \subseteq DOMAIN UpstreamLabel
      BY DEF StageInv, StageTyped, Plans
  <2>10. <<part>> \in plan.labelled => UpstreamLabel[<<part>>] = part
      BY <2>8, <2>9, MaterializationAssumption
  <2>11. image.label = part
      BY <1>1, <1>4, <2>1, <2>6, <2>10 DEF Fits
  <2>12. Row(image) \in table /\ Row(image).name = Last(path) /\ Row(image).label = part
      BY <1>4, <2>1, <2>11 DEF Row
  <2> HIDE DEF table
  <2> QED BY <2>12
<1> HIDE DEF table, names, paths
<1>9. Cardinality(names) = Cardinality(paths)
    BY <1>4, <1>5
<1>10. {file.path : file \in {f \in folder.files : f.kind = "image"}} = paths
    BY <1>2 DEF PathsOf
<1> QED BY <1>3, <1>6, <1>7, <1>8, <1>9, <1>10 DEF JoinAccepts, names

(* The account of the stage is the account of what is published.           *)
LEMMA StageHolds == ASSUME StageInv PROVE PublishedSourcePrepares
<1> SUFFICES ASSUME NEW folder \in published
             PROVE  LET images == {f \in folder.files : f.kind = "image"} IN
                    /\ PathsOf(images) = PathsOf(tally.images)
                    /\ Cardinality(images) <= plan.cap
                    /\ folder.marker.members = Cardinality(folder.files)
                    /\ HasMetadata(folder)
                       /\ (\A file \in images : Len(file.path) = 1 \/ LabelledByFolder(file.path))
                           => JoinAccepts(folder)
    BY DEF PublishedSourcePrepares
<1>1. asset = RunOver /\ folder = [files |-> staged, marker |-> Marker]
    BY DEF StageInv, PublishedLast, NoFolder
<1>2. Open = {} /\ Settled = staged
    BY <1>1 DEF Open, Settled, RunOver
<1> DEFINE images == ImagesOf(staged)
           texts == staged \ images
<1>3. folder.files = staged /\ {f \in folder.files : f.kind = "image"} = images
    BY <1>1 DEF ImagesOf
<1>4. /\ PathsOf(images) = PathsOf(tally.images) /\ Cardinality(texts) = tally.texts
      /\ Cardinality(tally.images) <= plan.cap /\ OneByPath(staged) /\ OneByPath(tally.images)
      /\ IsFiniteSet(staged) /\ IsFiniteSet(tally.images)
    BY <1>2 DEF StageInv, Accounts, StageTyped
<1>5. IsFiniteSet(images) /\ IsFiniteSet(texts) /\ OneByPath(images) /\ images \cap texts = {}
      /\ images \cup texts = staged
  <2>1. images \subseteq staged /\ texts \subseteq staged /\ images \cap texts = {} /\ images \cup texts = staged
      BY DEF ImagesOf
  <2> HIDE DEF images, texts
  <2> QED BY <1>4, <2>1, FS_Subset DEF OneByPath
<1> HIDE DEF images, texts
<1>6. Cardinality(images) = Cardinality(tally.images)
    BY <1>4, <1>5, PathsCount
<1>7. Cardinality(staged) = Cardinality(images) + Cardinality(texts)
  <2>1. Cardinality(images \cup texts) = Cardinality(images) + Cardinality(texts) - Cardinality(images \cap texts)
      BY <1>5, FS_Union
  <2>2. Cardinality({}) = 0 /\ Cardinality(images) \in Nat /\ Cardinality(texts) \in Nat
      BY <1>5, FS_EmptySet, FS_CardinalityType
  <2>3. Cardinality(images \cap texts) = 0
      BY <1>5, <2>2, Zenon
  <2>4. Cardinality(staged) = Cardinality(images) + Cardinality(texts) - Cardinality(images \cap texts)
      BY <1>5, <2>1, Zenon
  <2> QED BY <2>2, <2>3, <2>4
<1>8. folder.marker.members = Cardinality(folder.files)
    BY <1>1, <1>3, <1>4, <1>6, <1>7 DEF Marker
<1>9. HasMetadata(folder) /\ (\A file \in images : Len(file.path) = 1 \/ LabelledByFolder(file.path))
          => JoinAccepts(folder)
    BY <1>1, MetadataJoins DEF images
<1> QED BY <1>3, <1>4, <1>6, <1>8, <1>9

(* A run begins with an empty stage and an empty account.                  *)
LEMMA MaterializationStart == MaterializationInit => StageInv
<1> SUFFICES ASSUME MaterializationInit PROVE StageInv
    OBVIOUS
<1>1. /\ plan \in Plans /\ staged = {} /\ tally = [images |-> {}, texts |-> 0, rejected |-> 0]
      /\ asset = NoAsset /\ progress = [assets |-> 0, read |-> 0, shards |-> {}]
      /\ published = NoFolder
    BY DEF MaterializationInit, Plans, Labelings
<1>2. StageTyped
    BY <1>1, FS_EmptySet DEF StageTyped, Tallies, Readings
<1>3. Settled = {} /\ ImagesOf({}) = {} /\ Open = {} /\ PathsOf({}) = {}
    BY <1>1 DEF Settled, ImagesOf, Open, PathsOf, NoAsset
<1>4. plan.cap \in Nat
    BY <1>1, MaterializationAssumption DEF Plans
<1>5. Accounts
    BY <1>1, <1>3, <1>4, FS_EmptySet DEF Accounts, OneByPath
<1>6. LabelsFit /\ PublishedLast
    BY <1>1 DEF LabelsFit, PublishedLast, NoAsset
<1> QED BY <1>2, <1>5, <1>6 DEF StageInv

(* A step that settles new files and accounts for them.                    *)
LEMMA SettleStep ==
    ASSUME StageInv, plan' = plan, published' = published, asset # RunOver, StageTyped',
           NEW files, IsFiniteSet(files), Settled \cap files = {},
           staged' = Settled \cup files, Open' = {}, OneByPath(Settled \cup files),
           OneByPath(tally'.images),
           PathsOf(tally'.images) = PathsOf(tally.images) \cup PathsOf(ImagesOf(files)),
           tally'.texts = tally.texts + Cardinality(files \ ImagesOf(files)),
           Cardinality(tally'.images) <= plan.cap,
           \A image \in tally'.images : image \in tally.images \/ Fits(image.path, image.label),
           asset'.kind = "rows" => OfPlan(asset'.label)
    PROVE  StageInv'
<1>1. IsFiniteSet(Settled)
    BY FS_Subset DEF StageInv, StageTyped, Settled
<1>2. Settled' = Settled \cup files
    BY DEF Settled
<1>3. /\ PathsOf(ImagesOf(Settled \cup files)) = PathsOf(tally'.images)
      /\ Cardinality((Settled \cup files) \ ImagesOf(Settled \cup files)) = tally'.texts
  <2>1. PathsOf(ImagesOf(Settled)) = PathsOf(tally.images)
        /\ Cardinality(Settled \ ImagesOf(Settled)) = tally.texts
      BY DEF StageInv, Accounts
  <2>2. IsFiniteSet(files) /\ Settled \cap files = {}
      OBVIOUS
  <2>3. /\ PathsOf(ImagesOf(Settled \cup files)) = PathsOf(ImagesOf(Settled)) \cup PathsOf(ImagesOf(files))
        /\ Cardinality((Settled \cup files) \ ImagesOf(Settled \cup files))
               = Cardinality(Settled \ ImagesOf(Settled)) + Cardinality(files \ ImagesOf(files))
      BY ONLY <1>1, <2>2, AddedFiles
  <2> QED BY ONLY <2>1, <2>3,
             PathsOf(tally'.images) = PathsOf(tally.images) \cup PathsOf(ImagesOf(files)),
             tally'.texts = tally.texts + Cardinality(files \ ImagesOf(files))
<1>4. Accounts'
  <2> DEFINE S == Settled \cup files
             images == tally'.images
  <2>1. OneByPath(staged)' /\ OneByPath(tally.images)'
      BY DEF OneByPath
  <2>2. PathsOf(ImagesOf(Settled))' = PathsOf(ImagesOf(S))
      BY <1>2 DEF PathsOf, ImagesOf
  <2>3. PathsOf(tally.images)' = PathsOf(images)
      BY DEF PathsOf
  <2>4. (Settled \ ImagesOf(Settled))' = S \ ImagesOf(S)
      BY <1>2 DEF ImagesOf
  <2> HIDE DEF S, images
  <2>5. (Cardinality(Settled \ ImagesOf(Settled)))' = Cardinality(S \ ImagesOf(S))
      BY <2>4
  <2> QED BY <1>3, <2>1, <2>2, <2>3, <2>5 DEF Accounts, S, images
<1>5. LabelsFit'
  <2>1. \A path, label : Fits(path, label)' <=> Fits(path, label)
      BY DEF Fits, OfPlan, LabelledByFolder, ByItself
  <2>2. \A label : OfPlan(label)' <=> OfPlan(label)
      BY DEF OfPlan
  <2>3. \A image \in tally'.images : Fits(image.path, image.label)
      BY DEF StageInv, LabelsFit
  <2>4. \A image \in tally'.images : Fits(image.path, image.label)'
      BY <2>1, <2>3
  <2>5. asset'.kind = "rows" => OfPlan(asset.label)'
      BY DEF OfPlan
  <2> QED BY <2>4, <2>5 DEF LabelsFit
<1>6. PublishedLast'
    BY DEF StageInv, PublishedLast, NoFolder
<1> QED BY <1>4, <1>5, <1>6 DEF StageInv

(* A step that settles and accounts for nothing.                           *)
LEMMA CarryStep ==
    ASSUME StageInv, plan' = plan, published' = published, asset # RunOver, StageTyped',
           Settled' = Settled, OneByPath(staged'), Open' \subseteq staged',
           tally'.images = tally.images, tally'.texts = tally.texts,
           asset'.kind = "rows" => OfPlan(asset'.label)
    PROVE  StageInv'
<1>1. Accounts'
  <2>1. OneByPath(staged)' /\ OneByPath(tally.images)'
      BY DEF OneByPath, StageInv, Accounts
  <2>2. PathsOf(ImagesOf(Settled))' = PathsOf(ImagesOf(Settled))
      BY DEF PathsOf, ImagesOf
  <2>3. PathsOf(tally.images)' = PathsOf(tally.images)
      BY DEF PathsOf
  <2>4. (Settled \ ImagesOf(Settled))' = Settled \ ImagesOf(Settled)
      BY DEF ImagesOf
  <2>5. (Cardinality(Settled \ ImagesOf(Settled)))' = Cardinality(Settled \ ImagesOf(Settled))
      BY <2>4
  <2> QED BY <2>1, <2>2, <2>3, <2>5 DEF Accounts, StageInv
<1>2. LabelsFit'
  <2>1. \A path, label : Fits(path, label)' <=> Fits(path, label)
      BY DEF Fits, OfPlan, LabelledByFolder, ByItself
  <2>2. \A image \in tally'.images : Fits(image.path, image.label)'
      BY <2>1 DEF StageInv, LabelsFit
  <2>3. asset'.kind = "rows" => OfPlan(asset.label)'
      BY DEF OfPlan
  <2> QED BY <2>2, <2>3 DEF LabelsFit
<1>3. PublishedLast'
    BY DEF StageInv, PublishedLast, NoFolder
<1> QED BY <1>1, <1>2, <1>3 DEF StageInv

(* Labels from the plan, and labels of the first folder.                   *)
LEMMA PlanLabels ==
    ASSUME StageTyped
    PROVE  /\ \A key : LabelFor(key) \in Labels /\ OfPlan(LabelFor(key))
           /\ \A path : AssetLabel(path) \in Labels /\ OfPlan(AssetLabel(path))
           /\ \A path \in StagePaths : \A basename : Fits(path, LabelFor(MemberKey(path, basename)))
           /\ \A path \in StagePaths : Fits(path, AssetLabel(path))
<1>1. plan.labelled \subseteq DOMAIN UpstreamLabel
    BY DEF StageTyped, Plans
<1>2. \A key : LabelFor(key) \in Labels /\ OfPlan(LabelFor(key))
               /\ (LabelFor(key) = NoLabel
                   \/ (key \in plan.labelled /\ LabelFor(key) = UpstreamLabel[key]))
    BY <1>1 DEF LabelFor, Labels, OfPlan
<1>3. \A path : AssetLabel(path) \in Labels /\ OfPlan(AssetLabel(path))
    BY <1>2 DEF AssetLabel
<1>4. \A path \in StagePaths : \A basename : Len(path) = 2 => MemberKey(path, basename) = <<path[1]>>
    BY DEF MemberKey
<1>5. \A path \in StagePaths : \A basename : Fits(path, LabelFor(MemberKey(path, basename)))
    BY <1>2, <1>4 DEF Fits, LabelledByFolder
<1>6. \A path \in StagePaths : Fits(path, AssetLabel(path))
    BY <1>2, <1>3, <1>5 DEF Fits, LabelledByFolder, AssetLabel
<1> QED BY <1>2, <1>3, <1>5, <1>6

(* The paths of members and loose files are paths in a stage.              *)
LEMMA PathsAreStaged == Paths \subseteq StagePaths
<1>1. \A p \in Paths : p \in Seq(STRING) /\ p # <<>>
    BY MaterializationAssumption
<1>2. STRING \subseteq Parts
    BY DEF Parts
<1>3. ASSUME NEW p \in Seq(STRING) PROVE p \in Seq(Parts)
  <2>1. Len(p) \in Nat /\ p = [n \in 1..Len(p) |-> p[n]] /\ \A n \in 1..Len(p) : p[n] \in STRING
      OBVIOUS
  <2>2. \A n \in 1..Len(p) : p[n] \in Parts
      BY <1>2, <2>1
  <2> QED BY <2>1, <2>2
<1> QED BY <1>1, <1>3 DEF StagePaths

(* What the writer itself puts into a path.                                *)
LEMMA NamesAreParts ==
    "images" \in Parts /\ "text" \in Parts /\ RowNames \subseteq Parts /\ Labels \subseteq Parts
BY DEF Parts

(* An archive is opened: none of its members is in the stage yet.          *)
LEMMA OpenArchiveStep == ASSUME StageInv, NEW name \in AssetNames, OpenArchive(name) PROVE StageInv'
<1>1. /\ asset = NoAsset /\ plan' = plan /\ published' = published /\ staged' = staged
      /\ tally' = tally /\ asset # RunOver
      /\ asset' = [kind |-> "archive", name |-> name, seen |-> {}, kept |-> {}, rejected |-> 0]
      /\ progress' = [progress EXCEPT !.assets = @ + 1]
    BY DEF OpenArchive, Opened, NextAsset, NoAsset, RunOver
<1>2. progress \in Readings
      /\ IsFiniteSet(progress.shards)
    BY DEF StageInv, StageTyped
<1>3. Open = {} /\ Settled = staged /\ Open \subseteq staged
    BY <1>1 DEF Open, Settled, NoAsset
<1>4. asset' \in Archives
    BY <1>1 DEF Archives
<1>5. progress' \in Readings
      /\ progress'.shards = progress.shards
    BY <1>1, <1>2 DEF Readings
<1>6. StageTyped'
    BY <1>1, <1>2, <1>4, <1>5 DEF StageInv, StageTyped
<1>7. Open' = {} /\ Settled' = staged /\ asset'.kind # "rows"
    BY <1>1 DEF Open, Settled
<1> QED BY <1>1, <1>3, <1>6, <1>7, CarryStep DEF StageInv, Accounts

(* A shard is opened, or put aside for the texts of its folder.            *)
LEMMA OpenRowsStep ==
    ASSUME StageInv, NEW name \in AssetNames, NEW folder \in {Head(path) : path \in Paths},
           OpenRows(name, folder) \/ PutAside(name, folder)
    PROVE  StageInv'
<1>1. /\ asset = NoAsset /\ plan' = plan /\ published' = published /\ staged' = staged
      /\ tally' = tally /\ asset # RunOver
    BY DEF OpenRows, PutAside, NextAsset, NoAsset, RunOver
<1>2. progress \in Readings
      /\ IsFiniteSet(progress.shards)
    BY DEF StageInv, StageTyped
<1>3. Open = {} /\ Settled = staged /\ Open \subseteq staged
    BY <1>1 DEF Open, Settled, NoAsset
<1>4. CASE OpenRows(name, folder)
  <2>1. asset' = [kind |-> "rows", label |-> AssetLabel(<<folder, name>>)]
        /\ progress' = [progress EXCEPT !.assets = @ + 1]
      BY <1>4 DEF OpenRows, Opened
  <2>2. AssetLabel(<<folder, name>>) \in Labels /\ OfPlan(AssetLabel(<<folder, name>>))
      BY PlanLabels DEF StageInv
  <2>3. asset' \in RowFiles
      BY <2>1, <2>2 DEF RowFiles
  <2>4. progress' \in Readings
        /\ progress'.shards = progress.shards
      BY <1>2, <2>1 DEF Readings
  <2>5. StageTyped'
      BY <1>1, <1>2, <2>3, <2>4 DEF StageInv, StageTyped
  <2>6. Open' = {} /\ Settled' = staged /\ OfPlan(asset'.label)
      BY <1>1, <2>1, <2>2 DEF Open, Settled
  <2> QED BY <1>1, <1>3, <2>5, <2>6, CarryStep DEF StageInv, Accounts
<1>5. CASE PutAside(name, folder)
  <2> DEFINE shard == <<folder, AssetLabel(<<folder, name>>)>>
  <2>1. asset' = asset /\ progress' = [progress EXCEPT !.assets = @ + 1, !.shards = @ \cup {shard}]
      BY <1>5 DEF PutAside
  <2>2. shard \in Parts \X Labels
    <3>1. AssetLabel(<<folder, name>>) \in Labels
        BY PlanLabels DEF StageInv
    <3>2. folder \in Parts
        BY MaterializationAssumption DEF Parts
    <3> QED BY <3>1, <3>2
  <2> HIDE DEF shard
  <2> DEFINE more == progress.shards \cup {shard}
             Shards == Parts \X Labels
  <2>3. more \in SUBSET Shards /\ progress.assets + 1 \in Nat
        /\ progress' = [progress EXCEPT !.assets = progress.assets + 1, !.shards = more]
      BY <1>2, <2>1, <2>2 DEF Readings
  <2>4. progress \in [assets : Nat, read : Nat, shards : SUBSET Shards]
      BY <1>2 DEF Readings
  <2> HIDE DEF more, Shards
  <2>5. progress' \in [assets : Nat, read : Nat, shards : SUBSET Shards] /\ progress'.shards = more
      BY <2>3, <2>4
  <2>6. IsFiniteSet(progress'.shards)
      BY <1>2, <2>5, FS_AddElement DEF more
  <2>7. StageTyped'
      BY <1>1, <1>2, <2>1, <2>5, <2>6 DEF StageInv, StageTyped, Readings, Shards
  <2>8. Open' = {} /\ Settled' = staged /\ asset'.kind # "rows"
      BY <1>1, <2>1 DEF Open, Settled, NoAsset
  <2> QED BY <1>1, <1>3, <2>7, <2>8, CarryStep DEF StageInv, Accounts
<1> QED BY <1>4, <1>5

(* A member is in the stage as soon as it is read, and still open.         *)
LEMMA ReadMemberStep ==
    ASSUME StageInv, NEW path \in Paths, NEW kind \in MemberKinds, ReadMember(path, kind)
    PROVE  StageInv'
<1>1. /\ asset.kind = "archive" /\ plan' = plan /\ published' = published /\ tally' = tally
      /\ progress' = [progress EXCEPT !.read = @ + 1]
    BY DEF ReadMember, Reads
<1>2. asset \in Archives /\ asset # RunOver
    BY <1>1 DEF StageInv, StageTyped, NoAsset, RunOver, RowFiles
<1>3. progress' \in Readings /\ progress'.shards = progress.shards
    BY <1>1 DEF StageInv, StageTyped, Readings
<1>4. asset.kept \subseteq staged /\ Settled = staged \ asset.kept
    BY <1>1 DEF StageInv, Accounts, Open, Settled
<1>5. CASE /\ asset' \in Archives /\ asset'.kept = asset.kept /\ staged' = staged
  <2>1. asset'.kind = "archive"
      BY <1>5 DEF Archives
  <2>2. Open' = asset.kept /\ Settled' = Settled /\ Open' \subseteq staged'
      BY <1>4, <1>5, <2>1 DEF Open, Settled
  <2>3. StageTyped'
      BY <1>1, <1>3, <1>5 DEF StageInv, StageTyped
  <2> QED BY <1>1, <1>2, <1>5, <2>1, <2>2, <2>3, CarryStep DEF StageInv, Accounts
<1>6. CASE kind = "special" \/ path \in asset.seen
  <2>1. asset' = [asset EXCEPT !.rejected = @ + 1] /\ staged' = staged
      BY <1>6 DEF ReadMember
  <2>2. asset' \in Archives /\ asset'.kept = asset.kept
      BY <1>2, <2>1 DEF Archives
  <2> QED BY <1>5, <2>1, <2>2
<1>7. CASE ~ (kind = "special" \/ path \in asset.seen) /\ ~ Accepted(kind)
  <2> DEFINE seen == asset.seen \cup {path}
             more == asset.rejected + 1
  <2>1. asset' = [asset EXCEPT !.rejected = more, !.seen = seen] /\ staged' = staged
      BY <1>7, Zenon DEF ReadMember
  <2>2. seen \in SUBSET Paths /\ more \in Nat
      BY <1>2 DEF Archives
  <2> HIDE DEF seen, more
  <2>3. asset' \in Archives /\ asset'.kept = asset.kept
      BY <1>2, <2>1, <2>2 DEF Archives
  <2> QED BY <1>5, <2>1, <2>3
<1>8. CASE ~ (kind = "special" \/ path \in asset.seen) /\ Accepted(kind)
  <2> DEFINE member == [path |-> path, kind |-> kind]
             seen == asset.seen \cup {path}
             kept == asset.kept \cup {member}
  <2>1. /\ asset' = [asset EXCEPT !.seen = seen, !.kept = kept]
        /\ staged' = staged \cup {member} /\ path \notin PathsOf(staged)
      BY <1>8, Zenon DEF ReadMember
  <2>2. member \in [path : Paths, kind : {"image", "text"}] /\ member.path = path
      BY <1>8 DEF Accepted
  <2>3. seen \in SUBSET Paths /\ kept \in SUBSET [path : Paths, kind : {"image", "text"}]
      BY <1>2, <2>2 DEF Archives
  <2>4. member \in StagedFiles
      BY <2>2, PathsAreStaged DEF StagedFiles
  <2>5. \A file \in staged : file.path # path
      BY <2>1 DEF PathsOf
  <2> HIDE DEF member, seen
  <2>6. asset' \in Archives /\ asset'.kept = kept /\ asset'.kind = "archive"
    <3> HIDE DEF kept
    <3> QED BY <1>2, <2>1, <2>3 DEF Archives
  <2>7. Open' = kept /\ Settled' = Settled /\ Open' \subseteq staged'
      BY <1>4, <2>1, <2>2, <2>5, <2>6 DEF Open, Settled
  <2>8. IsFiniteSet(staged') /\ staged' \subseteq StagedFiles
      BY <2>1, <2>4, FS_AddElement DEF StageInv, StageTyped
  <2>9. StageTyped'
      BY <1>1, <1>3, <2>6, <2>8 DEF StageInv, StageTyped
  <2>10. OneByPath(staged')
      BY <2>1, <2>2, <2>5 DEF StageInv, Accounts, OneByPath
  <2> QED BY <1>1, <1>2, <2>6, <2>7, <2>9, <2>10, CarryStep DEF StageInv, Accounts
<1> QED BY <1>6, <1>7, <1>8

(* A shard ends: its images are in the account already.                    *)
LEMMA EndRowsStep == ASSUME StageInv, EndRows PROVE StageInv'
<1>1. /\ asset.kind = "rows" /\ plan' = plan /\ published' = published /\ tally' = tally
      /\ progress' = progress /\ staged' = staged /\ asset' = NoAsset /\ asset # RunOver
    BY DEF EndRows, RunOver
<1>2. StageTyped'
    BY <1>1 DEF StageInv, StageTyped
<1>3. Open = {} /\ Open' = {} /\ Settled' = Settled /\ asset'.kind # "rows"
    BY <1>1 DEF Open, Settled, NoAsset
<1> QED BY <1>1, <1>2, <1>3, CarryStep DEF StageInv, Accounts

(* One more image.                                                         *)
LEMMA SettleImage ==
    ASSUME StageInv, plan' = plan, published' = published, asset # RunOver, Open = {}, Open' = {},
           asset' \in {NoAsset, RunOver} \cup Archives \cup RowFiles,
           asset'.kind = "rows" => OfPlan(asset'.label),
           progress' \in Readings, IsFiniteSet(progress'.shards),
           NEW path \in StagePaths, path \notin PathsOf(staged), ImageAllowed,
           NEW label \in Labels, Fits(path, label),
           staged' = staged \cup {[path |-> path, kind |-> "image"]},
           tally' = [tally EXCEPT !.images = @ \cup {[path |-> path, label |-> label]}]
    PROVE  StageInv'
<1> DEFINE file == [path |-> path, kind |-> "image"]
           image == [path |-> path, label |-> label]
           images == tally.images \cup {image}
<1>1. /\ file \in StagedFiles /\ file.path = path /\ file.kind = "image"
      /\ image \in KeptImages /\ image.path = path /\ image.label = label
    BY DEF StagedFiles, KeptImages
<1>2. tally \in Tallies /\ tally' = [tally EXCEPT !.images = images] /\ Settled = staged
    BY DEF StageInv, StageTyped, Settled
<1>3. ImagesOf({file}) = {file} /\ PathsOf({file}) = {path} /\ {file} \ ImagesOf({file}) = {}
    BY <1>1 DEF ImagesOf, PathsOf
<1>4. \A f \in staged : f.path # path
    BY DEF PathsOf
<1>5. \A i \in tally.images : i.path # path
  <2>1. PathsOf(tally.images) = PathsOf(ImagesOf(staged))
      BY <1>2 DEF StageInv, Accounts
  <2>2. ASSUME NEW i \in tally.images PROVE \E f \in staged : f.path = i.path
      BY <2>1 DEF PathsOf, ImagesOf
  <2> QED BY <1>4, <2>2
<1>6. PathsOf(images) = PathsOf(tally.images) \cup {path}
    BY <1>1 DEF PathsOf
<1>7. images \in SUBSET KeptImages
    BY <1>1, <1>2 DEF Tallies
<1>8. IsFiniteSet(images) /\ Cardinality(images) <= plan.cap
  <2>1. IsFiniteSet(tally.images) /\ image \notin tally.images /\ plan.cap \in Nat
      BY <1>1, <1>5, MaterializationAssumption DEF StageInv, StageTyped, Plans
  <2>2. IsFiniteSet(images) /\ Cardinality(images) = Cardinality(tally.images) + 1
        /\ Cardinality(tally.images) \in Nat
      BY <2>1, FS_AddElement, FS_CardinalityType
  <2> QED BY <2>1, <2>2 DEF ImageAllowed
<1> HIDE DEF file, image
<1>9. OneByPath(images) /\ OneByPath(staged \cup {file})
    BY <1>1, <1>4, <1>5 DEF StageInv, Accounts, OneByPath
<1>10. \A i \in images : i \in tally.images \/ Fits(i.path, i.label)
    BY <1>1
<1> HIDE DEF images
<1>11. tally' \in Tallies /\ tally'.images = images /\ tally'.texts = tally.texts
    BY <1>2, <1>7 DEF Tallies
<1>12. staged' = staged \cup {file}
    BY DEF file
<1>13. StageTyped'
  <2>1. IsFiniteSet(staged') /\ staged' \subseteq StagedFiles
      BY <1>1, <1>12, FS_AddElement DEF StageInv, StageTyped
  <2> QED BY <1>8, <1>11, <2>1 DEF StageInv, StageTyped
<1>14. IsFiniteSet({file}) /\ Settled \cap {file} = {}
  <2>1. IsFiniteSet({file})
      BY FS_Singleton
  <2> QED BY <1>1, <1>2, <1>4, <2>1
<1>15. tally'.texts = tally.texts + Cardinality({file} \ ImagesOf({file}))
  <2>1. Cardinality({}) = 0 /\ tally.texts \in Nat
      BY <1>2, FS_EmptySet DEF Tallies
  <2>2. Cardinality({file} \ ImagesOf({file})) = 0
      BY <1>3, <2>1, Zenon
  <2> QED BY <1>11, <2>1, <2>2
<1>16. PathsOf(tally'.images) = PathsOf(tally.images) \cup PathsOf(ImagesOf({file}))
    BY <1>3, <1>6, <1>11
<1> QED BY <1>2, <1>8, <1>9, <1>10, <1>11, <1>12, <1>13, <1>14, <1>15, <1>16, SettleStep

(* One entry is rejected.                                                  *)
LEMMA RejectStep ==
    ASSUME StageInv, plan' = plan, published' = published, asset # RunOver, Open = {}, Open' = {},
           asset' = asset, progress' \in Readings, IsFiniteSet(progress'.shards),
           staged' = staged, tally' = Reject
    PROVE  StageInv'
<1>1. tally' \in Tallies /\ tally'.images = tally.images /\ tally'.texts = tally.texts
  <2> DEFINE more == tally.rejected + 1
  <2>1. tally \in Tallies /\ tally' = [tally EXCEPT !.rejected = more]
      BY DEF StageInv, StageTyped, Reject
  <2>2. more \in Nat
      BY <2>1 DEF Tallies
  <2> HIDE DEF more
  <2> QED BY <2>1, <2>2 DEF Tallies
<1>2. StageTyped'
    BY <1>1 DEF StageInv, StageTyped
<1>3. Settled' = Settled
    BY DEF Settled
<1>4. asset'.kind = "rows" => OfPlan(asset'.label)
    BY DEF StageInv, LabelsFit
<1>5. OneByPath(staged') /\ Open' \subseteq staged'
    BY DEF StageInv, Accounts
<1> QED BY <1>1, <1>2, <1>3, <1>4, <1>5, CarryStep

(* New texts.                                                              *)
LEMMA SettleTexts ==
    ASSUME StageInv, plan' = plan, published' = published, asset # RunOver, Open = {}, Open' = {},
           asset' = asset, progress' \in Readings, IsFiniteSet(progress'.shards),
           NEW paths, paths \subseteq StagePaths, IsFiniteSet(paths), paths \cap PathsOf(staged) = {},
           staged' = staged \cup {[path |-> path, kind |-> "text"] : path \in paths},
           tally' = [tally EXCEPT !.texts = @ + Cardinality(paths)]
    PROVE  StageInv'
<1> DEFINE files == {[path |-> path, kind |-> "text"] : path \in paths}
           more == tally.texts + Cardinality(paths)
<1>1. Settled = staged /\ tally \in Tallies /\ tally' = [tally EXCEPT !.texts = more]
    BY DEF Settled, StageInv, StageTyped
<1>2. \A file \in files : file \in StagedFiles /\ file.kind = "text" /\ file.path \in paths
    BY DEF StagedFiles
<1>3. OneByPath(files)
    BY DEF OneByPath
<1>4. PathsOf(files) = paths
  <2>1. ASSUME NEW path \in paths PROVE \E file \in files : file.path = path
    <3>1. [path |-> path, kind |-> "text"] \in files
        OBVIOUS
    <3> HIDE DEF files
    <3> QED BY <3>1
  <2> HIDE DEF files
  <2> QED BY <1>2, <2>1 DEF PathsOf
<1>5. IsFiniteSet(files)
  <2> DEFINE text == [path \in paths |-> [path |-> path, kind |-> "text"]]
  <2>1. text \in Surjection(paths, files)
      BY DEF Surjection
  <2> HIDE DEF files
  <2> QED BY <2>1, FS_Surjection
<1> HIDE DEF files
<1>6. Cardinality(files) = Cardinality(paths)
    BY <1>3, <1>4, <1>5, PathsCount
<1>7. \A f \in staged : f.path \notin paths
    BY DEF PathsOf
<1>8. Settled \cap files = {} /\ OneByPath(staged \cup files)
    BY <1>1, <1>2, <1>3, <1>7 DEF StageInv, Accounts, OneByPath
<1>9. ImagesOf(files) = {} /\ files \ ImagesOf(files) = files /\ PathsOf(ImagesOf(files)) = {}
    BY <1>2 DEF ImagesOf, PathsOf
<1>10. more \in Nat /\ more = tally.texts + Cardinality(files \ ImagesOf(files))
    BY <1>1, <1>6, <1>9, FS_CardinalityType DEF Tallies
<1> HIDE DEF more
<1>11. tally' \in Tallies /\ tally'.images = tally.images /\ tally'.texts = more
    BY <1>1, <1>10 DEF Tallies
<1>12. staged' = staged \cup files
    BY DEF files
<1>13. StageTyped'
  <2>1. IsFiniteSet(staged') /\ staged' \subseteq StagedFiles
    <3>1. IsFiniteSet(staged) /\ staged \subseteq StagedFiles
        BY DEF StageInv, StageTyped
    <3>2. IsFiniteSet(staged \cup files)
        BY <1>5, <3>1, FS_Union
    <3> QED BY <1>2, <1>12, <3>1, <3>2
  <2> QED BY <1>11, <2>1 DEF StageInv, StageTyped
<1>14. PathsOf(tally'.images) = PathsOf(tally.images) \cup PathsOf(ImagesOf(files))
    BY <1>9, <1>11
<1>15. OneByPath(tally'.images) /\ Cardinality(tally'.images) <= plan.cap
       /\ (asset'.kind = "rows" => OfPlan(asset'.label))
    BY <1>11 DEF StageInv, Accounts, LabelsFit
<1> QED BY <1>1, <1>5, <1>8, <1>10, <1>11, <1>12, <1>13, <1>14, <1>15, SettleStep

(* A loose file is copied and accounted for in the same step.              *)
LEMMA CopyLooseStep ==
    ASSUME StageInv, NEW path \in Paths, NEW kind \in MemberKinds, CopyLoose(path, kind)
    PROVE  StageInv'
<1> DEFINE label == AssetLabel(path)
<1>1. /\ asset = NoAsset /\ asset' = asset /\ plan' = plan /\ published' = published
      /\ progress' = [progress EXCEPT !.assets = @ + 1]
    BY Zenon DEF CopyLoose, NextAsset, Opened
<1>2. Open = {} /\ Open' = {} /\ asset # RunOver /\ asset' \in {NoAsset, RunOver} \cup Archives \cup RowFiles
      /\ asset'.kind # "rows"
    BY <1>1 DEF Open, NoAsset, RunOver
<1>3. progress' \in Readings /\ IsFiniteSet(progress'.shards)
    BY <1>1 DEF StageInv, StageTyped, Readings
<1>4. path \in StagePaths
    BY PathsAreStaged
<1>5. label \in Labels /\ Fits(path, label)
    BY <1>4, PlanLabels DEF StageInv
<1>6. CASE tally' = Reject /\ staged' = staged
    BY <1>1, <1>2, <1>3, <1>6, RejectStep
<1>7. CASE /\ Accepted(kind) /\ path \notin PathsOf(staged) /\ ~ (kind = "image" /\ ~ ImageAllowed)
           /\ staged' = staged \cup {[path |-> path, kind |-> kind]}
           /\ tally' = IF kind = "text" THEN [tally EXCEPT !.texts = @ + 1]
                       ELSE [tally EXCEPT !.images = @ \cup {[path |-> path, label |-> label]}]
  <2> HIDE DEF label
  <2>1. CASE kind = "text"
    <3> DEFINE paths == {path}
    <3>1. paths \subseteq StagePaths /\ IsFiniteSet(paths) /\ Cardinality(paths) = 1
          /\ paths \cap PathsOf(staged) = {}
        BY <1>4, <1>7, FS_Singleton
    <3>2. staged' = staged \cup {[path |-> p, kind |-> "text"] : p \in paths}
          /\ tally' = [tally EXCEPT !.texts = @ + Cardinality(paths)]
        BY <1>7, <2>1, <3>1
    <3> HIDE DEF paths
    <3> QED BY <1>1, <1>2, <1>3, <3>1, <3>2, SettleTexts
  <2>2. CASE kind = "image"
    <3>1. /\ ImageAllowed /\ staged' = staged \cup {[path |-> path, kind |-> "image"]}
          /\ tally' = [tally EXCEPT !.images = @ \cup {[path |-> path, label |-> label]}]
          /\ path \notin PathsOf(staged)
        BY <1>7, <2>2
    <3> QED BY <1>1, <1>2, <1>3, <1>4, <1>5, <3>1, SettleImage
  <2> QED BY <1>7, <2>1, <2>2 DEF Accepted
<1> QED BY <1>6, <1>7, Zenon DEF CopyLoose, Ledgers

(* An image of a row is saved and accounted for in the same step.          *)
LEMMA ReadRowStep ==
    ASSUME StageInv, NEW name \in RowNames, NEW usable \in BOOLEAN, ReadRow(name, usable)
    PROVE  StageInv'
<1> DEFINE label == asset.label
           path == <<IF label = NoLabel THEN "images" ELSE label, name>>
           image == [path |-> path, label |-> label]
<1>1. /\ asset.kind = "rows" /\ asset' = asset /\ plan' = plan /\ published' = published
      /\ progress' = [progress EXCEPT !.read = @ + 1]
    BY Zenon DEF ReadRow, Reads
<1>2. asset \in RowFiles /\ Open = {} /\ Open' = {} /\ asset # RunOver
    BY <1>1 DEF Open, NoAsset, RunOver, Archives, StageInv, StageTyped
<1>3. progress' \in Readings /\ IsFiniteSet(progress'.shards)
    BY <1>1 DEF StageInv, StageTyped, Readings
<1>4. label \in Labels /\ OfPlan(label)
    BY <1>1, <1>2 DEF RowFiles, StageInv, LabelsFit
<1>5. path \in StagePaths /\ path[1] = (IF label = NoLabel THEN "images" ELSE label)
  <2> DEFINE folder == IF label = NoLabel THEN "images" ELSE label
  <2>1. folder \in Parts /\ name \in Parts
      BY <1>4, NamesAreParts
  <2> HIDE DEF folder
  <2>2. <<folder, name>> \in Seq(Parts) /\ Len(<<folder, name>>) = 2 /\ <<folder, name>>[1] = folder
      BY <2>1
  <2> QED BY <2>2 DEF StagePaths, folder
<1> HIDE DEF path, label
<1>6. Fits(path, label)
    BY <1>4, <1>5 DEF Fits
<1>7. image.path = path /\ image.label = label
    OBVIOUS
<1>8. CASE tally' = Reject /\ staged' = staged
    BY <1>1, <1>2, <1>3, <1>8, RejectStep
<1>9. CASE /\ ImageAllowed /\ path \notin PathsOf(staged)
           /\ staged' = staged \cup {[path |-> path, kind |-> "image"]}
           /\ tally' = [tally EXCEPT !.images = @ \cup {[path |-> path, label |-> label]}]
  <2>1. asset' \in {NoAsset, RunOver} \cup Archives \cup RowFiles
        /\ (asset'.kind = "rows" => OfPlan(asset'.label))
      BY <1>1, <1>2, <1>4 DEF label
  <2> QED BY <1>1, <1>2, <1>3, <1>4, <1>5, <1>6, <1>9, <2>1, SettleImage
<1> QED BY <1>7, <1>8, <1>9, Zenon DEF ReadRow, Ledgers, path, label

(* One text for each folder and label of the shards put aside.             *)
LEMMA WriteCorpusStep == ASSUME StageInv, WriteCorpus PROVE StageInv'
<1> DEFINE TextPath(shard) == <<shard[1], IF shard[2] = NoLabel THEN "text" ELSE shard[2]>>
           corpora == {TextPath(shard) : shard \in progress.shards}
<1>1. /\ asset = NoAsset /\ asset' = asset /\ plan' = plan /\ published' = published
      /\ corpora \cap PathsOf(staged) = {}
      /\ staged' = staged \cup {[path |-> path, kind |-> "text"] : path \in corpora}
      /\ tally' = [tally EXCEPT !.texts = @ + Cardinality(corpora)]
      /\ progress' = [progress EXCEPT !.shards = {}, !.assets = MaxAssets]
    BY Zenon DEF WriteCorpus, Ledgers
<1>2. Open = {} /\ Open' = {} /\ asset # RunOver
    BY <1>1 DEF Open, NoAsset, RunOver
<1>3. progress' \in Readings /\ IsFiniteSet(progress'.shards)
  <2>1. MaxAssets \in Nat /\ progress \in Readings
      BY MaterializationAssumption DEF StageInv, StageTyped
  <2>2. progress' \in Readings /\ progress'.shards = {}
      BY <1>1, <2>1 DEF Readings
  <2> QED BY <2>2, FS_EmptySet
<1>4. progress.shards \subseteq Parts \X Labels /\ IsFiniteSet(progress.shards)
    BY DEF StageInv, StageTyped, Readings
<1>5. IsFiniteSet(corpora)
  <2> DEFINE text == [shard \in progress.shards |-> TextPath(shard)]
  <2>1. text \in Surjection(progress.shards, corpora)
      BY DEF Surjection
  <2> HIDE DEF corpora
  <2> QED BY <1>4, <2>1, FS_Surjection
<1>6. \A shard \in progress.shards : TextPath(shard) \in StagePaths
  <2> SUFFICES ASSUME NEW shard \in progress.shards PROVE TextPath(shard) \in StagePaths
      OBVIOUS
  <2> DEFINE folder == shard[1]
             label == IF shard[2] = NoLabel THEN "text" ELSE shard[2]
  <2>1. folder \in Parts /\ label \in Parts
      BY <1>4, NamesAreParts
  <2> HIDE DEF folder, label
  <2>2. <<folder, label>> \in Seq(Parts) /\ Len(<<folder, label>>) = 2
      BY <2>1
  <2> QED BY <2>2 DEF StagePaths, folder, label
<1>7. corpora \subseteq StagePaths
    BY <1>6
<1> HIDE DEF corpora
<1> QED BY <1>1, <1>2, <1>3, <1>5, <1>7, SettleTexts

(* Of the images of an archive no more are kept than are allowed.          *)
LEMMA SelectionFits ==
    ASSUME StageInv, NEW images, IsFiniteSet(images), NEW kept \in Selections(images)
    PROVE  /\ kept \subseteq images /\ IsFiniteSet(kept)
           /\ Cardinality(kept) + Cardinality(tally.images) <= plan.cap
<1> DEFINE left == plan.cap - Cardinality(tally.images)
           n == Cardinality(images)
<1>1. kept \subseteq images /\ Cardinality(kept) = Min({n, Max({0, left})})
    BY DEF Selections, kSubset
<1>2. IsFiniteSet(kept)
    BY <1>1, FS_Subset
<1>3. n \in Nat /\ left \in Nat /\ Cardinality(tally.images) \in Nat /\ plan.cap \in Nat
  <2>1. IsFiniteSet(tally.images) /\ Cardinality(tally.images) <= plan.cap /\ plan.cap \in ImageCaps
      BY DEF StageInv, StageTyped, Accounts, Plans
  <2>2. Cardinality(tally.images) \in Nat /\ n \in Nat
      BY <2>1, FS_CardinalityType
  <2>3. plan.cap \in Nat
      BY <2>1, MaterializationAssumption
  <2> HIDE DEF n
  <2> QED BY <2>1, <2>2, <2>3
<1> HIDE DEF n
<1>4. Max({0, left}) = left
  <2> HIDE DEF left
  <2>1. \A y \in {0, left} : left >= y
      BY <1>3
  <2>2. \A x \in {0, left} : (\A y \in {0, left} : x >= y) => x = left
      BY <1>3
  <2> QED BY <2>1, <2>2 DEF Max
<1>5. Min({n, left}) <= left
  <2> HIDE DEF left
  <2>1. \E x \in {n, left} : \A y \in {n, left} : x <= y
    <3>1. n <= left \/ left <= n
        BY <1>3
    <3> QED BY <1>3, <3>1
  <2>2. \A y \in {n, left} : Min({n, left}) <= y
      BY <2>1 DEF Min
  <2> QED BY <2>2
<1>6. Cardinality(kept) <= left /\ Cardinality(kept) \in Nat
    BY <1>1, <1>2, <1>4, <1>5, FS_CardinalityType
<1> QED BY <1>1, <1>2, <1>3, <1>6

(* An archive ends: what it keeps is settled, the rest has left.           *)
LEMMA EndArchiveStep == ASSUME StageInv, EndArchive PROVE StageInv'
<1> DEFINE members == asset.kept
           images == ImagesOf(members)
           Image(member) == [path |-> member.path, label |-> LabelFor(MemberKey(member.path, asset.name))]
<1>1. /\ asset.kind = "archive" /\ plan' = plan /\ published' = published /\ asset' = NoAsset
      /\ progress' = progress /\ asset # RunOver
    BY DEF EndArchive, RunOver
<1>2. asset \in Archives /\ Open = members /\ Settled = staged \ members /\ Open' = {}
    BY <1>1 DEF Open, Settled, NoAsset, RunOver, RowFiles, StageInv, StageTyped
<1>3. /\ members \subseteq staged /\ IsFiniteSet(members) /\ IsFiniteSet(images)
      /\ images \subseteq members
  <2>1. members \subseteq staged /\ IsFiniteSet(staged) /\ images \subseteq members
      BY <1>2 DEF StageInv, StageTyped, Accounts, ImagesOf
  <2> HIDE DEF members, images
  <2> QED BY <2>1, FS_Subset
<1>4. PICK kept \in Selections(images) :
          /\ tally' = Accounted(members, images, kept, asset.name)
          /\ staged' = staged \ (images \ kept)
    BY <1>1, Zenon DEF EndArchive, Keep, Ledgers, ImagesOf
<1>5. kept \subseteq images /\ IsFiniteSet(kept) /\ Cardinality(kept) + Cardinality(tally.images) <= plan.cap
    BY <1>3, SelectionFits
<1> DEFINE files == members \ (images \ kept)
           new == {Image(member) : member \in kept}
           entries == tally.images \cup new
<1>6. /\ staged' = Settled \cup files /\ Settled \cap files = {}
      /\ ImagesOf(files) = kept /\ files \ ImagesOf(files) = members \ images
  <2>1. ImagesOf(files) = kept
      BY <1>5 DEF ImagesOf
  <2> HIDE DEF images, members
  <2> QED BY <1>2, <1>3, <1>4, <1>5, <2>1
<1>7. IsFiniteSet(files)
  <2>1. files \subseteq members
      OBVIOUS
  <2> HIDE DEF files, members
  <2> QED BY <1>3, <2>1, FS_Subset
<1>8. OneByPath(Settled \cup files)
    BY <1>2, <1>3 DEF StageInv, Accounts, OneByPath
<1>9. \A member \in kept :
          /\ member.path \in StagePaths /\ member \in staged /\ member \notin Settled
          /\ Image(member).path = member.path
          /\ Image(member).label = LabelFor(MemberKey(member.path, asset.name))
          /\ Image(member) \in KeptImages
  <2> SUFFICES ASSUME NEW member \in kept
               PROVE  /\ member.path \in StagePaths /\ member \in staged /\ member \notin Settled
                      /\ Image(member).path = member.path
                      /\ Image(member).label = LabelFor(MemberKey(member.path, asset.name))
                      /\ Image(member) \in KeptImages
      OBVIOUS
  <2>1. member \in members /\ member \in staged /\ member \notin Settled /\ member.path \in StagePaths
      BY <1>2, <1>3, <1>5 DEF StageInv, StageTyped, StagedFiles
  <2>2. LabelFor(MemberKey(member.path, asset.name)) \in Labels
      BY PlanLabels DEF StageInv
  <2> QED BY <2>1, <2>2 DEF KeptImages
<1> HIDE DEF Image
<1>10. \A image \in new : Fits(image.path, image.label) /\ image \in KeptImages
  <2>1. \A member \in kept : Fits(Image(member).path, Image(member).label)
      BY <1>9, PlanLabels DEF StageInv
  <2> QED BY <1>9, <2>1
<1>11. PathsOf(new) = PathsOf(kept)
  <2>1. \A image \in new : image.path \in PathsOf(kept)
      BY <1>9 DEF PathsOf
  <2>2. ASSUME NEW path \in PathsOf(kept) PROVE path \in PathsOf(new)
    <3>1. PICK member \in kept : member.path = path
        BY DEF PathsOf
    <3>2. Image(member) \in new /\ Image(member).path = path
        BY <1>9, <3>1
    <3> HIDE DEF new
    <3> QED BY <3>2 DEF PathsOf
  <2> HIDE DEF new
  <2> QED BY <2>1, <2>2 DEF PathsOf
<1>12. IsFiniteSet(new) /\ Cardinality(new) <= Cardinality(kept)
  <2> DEFINE image == [member \in kept |-> Image(member)]
  <2>1. image \in Surjection(kept, new)
      BY DEF Surjection
  <2> HIDE DEF new
  <2> QED BY <1>5, <2>1, FS_Surjection
<1>13. IsFiniteSet(tally.images) /\ OneByPath(tally.images) /\ tally \in Tallies /\ OneByPath(staged)
       /\ PathsOf(tally.images) = PathsOf(ImagesOf(Settled))
    BY DEF StageInv, StageTyped, Accounts
<1>14. OneByPath(new)
    BY <1>9, <1>13 DEF OneByPath
<1>15. \A i \in tally.images, j \in new : i.path # j.path
  <2> SUFFICES ASSUME NEW i \in tally.images, NEW j \in new, i.path = j.path PROVE FALSE
      OBVIOUS
  <2>1. PICK member \in kept : j = Image(member)
      OBVIOUS
  <2>2. PICK file \in Settled : file.path = i.path
    <3>1. i.path \in PathsOf(tally.images)
        BY DEF PathsOf
    <3> QED BY <1>13, <3>1 DEF PathsOf, ImagesOf
  <2>3. file \in staged /\ file.path = member.path
      BY <1>2, <1>9, <2>1, <2>2
  <2> QED BY <1>9, <1>13, <2>2, <2>3 DEF OneByPath
<1> HIDE DEF new
<1>16. OneByPath(entries) /\ PathsOf(entries) = PathsOf(tally.images) \cup PathsOf(kept)
  <2>1. OneByPath(entries)
      BY <1>13, <1>14, <1>15 DEF OneByPath
  <2>2. PathsOf(entries) = PathsOf(tally.images) \cup PathsOf(new)
      BY DEF PathsOf
  <2> QED BY <1>11, <2>1, <2>2
<1>17. IsFiniteSet(entries) /\ Cardinality(entries) <= plan.cap /\ entries \in SUBSET KeptImages
  <2>1. IsFiniteSet(entries) /\ Cardinality(entries) =
            Cardinality(tally.images) + Cardinality(new) - Cardinality(tally.images \cap new)
      BY <1>12, <1>13, FS_Union
  <2>2. IsFiniteSet(tally.images \cap new)
      BY <1>13, FS_Intersection
  <2>3. /\ Cardinality(tally.images) \in Nat /\ Cardinality(new) \in Nat /\ Cardinality(kept) \in Nat
        /\ Cardinality(tally.images \cap new) \in Nat /\ plan.cap \in Nat
      BY <1>5, <1>12, <1>13, <2>2, FS_CardinalityType, MaterializationAssumption
         DEF StageInv, StageTyped, Plans
  <2>4. Cardinality(entries) <= plan.cap
    <3> HIDE DEF entries
    <3> QED BY <1>5, <1>12, <2>1, <2>3
  <2> QED BY <1>10, <1>13, <2>1, <2>4 DEF Tallies
<1> DEFINE texts == tally.texts + Cardinality(members \ images)
           rejected == tally.rejected + asset.rejected + Cardinality(images \ kept)
<1>18. tally' = [tally EXCEPT !.images = entries, !.texts = texts, !.rejected = rejected]
    BY <1>4, Zenon DEF Accounted, new, Image
<1>19. texts \in Nat /\ rejected \in Nat
  <2>1. IsFiniteSet(members \ images) /\ IsFiniteSet(images \ kept)
    <3>1. members \ images \subseteq members /\ images \ kept \subseteq images
        OBVIOUS
    <3> HIDE DEF members, images
    <3> QED BY <1>3, <3>1, FS_Subset
  <2>2. Cardinality(members \ images) \in Nat /\ Cardinality(images \ kept) \in Nat
      BY <2>1, FS_CardinalityType
  <2>3. tally.texts \in Nat /\ tally.rejected \in Nat /\ asset.rejected \in Nat
      BY <1>2, <1>13 DEF Archives, Tallies
  <2> HIDE DEF members, images
  <2> QED BY <2>2, <2>3
<1> HIDE DEF entries, texts, rejected, images, members, files
<1>20. tally' \in Tallies /\ tally'.images = entries /\ tally'.texts = texts
    BY <1>13, <1>17, <1>18, <1>19 DEF Tallies
<1>21. StageTyped'
  <2>1. IsFiniteSet(staged') /\ staged' \subseteq StagedFiles
    <3>1. staged' \subseteq staged /\ IsFiniteSet(staged) /\ staged \subseteq StagedFiles
        BY <1>4 DEF StageInv, StageTyped
    <3> QED BY <3>1, FS_Subset
  <2> QED BY <1>1, <1>17, <1>20, <2>1 DEF StageInv, StageTyped
<1>22. tally'.texts = tally.texts + Cardinality(files \ ImagesOf(files))
    BY <1>6, <1>20 DEF texts
<1>23. PathsOf(tally'.images) = PathsOf(tally.images) \cup PathsOf(ImagesOf(files))
    BY <1>6, <1>16, <1>20
<1>24. \A image \in tally'.images : image \in tally.images \/ Fits(image.path, image.label)
    BY <1>10, <1>20 DEF entries
<1>25. asset'.kind # "rows"
    BY <1>1 DEF NoAsset
<1> QED BY <1>1, <1>2, <1>6, <1>7, <1>8, <1>16, <1>17, <1>20, <1>21, <1>22, <1>23, <1>24, <1>25,
           SettleStep

(* The stage becomes the published folder, with its marker.                *)
LEMMA PublishSourceStep == ASSUME StageInv, PublishSource PROVE StageInv'
<1>1. /\ asset = NoAsset /\ asset' = RunOver /\ UNCHANGED <<plan, staged, tally, progress>>
      /\ published' = {[files |-> staged, marker |-> Marker]}
    BY DEF PublishSource
<1>2. Open = {} /\ Open' = {} /\ Settled' = Settled
    BY <1>1 DEF Open, Settled, NoAsset, RunOver
<1>3. Marker' = Marker
    BY <1>1 DEF Marker, MetadataRows, Row
<1>4. StageTyped'
    BY <1>1 DEF StageInv, StageTyped
<1>5. Accounts'
    BY <1>1, <1>2 DEF StageInv, Accounts, OneByPath
<1>6. LabelsFit'
    BY <1>1 DEF StageInv, LabelsFit, Fits, OfPlan, LabelledByFolder, ByItself, RunOver
<1>7. PublishedLast'
    BY <1>1, <1>3 DEF PublishedLast
<1> QED BY <1>4, <1>5, <1>6, <1>7 DEF StageInv

(* A run that fails leaves nothing.                                        *)
LEMMA MaterializationFailsStep == ASSUME StageInv, MaterializationFails PROVE StageInv'
<1> DEFINE empty == [images |-> {}, texts |-> 0, rejected |-> 0]
<1>1. /\ asset # RunOver /\ asset' = RunOver /\ UNCHANGED <<plan, progress, published>>
      /\ staged' = {} /\ tally' = empty
    BY DEF MaterializationFails
<1>2. Open' = {} /\ Settled' = {}
    BY <1>1 DEF Open, Settled, RunOver
<1>3. IsFiniteSet({}) /\ Cardinality({}) = 0
    BY FS_EmptySet
<1>4. tally' \in Tallies /\ tally'.images = {} /\ tally'.texts = 0
    BY <1>1 DEF Tallies
<1>5. plan.cap \in Nat
    BY MaterializationAssumption DEF StageInv, StageTyped, Plans
<1>6. StageTyped'
    BY <1>1, <1>3, <1>4 DEF StageInv, StageTyped
<1>7. ImagesOf({}) = {} /\ PathsOf({}) = {}
    BY DEF ImagesOf, PathsOf
<1>8. Accounts'
  <2>1. OneByPath({})
      BY DEF OneByPath
  <2>2. PathsOf(ImagesOf(Settled'))= {} /\ Settled' \ ImagesOf(Settled') = {}
      BY <1>2, <1>7
  <2> QED BY <1>1, <1>2, <1>3, <1>4, <1>5, <1>7, <2>1, <2>2 DEF Accounts
<1>9. LabelsFit'
    BY <1>1, <1>4 DEF LabelsFit, RunOver
<1>10. PublishedLast'
    BY <1>1 DEF StageInv, PublishedLast
<1> QED BY <1>6, <1>8, <1>9, <1>10 DEF StageInv

(* The stage and its account agree through every step.                     *)
LEMMA MaterializationKeepsInv ==
    ASSUME StageInv, [MaterializationNext]_materializationVars
    PROVE  StageInv'
<1>1. CASE \E name \in AssetNames :
               OpenArchive(name) \/ \E folder \in {Head(path) : path \in Paths} :
                                        OpenRows(name, folder) \/ PutAside(name, folder)
  <2>1. PICK name \in AssetNames :
            OpenArchive(name) \/ \E folder \in {Head(path) : path \in Paths} :
                                     OpenRows(name, folder) \/ PutAside(name, folder)
      BY <1>1
  <2>2. CASE \E folder \in {Head(path) : path \in Paths} : OpenRows(name, folder) \/ PutAside(name, folder)
      BY <2>2, OpenRowsStep
  <2>3. CASE OpenArchive(name)
      BY <2>3, OpenArchiveStep
  <2> QED BY <2>1, <2>2, <2>3
<1>2. CASE EndArchive
    BY <1>2, EndArchiveStep
<1>3. CASE EndRows
    BY <1>3, EndRowsStep
<1>4. CASE WriteCorpus
    BY <1>4, WriteCorpusStep
<1>5. CASE PublishSource
    BY <1>5, PublishSourceStep
<1>6. CASE MaterializationFails
    BY <1>6, MaterializationFailsStep
<1>7. CASE \E path \in Paths, kind \in MemberKinds :
               ReadMember(path, kind) \/ (kind # "special" /\ CopyLoose(path, kind))
    BY <1>7, ReadMemberStep, CopyLooseStep
<1>8. CASE \E name \in RowNames, usable \in BOOLEAN : ReadRow(name, usable)
    BY <1>8, ReadRowStep
<1>9. CASE UNCHANGED materializationVars
  <2>1. UNCHANGED <<plan, staged, tally, asset, progress, published>>
      BY <1>9 DEF materializationVars
  <2>2. Marker' = Marker /\ Open' = Open /\ Settled' = Settled
      BY <2>1 DEF Marker, MetadataRows, Row, Open, Settled
  <2>3. StageTyped'
      BY <2>1 DEF StageInv, StageTyped
  <2>4. Accounts'
      BY <2>1, <2>2 DEF StageInv, Accounts, OneByPath
  <2>5. LabelsFit'
      BY <2>1 DEF StageInv, LabelsFit, Fits, OfPlan, LabelledByFolder, ByItself
  <2>6. PublishedLast'
      BY <2>1, <2>2 DEF StageInv, PublishedLast
  <2> QED BY <2>3, <2>4, <2>5, <2>6 DEF StageInv
<1> QED BY <1>1, <1>2, <1>3, <1>4, <1>5, <1>6, <1>7, <1>8, <1>9 DEF MaterializationNext

(* A published source can be prepared: its images are those of its account,*)
(* within the limit and rightly counted, and the metadata that the marker  *)
(* names joins them as the inventory will, when the images in folders have *)
(* their label from the one they lie in (materialization.py, metadata_csv, *)
(* build_marker; dataset_inventory.py).  Every path, label, archive, shard *)
(* and file is an arbitrary one of the constants.                          *)
THEOREM SourcesPrepare == MaterializationSpec => []PublishedSourcePrepares
<1>1. MaterializationInit => StageInv
    BY MaterializationStart
<1>2. StageInv /\ [MaterializationNext]_materializationVars => StageInv'
    BY MaterializationKeepsInv
<1>3. StageInv => PublishedSourcePrepares
    BY StageHolds
<1> QED BY <1>1, <1>2, <1>3, PTL DEF MaterializationSpec
=============================================================================
