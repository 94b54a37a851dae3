-------------------------- MODULE ConfigurationStore --------------------------
(***************************************************************************)
(* The saved settings: the store with its retry results (storage.py), the  *)
(* requests on their way to it, and the settings page of several browser   *)
(* tabs, whose writes race with their reads (configuration_panel.tsx).     *)
(* A value is known by the change that saved it: the number of the         *)
(* accepted change, 0 for the defaults of a new database.                  *)
(***************************************************************************)
EXTENDS Integers, Sequences, FiniteSets, SequencesExt, FiniteSetsExt

CONSTANTS
    Tabs,
    Changes,          \* what a request asks for: a save of some value, or a reset
    Scripts,          \* other API clients, each with one request identifier
    MaxWrites,        \* bound: changes submitted
    MaxRereads        \* bound: reads after the first

VARIABLES
    applied,    \* the accepted changes, by identifier; the last is the configuration
    results,    \* mutation_results: change and response of each identifier
    wire,       \* of each tab, the writes that may still reach the store
    answers,    \* of each tab, the answers to writes under way
    tabs,       \* the page of each tab
    counts      \* counts writes and reads

settingsVars == <<applied, results, wire, answers, tabs, counts>>

NoAttempt == <<>>
NoRead == -1
Asked == -2
Reloaded == [shown |-> NoRead, reading |-> Asked, attempt |-> NoAttempt, write |-> "none",
             confirmed |-> 0]

ASSUME SettingsAssumption == {MaxWrites, MaxRereads} \subseteq Nat

-----------------------------------------------------------------------------
(* The store: one transaction reads the result of the identifier, or       *)
(* writes the configuration and its result                                 *)

\* update_configuration, for an identifier that has no result yet
Update(id, change) ==
    /\ id \notin DOMAIN results
    /\ applied' = Append(applied, id)
    /\ results' = [i \in DOMAIN results \cup {id} |->
                      IF i = id THEN [change |-> change, response |-> Len(applied')]
                      ELSE results[i]]

Repeated(id, change) == id \in DOMAIN results /\ results[id].change = change

\* save_configuration and reset_configuration: the answer is the response, the saved one of
\* an earlier time for a request that is repeated
Respond(t, request) ==
    /\ wire' = [wire EXCEPT ![t] = @ \ {request}]
    /\ answers' = [answers EXCEPT ![t] = @ \cup {[request |-> request,
                                                  version |-> results'[request.id].response]}]
    /\ UNCHANGED <<tabs, counts>>

ServeWrite(t, request) ==
    request \in wire[t] /\ Update(request.id, request.change) /\ Respond(t, request)

ServeRetry(t, request) ==
    /\ request \in wire[t] /\ Repeated(request.id, request.change)
    /\ UNCHANGED <<applied, results>> /\ Respond(t, request)

\* another client; an identifier it used for another change is a conflict, and no step
ServeScript(id, change) ==
    /\ counts.writes < MaxWrites /\ counts' = [counts EXCEPT !.writes = @ + 1]
    /\ Update(id, change)
    /\ UNCHANGED <<wire, answers, tabs>>

-----------------------------------------------------------------------------
(* The settings page *)

Locked(t) == tabs[t].write # "none"

\* onMutate: reads under way are dropped, and the request is sent
Send(t, request) ==
    /\ tabs' = [tabs EXCEPT ![t].reading = NoRead, ![t].attempt = request, ![t].write = "sent"]
    /\ wire' = [wire EXCEPT ![t] = @ \cup {request}]
    /\ UNCHANGED <<applied, results, answers>>

\* submit_change: a new identifier, kept for retries
SubmitChange(t, change) ==
    /\ tabs[t].shown # NoRead /\ ~Locked(t)
    /\ counts.writes < MaxWrites /\ counts' = [counts EXCEPT !.writes = @ + 1]
    /\ Send(t, [id |-> <<t, counts.writes>>, change |-> change])

\* no answer, or one without a verdict: only the same request may be sent again
WriteUncertain(t) ==
    /\ tabs[t].write = "sent"
    /\ tabs' = [tabs EXCEPT ![t].write = "uncertain"]
    /\ answers' = [answers EXCEPT ![t] = {}]
    /\ UNCHANGED <<applied, results, wire, counts>>

RetrySave(t) == tabs[t].write = "uncertain" /\ Send(t, tabs[t].attempt) /\ UNCHANGED counts

\* a fault: a read that began during the write is not cancelled
FaultyConfirmed(tab, version) ==
    [tab EXCEPT !.shown = version, !.attempt = NoAttempt, !.write = "none",
                !.confirmed = Max({@, version})]

\* onSuccess: the answer is shown, reads under way are dropped
Confirmed(tab, version) ==
    [tab EXCEPT !.shown = version, !.reading = NoRead, !.attempt = NoAttempt, !.write = "none",
                !.confirmed = Max({@, version})]

ConfirmSave(t, answer) ==
    /\ tabs[t].write = "sent"
    /\ answer \in answers[t] /\ answer.request = tabs[t].attempt
    /\ tabs' = [tabs EXCEPT ![t] = Confirmed(@, answer.version)]
    /\ answers' = [answers EXCEPT ![t] = {}]
    /\ UNCHANGED <<applied, results, wire, counts>>

\* the query of the page: asked, answered by the store, shown; reloaded on focus
Reread(t) ==
    /\ tabs[t].reading = NoRead
    /\ counts.reads < MaxRereads /\ counts' = [counts EXCEPT !.reads = @ + 1]
    /\ tabs' = [tabs EXCEPT ![t].reading = Asked]
    /\ UNCHANGED <<applied, results, wire, answers>>

ServeRead(t) ==
    /\ tabs[t].reading = Asked
    /\ tabs' = [tabs EXCEPT ![t].reading = Len(applied)]
    /\ UNCHANGED <<applied, results, wire, answers, counts>>

FinishRead(t) ==
    /\ tabs[t].reading \notin {NoRead, Asked}
    /\ tabs' = [tabs EXCEPT ![t].shown = tabs[t].reading, ![t].reading = NoRead]
    /\ UNCHANGED <<applied, results, wire, answers, counts>>

\* the page is loaded again; the attempt is forgotten, its request may still arrive
ReloadSettings(t) ==
    /\ counts.reads < MaxRereads /\ counts' = [counts EXCEPT !.reads = @ + 1]
    /\ tabs' = [tabs EXCEPT ![t] = [Reloaded EXCEPT !.confirmed = tabs[t].confirmed]]
    /\ answers' = [answers EXCEPT ![t] = {}]
    /\ UNCHANGED <<applied, results, wire>>

-----------------------------------------------------------------------------
SettingsInit ==
    /\ applied = <<>> /\ results = <<>>
    /\ wire = [t \in Tabs |-> {}] /\ answers = [t \in Tabs |-> {}]
    /\ tabs = [t \in Tabs |-> Reloaded]
    /\ counts = [writes |-> 0, reads |-> 0]

SettingsNext ==
    \/ \E t \in Tabs :
        \/ \E request \in wire[t] : ServeWrite(t, request) \/ ServeRetry(t, request)
        \/ \E change \in Changes : SubmitChange(t, change)
        \/ \E answer \in answers[t] : ConfirmSave(t, answer)
        \/ WriteUncertain(t) \/ RetrySave(t) \/ ReloadSettings(t)
        \/ Reread(t) \/ ServeRead(t) \/ FinishRead(t)
    \/ \E script \in Scripts, change \in Changes : ServeScript(<<script, 0>>, change)

SettingsSpec == SettingsInit /\ [][SettingsNext]_settingsVars

-----------------------------------------------------------------------------
(* Property *)

\* "Save settings and their retry result together in one transaction" (storage.py) and "A
\* late read must not overwrite the saved result" (configuration_race.test.tsx): a change is
\* applied once however often its request arrives, so a retry never brings back a value
\* that another client has replaced; and a page never shows a value older than the last one
\* it confirmed as saved.  (It may go back to that one: a retry is answered with the
\* response of its first arrival, which a page that has read a later change then shows.)
ConfirmedSettingsStay ==
    /\ IsInjective(applied)
    /\ \A id \in DOMAIN results : applied[results[id].response] = id
    /\ \A t \in Tabs : tabs[t].shown # NoRead => tabs[t].shown >= tabs[t].confirmed
=============================================================================
