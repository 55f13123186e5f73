------------------------------- MODULE Settings -------------------------------
(***************************************************************************)
(* Devices and settings of one account: device-settings-store.ts on the     *)
(* server; on each phone the settings screen (settings-route.tsx), the part *)
(* of a synchronization that registers the phone and reads the settings     *)
(* (authenticated-sync-runtime.ts), the diagnostics switch and the language. *)
(*                                                                         *)
(* A transaction of the server is a step, and so is each answer.  All       *)
(* phones are signed in and in the foreground.  The language is TRUE for    *)
(* the one the phone does not begin with.  The numbers in `edition` are not  *)
(* in the code.                                                            *)
(***************************************************************************)
EXTENDS Naturals, FiniteSets

CONSTANTS
    Handsets,    \* phones of the account
    Switches,    \* settings the screen changes
    Home, Away,  \* time zones; every phone begins at home
    MaxCalls,    \* bound: calls of the screen under way on a phone
    MaxTaps,     \* bound: times the screen is opened or used
    MaxTrips,    \* bound: phones that change zone
    MaxFaults    \* bound: failed calls and runs, and killed apps

\* What the screen offers.
Offered == {"trustMode", "diagnosticsEnabled", "language"}

ASSUME SwitchesAreOffered == Switches \subseteq Offered
ASSUME ZonesDiffer == Home # Away /\ "UTC" \notin {Home, Away}

VARIABLES
    row,        \* user_settings of the account
    recorded,   \* recorded[h]: time_zone of the phone's row in devices
    here,       \* here[h]: the zone the phone is in
    seen,       \* seen[h]: accountSettings of the screen
    capturing,  \* capturing[h]: rootDiagnosticsRuntime.isEnabled()
    kept,       \* kept[h]: the settings in local_accounts
    language,   \* language[h]: the language the app shows
    calls,      \* calls[h]: calls of the screen
    runs,       \* runs[h]: synchronizations under way
    taps, trips, faults

server == <<row, recorded>>
screen == <<seen, capturing, language, calls>>
settingsVars == <<server, screen, here, kept, runs, taps, trips, faults>>

NoZone == "none"
NoRow == [edition |-> 0]

\* A row as the INSERTs make it: trust mode off, diagnostics on, English.
NewRow(zone) ==
    [edition |-> 1, zone |-> zone,
     is |-> [s \in Switches |-> s = "diagnosticsEnabled"]]
RowOr(zone) == IF row = NoRow THEN NewRow(zone) ELSE row

\* A call of the screen: a read of all settings, or a change of one.
Call(about, value) == [about |-> about, at |-> "asked", value |-> value, row |-> NoRow]
\* A synchronization and who waits for it.
Run(by, zone) == [at |-> "register", by |-> by, zone |-> zone, row |-> NoRow]

SettingsInit ==
    /\ row = NoRow /\ recorded = [h \in Handsets |-> NoZone]
    /\ here = [h \in Handsets |-> Home]
    /\ seen = [h \in Handsets |-> NoRow] /\ kept = [h \in Handsets |-> NoRow]
    /\ capturing = [h \in Handsets |-> TRUE]
    /\ language = [h \in Handsets |-> FALSE]
    /\ calls = [h \in Handsets |-> {}] /\ runs = [h \in Handsets |-> {}]
    /\ taps = 0 /\ trips = 0 /\ faults = 0

Becomes(h, c, d) == calls' = [calls EXCEPT ![h] = (@ \ {c}) \union {d}]
Drop(h, c) == calls' = [calls EXCEPT ![h] = @ \ {c}]
Busy(h, s) == \E c \in calls[h] : c.about = s
Fault == faults < MaxFaults /\ faults' = faults + 1

(***************************************************************************)
(* The server.  Reading the settings of an account makes its row, with the  *)
(* zone of the column's default; so does changing one.                     *)
(***************************************************************************)
GetAccountSettings(h, c) ==
    /\ c.at = "asked" /\ c.about = "all"
    /\ row' = RowOr("UTC")
    /\ Becomes(h, c, [c EXCEPT !.at = "answered", !.row = row'])
    /\ UNCHANGED <<recorded, seen, capturing, language,
                   here, kept, runs, taps, trips, faults>>

\* COALESCE of the change and the row.
UpdatedRow(c) == [RowOr("UTC") EXCEPT !.is[c.about] = c.value, !.edition = @ + 1]

UpdateAccountSettings(h, c) ==
    /\ c.at = "asked" /\ c.about \in Switches
    /\ row' = UpdatedRow(c)
    /\ Becomes(h, c, [c EXCEPT !.at = "answered", !.row = row'])
    /\ UNCHANGED <<recorded, seen, capturing, language,
                   here, kept, runs, taps, trips, faults>>

\* A phone that was registered in another zone brings its zone with it; a new
\* phone gives its zone only to an account without settings.
RegisteredRow(h, zone) ==
    CASE recorded[h] = NoZone -> RowOr(zone)
      [] recorded[h] = zone -> row
      [] OTHER -> [RowOr(zone) EXCEPT !.zone = zone, !.edition = @ + 1]

RegisterDevice(h, r) ==
    /\ r.at = "register"
    /\ recorded' = [recorded EXCEPT ![h] = r.zone]
    /\ row' = RegisteredRow(h, r.zone)
    /\ runs' = [runs EXCEPT ![h] = (@ \ {r}) \union {[r EXCEPT !.at = "settings"]}]
    /\ UNCHANGED <<screen, here, kept, taps, trips, faults>>

(***************************************************************************)
(* The settings screen.                                                    *)
(***************************************************************************)
\* refresh, when the screen opens and when the app becomes active.
Refresh(h) ==
    /\ Cardinality(calls[h]) < MaxCalls
    /\ taps < MaxTaps /\ taps' = taps + 1
    /\ calls' = [calls EXCEPT ![h] = @ \union {Call("all", FALSE)}]
    /\ UNCHANGED <<server, seen, capturing, language,
                   here, kept, runs, trips, faults>>

LoadAccountSettings(h, c) ==
    /\ c.at = "answered" /\ c.about = "all"
    /\ capturing' = [capturing EXCEPT ![h] =
           IF "diagnosticsEnabled" \in Switches THEN c.row.is["diagnosticsEnabled"] ELSE TRUE]
    /\ seen' = [seen EXCEPT ![h] = c.row]
    /\ Drop(h, c)
    /\ UNCHANGED <<server, language, here, kept, runs, taps, trips, faults>>

\* A change of s is asked for; while it is under way there is no other of s.
ChangeSwitch(h, s, value) ==
    /\ ~Busy(h, s) /\ Cardinality(calls[h]) < MaxCalls
    /\ taps < MaxTaps /\ taps' = taps + 1
    /\ calls' = [calls EXCEPT ![h] = @ \union {Call(s, value)}]
    /\ UNCHANGED <<server, here, kept, runs, trips, faults>>

\* updateTrustMode: the switch is off until the settings are there.
UpdateTrustMode(h) ==
    /\ "trustMode" \in Switches /\ seen[h] # NoRow
    /\ ChangeSwitch(h, "trustMode", ~seen[h].is["trustMode"])
    /\ UNCHANGED <<seen, capturing, language>>

\* updateLanguage to another language than the settings of the screen have.
UpdateLanguage(h) ==
    /\ "language" \in Switches
    /\ \E value \in BOOLEAN :
           /\ ~(seen[h] # NoRow /\ seen[h].is["language"] = value)
           /\ ChangeSwitch(h, "language", value)
    /\ UNCHANGED <<seen, capturing, language>>

\* updateDiagnostics: the app does what was chosen before the server knows it.
UpdateDiagnostics(h) ==
    /\ "diagnosticsEnabled" \in Switches /\ seen[h] # NoRow
    /\ ChangeSwitch(h, "diagnosticsEnabled", ~seen[h].is["diagnosticsEnabled"])
    /\ capturing' = [capturing EXCEPT ![h] = ~seen[h].is["diagnosticsEnabled"]]
    /\ seen' = [seen EXCEPT ![h].is["diagnosticsEnabled"] = ~@]
    /\ UNCHANGED language

\* Choosing the language the screen has shows it at once.
ChooseSameLanguage(h) ==
    /\ "language" \in Switches /\ seen[h] # NoRow /\ ~Busy(h, "language")
    /\ taps < MaxTaps /\ taps' = taps + 1
    /\ language[h] # seen[h].is["language"]
    /\ language' = [language EXCEPT ![h] = seen[h].is["language"]]
    /\ UNCHANGED <<server, seen, capturing, calls,
                   here, kept, runs, trips, faults>>

\* The language of an answer is shown at once.
Publish(h, c) == IF c.about = "language" THEN c.row.is["language"] ELSE language[h]
\* The answer to a change: the whole row, then a synchronization.
Updated(h, c) ==
    /\ c.at = "answered" /\ c.about \in Switches
    /\ seen' = [seen EXCEPT ![h] = c.row]
    /\ language' = [language EXCEPT ![h] = Publish(h, c)]
    /\ Becomes(h, c, [c EXCEPT !.at = "sync", !.row = NoRow])
    /\ UNCHANGED <<server, capturing, here, kept, runs, taps, trips, faults>>

\* A call that failed on its way or whose answer was lost.  Nothing is undone.
CallFails(h, c) ==
    /\ c.at \in {"asked", "answered"} /\ Fault
    /\ Drop(h, c)
    /\ UNCHANGED <<server, seen, capturing, language,
                   here, kept, runs, taps, trips>>

(***************************************************************************)
(* A synchronization, as far as devices and settings go.  runTail keeps the *)
(* runs of a phone apart; which one is next is left open.                  *)
(***************************************************************************)
\* Mutant: a run starts beside another.
Beside(h) == TRUE
Turn(h) == runs[h] = {}
Start(h, by) ==
    /\ Turn(h)
    /\ by \in Switches => \E c \in calls[h] : c.about = by /\ c.at = "sync"
    /\ runs' = [runs EXCEPT ![h] = @ \union {Run(by, here[h])}]
    /\ UNCHANGED <<server, screen, here, kept, taps, trips, faults>>

ReadSettings(h, r) ==
    /\ r.at = "settings"
    /\ row' = RowOr("UTC")
    /\ runs' = [runs EXCEPT ![h] = (@ \ {r}) \union {[r EXCEPT !.at = "apply", !.row = row']}]
    /\ UNCHANGED <<recorded, screen, here, kept, taps, trips, faults>>

\* Mutant: an account that is there keeps its settings.
KeepFirst(h, r) == IF kept[h] = NoRow THEN r.row ELSE kept[h]
Keep(h, r) == r.row
ApplyAccountSettings(h, r) ==
    /\ r.at = "apply"
    /\ capturing' = [capturing EXCEPT ![h] =
           IF "diagnosticsEnabled" \in Switches THEN r.row.is["diagnosticsEnabled"] ELSE TRUE]
    /\ kept' = [kept EXCEPT ![h] = Keep(h, r)]
    /\ runs' = [runs EXCEPT ![h] = (@ \ {r}) \union {[r EXCEPT !.at = "rest"]}]
    /\ UNCHANGED <<server, seen, language, calls,
                   here, taps, trips, faults>>

\* The change that waited for the run is over, whether the run failed or not.
Release(h, r) == calls' = [calls EXCEPT ![h] = {c \in @ : ~(c.about = r.by /\ c.at = "sync")}]

EndRun(h, r) ==
    /\ r.at = "rest"
    /\ Release(h, r)
    /\ runs' = [runs EXCEPT ![h] = @ \ {r}]
    /\ UNCHANGED <<server, seen, capturing, language,
                   here, kept, taps, trips, faults>>

\* A call of the run, its answer, or anything after them fails.
RunFails(h, r) ==
    /\ Fault
    /\ Release(h, r)
    /\ runs' = [runs EXCEPT ![h] = @ \ {r}]
    /\ UNCHANGED <<server, seen, capturing, language,
                   here, kept, taps, trips>>

(***************************************************************************)
(* The rest of the phone.                                                  *)
(***************************************************************************)
\* refreshLanguage, every minute.
RefreshLanguage(h) ==
    /\ "language" \in Switches /\ kept[h] # NoRow
    /\ language[h] # kept[h].is["language"]
    /\ language' = [language EXCEPT ![h] = kept[h].is["language"]]
    /\ UNCHANGED <<server, seen, capturing, calls,
                   here, kept, runs, taps, trips, faults>>

Travel(h) ==
    /\ trips < MaxTrips /\ trips' = trips + 1
    /\ here' = [here EXCEPT ![h] = IF @ = Home THEN Away ELSE Home]
    /\ UNCHANGED <<server, screen, kept, runs, taps, faults>>

\* The app is killed and opened again.  Diagnostics are on until told otherwise.
Restart(h) ==
    /\ Fault
    /\ seen' = [seen EXCEPT ![h] = NoRow]
    /\ capturing' = [capturing EXCEPT ![h] = TRUE]
    /\ language' = [language EXCEPT ![h] = FALSE]
    /\ calls' = [calls EXCEPT ![h] = {}] /\ runs' = [runs EXCEPT ![h] = {}]
    /\ UNCHANGED <<server, here, kept, taps, trips>>

CallStep(h) ==
    \E c \in calls[h] :
        \/ GetAccountSettings(h, c) \/ UpdateAccountSettings(h, c)
        \/ LoadAccountSettings(h, c) \/ Updated(h, c)
RunStep(h) ==
    \E r \in runs[h] :
        \/ RegisterDevice(h, r) \/ ReadSettings(h, r)
        \/ ApplyAccountSettings(h, r) \/ EndRun(h, r)
Callers == Switches \union {"gate"}

SettingsNext ==
    \E h \in Handsets :
        \/ CallStep(h) \/ RunStep(h) \/ RefreshLanguage(h)
        \/ \E by \in Callers : Start(h, by)
        \/ \E c \in calls[h] : CallFails(h, c)
        \/ \E r \in runs[h] : RunFails(h, r)
        \/ Refresh(h) \/ UpdateTrustMode(h) \/ UpdateLanguage(h)
        \/ UpdateDiagnostics(h) \/ ChooseSameLanguage(h)
        \/ Travel(h) \/ Restart(h)

SettingsSpec == SettingsInit /\ [][SettingsNext]_settingsVars

\* Calls are answered or fail; a run goes on; the gate asks for a run each
\* minute, which runTail serves in its turn; the language is read each minute.
SettingsFairness ==
    \A h \in Handsets :
        /\ WF_settingsVars(CallStep(h)) /\ WF_settingsVars(RunStep(h))
        /\ SF_settingsVars(Start(h, "gate"))
        /\ WF_settingsVars(RefreshLanguage(h))

FairSettings == SettingsSpec /\ SettingsFairness

(***************************************************************************)
(* Properties.                                                             *)
(***************************************************************************)
\* What a phone keeps never gives way to settings that are older than it,
\* however runs, changes and other phones interleave.
KeptIsNewest == [][\A h \in Handsets : kept[h]'.edition >= kept[h].edition]_settingsVars

\* When changes, journeys and faults end, every phone comes to keep the settings
\* of the account, to show its language, and to capture diagnostics only if it
\* may; the account comes to the zone of one of its phones, unless none of them
\* has travelled since its row was made with the zone of the column's default.
SettingsSettle ==
    <>[](/\ row # NoRow
         /\ row.zone \in {here[h] : h \in Handsets} \union {"UTC"}
         /\ \A h \in Handsets :
               /\ recorded[h] = here[h] /\ kept[h] = row
               /\ "language" \in Switches => language[h] = row.is["language"]
               /\ "diagnosticsEnabled" \in Switches
                      => capturing[h] = row.is["diagnosticsEnabled"])
=============================================================================
