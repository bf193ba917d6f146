---------------------------- MODULE SettingsPage ----------------------------
(***************************************************************************)
(* The .env file of an edge, edited from the /setup page in several tabs   *)
(* and by hand over SSH, and the settings in force that follow it          *)
(* (setup_get, setup_post, _env_fingerprint and _write_env_file in         *)
(* settings_api.py; Settings.__init__ and reload in config.py;             *)
(* refresh_base_url in odoo_client.py).                                    *)
(*                                                                         *)
(* A handler awaits only the form, before it looks at the file: no other   *)
(* request is served in between.  The editor over SSH is another process   *)
(* and may write between any two accesses of the handler, and the process  *)
(* may be killed.  Three keys stand for the three kinds there are: the     *)
(* edge's code, which is generated when there is none; a setting that is   *)
(* reloaded; and one that needs a restart (RESTART_REQUIRED_KEYS).  Pages  *)
(* without a fingerprint, which releases before this one rendered, and     *)
(* settings given by the environment of the process are left out.          *)
(***************************************************************************)
EXTENDS Integers

CONSTANTS
  Tabs,       \* browser tabs
  Values,     \* what may be typed
  Bad,        \* typed too, but _validate refuses it
  Default,    \* what _FIELDS gives a key without a value
  Blank,      \* no value
  MaxSubmits, \* bound: forms sent
  MaxEdits,   \* bound: edits over SSH
  MaxStarts   \* bound: process starts

Keys == {"code", "url", "port"}
Codes == 1..MaxStarts  \* "EDGE-" + uuid4: one for each start, fresh

ASSUME SettingsPageAssumption ==
  /\ MaxSubmits \in Nat /\ MaxEdits \in Nat /\ MaxStarts \in Nat \ {0}
  /\ Blank \notin Values \cup Codes \cup {Default, Bad}

VARIABLES
  file,     \* the values in .env; Blank: no line
  running,  \* settings
  base,     \* base_url of the HTTP client to Main
  tabs,     \* what each tab shows, its fingerprint, and what was typed in it
  serving,  \* the request being handled: its tab and what comes next, or None
  settled,  \* history: the file is as the "start" or the last "save" left it, or
            \* somebody or something else changed it: "no"
  spent     \* what has been used of the bounds

vars == <<file, running, base, tabs, serving, settled, spent>>

Stored == Values \cup Codes \cup {Default, Blank}
Idle == [next |-> "idle", tab |-> Blank]

TypeOK ==
  /\ file \in [Keys -> Stored]
  /\ running \in [Keys -> Stored \ {Blank}]
  /\ base \in Stored \ {Blank}
  /\ tabs \in [Tabs -> [loaded : BOOLEAN, raced : BOOLEAN, typed : SUBSET Keys,
                        shown : [Keys -> Stored \cup {Bad}], mark : [Keys -> Stored]]]
  /\ \A t \in Tabs : /\ tabs[t].shown["code"] \in Stored
                     /\ \A k \in Keys \ {"code"} : tabs[t].shown[k] # Blank
  /\ serving \in [next : {"idle", "mark", "write", "reload"}, tab : Tabs \cup {Blank}]
  /\ settled \in {"start", "save", "no"}
  /\ spent \in [submits : 0..MaxSubmits, edits : 0..MaxEdits, starts : 1..MaxStarts]

-----------------------------------------------------------------------------
(* The file and the settings.                                              *)

\* A setting the process starts with: a code is generated where none is given.
AtStart(k, v, start) ==
  IF v # Blank THEN v ELSE IF k = "code" THEN start ELSE Default

\* Mutant: a key without a value is shown as it is.
AsItIs(f) == f

\* _current_values.
CurrentValues(f) ==
  [k \in Keys |-> IF f[k] = Blank /\ k # "code" THEN Default ELSE f[k]]

\* Mutant: a code that is left blank is written blank.
WrittenBlank(values) == values

\* What is written for a code that is left blank: the one in force.
WithCode(values) ==
  IF values["code"] = Blank THEN [values EXCEPT !["code"] = running["code"]] ELSE values

\* Settings.reload: a key without a line in the file keeps what os.environ had.
Reloaded(f) ==
  [k \in Keys |-> IF k = "port" \/ f[k] = Blank THEN running[k] ELSE f[k]]

\* Mutant: the HTTP client keeps the URL it was made with.
Baked(url) == base

\* refresh_base_url.
Refreshed(url) == url

\* _validate.
Valid(values) == values["url"] # Bad /\ values["port"] # Bad

-----------------------------------------------------------------------------
Fresh == [loaded |-> FALSE, shown |-> CurrentValues([k \in Keys |-> Blank]),
          mark |-> [k \in Keys |-> Blank], typed |-> {}, raced |-> FALSE]

\* The file is a copy of .env.example, with a code or without.
Init ==
  /\ \E code \in Values \cup {Blank} :
       file = [k \in Keys |-> IF k = "code" THEN code ELSE Default]
  /\ running = [k \in Keys |-> AtStart(k, file[k], 1)]
  /\ base = running["url"]
  /\ tabs = [t \in Tabs |-> Fresh]
  /\ serving = Idle
  /\ settled = "start"
  /\ spent = [submits |-> 0, edits |-> 0, starts |-> 1]

Then(next, t) == serving' = [next |-> next, tab |-> t]

\* setup_get reads the values it renders,
Load(t) ==
  /\ serving.next = "idle"
  /\ tabs' = [tabs EXCEPT ![t].shown = CurrentValues(file), ![t].typed = {},
                          ![t].raced = FALSE]
  /\ Then("mark", t)
  /\ UNCHANGED <<file, running, base, settled, spent>>

\* and then, in _render like every answer, the fingerprint.
Mark(t) ==
  /\ serving = [next |-> "mark", tab |-> t]
  /\ tabs' = [tabs EXCEPT ![t].mark = file, ![t].loaded = TRUE]
  /\ serving' = Idle
  /\ UNCHANGED <<file, running, base, settled, spent>>

\* Mutant: the page that says so shows what was submitted.
ShowsSubmitted(tab, values) == [tab EXCEPT !.shown = values]

\* The tab after its save is refused for a stale fingerprint: 409.
Conflict(tab, values) ==
  [tab EXCEPT !.shown = CurrentValues(file), !.typed = {}, !.raced = FALSE]

\* setup_post up to the write: one more key is changed and the form is sent.
Submit(t, k, v) ==
  /\ serving.next = "idle"
  /\ tabs[t].loaded
  /\ spent.submits < MaxSubmits
  /\ spent' = [spent EXCEPT !.submits = @ + 1]
  /\ LET values == [tabs[t].shown EXCEPT ![k] = v]
         filled == [tabs[t] EXCEPT !.shown = values, !.typed = @ \cup {k}]
     IN \/ /\ tabs[t].mark # file
           /\ tabs' = [tabs EXCEPT ![t] = Conflict(filled, values)]
           /\ Then("mark", t)
        \/ /\ tabs[t].mark = file
           /\ tabs' = [tabs EXCEPT ![t] = filled]
           /\ Then(IF Valid(values) THEN "write" ELSE "mark", t)
  /\ UNCHANGED <<file, running, base, settled>>

\* _write_env_file.
Write(t) ==
  /\ serving = [next |-> "write", tab |-> t]
  /\ file' = WithCode(tabs[t].shown)
  /\ settled' = "save"
  /\ Then("reload", t)
  /\ UNCHANGED <<running, base, tabs, spent>>

\* The file is truncated and then written: in between some lines are gone.
Torn(t) ==
  /\ \E lost \in SUBSET Keys :
       file' = [k \in Keys |-> IF k \in lost THEN Blank ELSE WithCode(tabs[t].shown)[k]]
  /\ settled' = "no"

\* The file cannot be opened, or the disk is full: 500.
WriteFails(t) ==
  /\ serving = [next |-> "write", tab |-> t]
  /\ UNCHANGED <<file, settled>> \/ Torn(t)
  /\ tabs' = [tabs EXCEPT ![t].shown = CurrentValues(file'), ![t].typed = {},
                          ![t].raced = FALSE]
  /\ Then("mark", t)
  /\ UNCHANGED <<running, base, spent>>

\* reload_settings and refresh_base_url; the page shows what was written.
Reload(t) ==
  /\ serving = [next |-> "reload", tab |-> t]
  /\ running' = Reloaded(file)
  /\ base' = Refreshed(running'["url"])
  /\ tabs' = [tabs EXCEPT ![t].shown = WithCode(@), ![t].typed = {},
                          ![t].raced = (settled = "no")]
  /\ Then("mark", t)
  /\ UNCHANGED <<file, settled, spent>>

\* Somebody changes a line of the file over SSH, or takes it out.
EditBySsh(k, v) ==
  /\ spent.edits < MaxEdits
  /\ spent' = [spent EXCEPT !.edits = @ + 1]
  /\ file[k] # v
  /\ file' = [file EXCEPT ![k] = v]
  /\ settled' = "no"
  /\ tabs' = IF serving.next = "idle" THEN tabs
             ELSE [tabs EXCEPT ![serving.tab].raced = TRUE]
  /\ UNCHANGED <<running, base, serving>>

\* The process is killed, perhaps while it writes the file, and starts again.  A
\* tab that waited for its save still has the form it sent.
Restart ==
  /\ spent.starts < MaxStarts
  /\ spent' = [spent EXCEPT !.starts = @ + 1]
  /\ UNCHANGED <<file, settled>> \/ (serving.next = "write" /\ Torn(serving.tab))
  /\ running' = [k \in Keys |-> AtStart(k, file'[k], spent'.starts)]
  /\ base' = running'["url"]
  /\ tabs' = [t \in Tabs |->
                IF serving = [next |-> "mark", tab |-> t] THEN Fresh ELSE tabs[t]]
  /\ serving' = Idle

Page(t) ==
  \/ Load(t) \/ Mark(t) \/ Write(t) \/ WriteFails(t) \/ Reload(t)
  \/ \E k \in Keys \ {"code"}, v \in Values \cup {Bad} : Submit(t, k, v)
  \/ \E v \in Values \cup {Blank} : Submit(t, "code", v)

Next ==
  \/ \E t \in Tabs : Page(t)
  \/ \E k \in Keys, v \in Values \cup {Blank} : EditBySsh(k, v)
  \/ Restart

Spec == Init /\ [][Next]_vars

-----------------------------------------------------------------------------
(* Properties.                                                             *)

\* The setting a file stands for, in the running process.
Means(f, k) ==
  IF f[k] # Blank THEN f[k] ELSE IF k = "code" THEN running["code"] ELSE Default

(***************************************************************************)
(* A save changes the settings typed in its tab and no other, whatever     *)
(* other tabs saved and whoever edited the file since the page was loaded, *)
(* and through the pages that refuse a save and offer another             *)
(* (settings_api.py:408-416 and 883-889).  Excepted is an edit by another  *)
(* process while the handler itself is between two accesses of the file.   *)
(***************************************************************************)
NoLostEdit ==
  [][\A t \in Tabs :
       Write(t) /\ ~tabs[t].raced =>
         \A k \in Keys \ tabs[t].typed : file'[k] = Means(file, k)]_vars

(***************************************************************************)
(* The edge keeps its identity: once a save or a start has left the file,  *)
(* a restart runs under the code that is in force, also when the code was  *)
(* generated and the form leaves it blank (settings_api.py:904-911).       *)
(* A process that started without a code in the file, and was not saved    *)
(* since, is the exception.                                                *)
(***************************************************************************)
IdentityKept ==
  [][/\ spent'.starts # spent.starts
     /\ settled' = "save" \/ (settled' = "start" /\ file["code"] # Blank)
     /\ serving.next # "reload"
     => running'["code"] = running["code"]]_vars

(***************************************************************************)
(* Between requests, unless the file was edited by hand, the settings that *)
(* are reloaded are those of the file and calls go to the Main they name   *)
(* (config.py:108-134, odoo_client.py:38-44).                              *)
(***************************************************************************)
FileInForce ==
  settled # "no" /\ serving.next # "reload" =>
    /\ running["url"] = Means(file, "url") /\ running["code"] = Means(file, "code")
    /\ base = running["url"]
=============================================================================
