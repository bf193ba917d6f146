---------------------------- MODULE SettingsProofs ----------------------------
(***************************************************************************)
(* SettingsPage keeps its types, no save changes what was not typed, the   *)
(* settings in force are those of the file and the edge keeps its code,    *)
(* for every set of tabs and values and every number of forms, edits and   *)
(* starts.                                                                 *)
(***************************************************************************)
EXTENDS SettingsPage, TLAPS

\* A request that is being handled is one of a tab.
Serving == serving.next # "idle" => serving.tab \in Tabs

\* What is written is valid, and until then the file is the one the page was
\* rendered from, unless another process came in between.
Accepted ==
  /\ serving.next \in {"write", "reload"} => Valid(tabs[serving.tab].shown)
  /\ serving.next = "write" /\ ~tabs[serving.tab].raced => tabs[serving.tab].mark = file

\* What a save leaves in the file.
Saved ==
  /\ settled = "save" => \A k \in Keys : file[k] # Blank
  /\ serving.next = "reload" =>
       /\ settled # "start"
       /\ settled = "save" => file = WithCode(tabs[serving.tab].shown)

\* Where nothing was typed a tab shows what its fingerprint stands for.
Forms ==
  \A t \in Tabs : ~tabs[t].raced /\ serving # [next |-> "mark", tab |-> t] =>
    \A k \in Keys \ tabs[t].typed : tabs[t].shown[k] = CurrentValues(tabs[t].mark)[k]

\* Until the fingerprint is taken: what the file has.
Rendering ==
  serving.next = "mark" /\ ~tabs[serving.tab].raced =>
    \A k \in Keys \ tabs[serving.tab].typed :
      tabs[serving.tab].shown[k] = CurrentValues(file)[k]

IInv == TypeOK /\ Serving /\ Accepted /\ Saved /\ Forms /\ Rendering /\ FileInForce

-----------------------------------------------------------------------------
(* The operators on files and forms.                                       *)

Settings == [Keys -> Stored \ {Blank}]
Form == [loaded : BOOLEAN, raced : BOOLEAN, typed : SUBSET Keys,
         shown : [Keys -> Stored \cup {Bad}], mark : [Keys -> Stored]]
Full(shown) == /\ shown["code"] \in Stored
               /\ \A k \in Keys \ {"code"} : shown[k] # Blank

\* What a page shows of a file is complete but for the code.
LEMMA ShownOf ==
  ASSUME NEW f \in [Keys -> Stored]
  PROVE  /\ CurrentValues(f) \in [Keys -> Stored]
         /\ Full(CurrentValues(f))
<1>1. Default \in Stored /\ Default # Blank
  BY SettingsPageAssumption DEF Stored
<1>. QED
  BY <1>1 DEF CurrentValues, Full, Keys

\* What is written is complete, and a setting for each key.
LEMMA WrittenOf ==
  ASSUME running \in Settings, NEW f \in [Keys -> Stored \cup {Bad}], Valid(f), Full(f)
  PROVE  WithCode(f) \in Settings
<1>1. \A k \in Keys : f[k] \in Stored
  BY DEF Valid, Full, Keys
<1>2. "code" \in Keys
  BY DEF Keys
<1>3. CASE f["code"] = Blank
  <2>1. WithCode(f) = [f EXCEPT !["code"] = running["code"]]
    BY <1>3 DEF WithCode
  <2>. QED
    BY <1>1, <1>2, <2>1 DEF Settings, Full
<1>4. CASE f["code"] # Blank
  <2>1. WithCode(f) = f
    BY <1>4 DEF WithCode
  <2>. QED
    BY <1>1, <1>4, <2>1 DEF Settings, Full
<1>. QED
  BY <1>3, <1>4

-----------------------------------------------------------------------------
(* Types.                                                                  *)

\* The type of a tab's form, as the steps change it.
LEMMA FormTyped ==
  ASSUME TypeOK, NEW t \in Tabs
  PROVE  tabs[t] \in Form /\ Full(tabs[t].shown)
  BY DEF TypeOK, Form, Full

\* A step that changes the form of one tab and leaves the others.
LEMMA TabsTyped ==
  ASSUME TypeOK, NEW t \in Tabs, NEW form \in Form, Full(form.shown),
         tabs' = [tabs EXCEPT ![t] = form]
  PROVE  /\ tabs' \in [Tabs -> Form]
         /\ \A u \in Tabs : Full(tabs'[u].shown)
<1>1. tabs \in [Tabs -> Form]
  BY DEF TypeOK, Form
<1>2. \A u \in Tabs : tabs'[u] = IF u = t THEN form ELSE tabs[u]
  BY <1>1
<1>. QED
  BY <1>1, <1>2, FormTyped

\* What remains of TypeOK once the tabs are typed.
LEMMA TypeRest ==
  ASSUME file' \in [Keys -> Stored], running' \in Settings, base' \in Stored \ {Blank},
         tabs' \in [Tabs -> Form], \A u \in Tabs : Full(tabs'[u].shown),
         serving' \in [next : {"idle", "mark", "write", "reload"}, tab : Tabs \cup {Blank}],
         settled' \in {"start", "save", "no"},
         spent' \in [submits : 0..MaxSubmits, edits : 0..MaxEdits, starts : 1..MaxStarts]
  PROVE  TypeOK'
  BY DEF TypeOK, Form, Full, Settings
\* The first page, and the settings a start takes from the file.
LEMMA FreshTyped == Fresh \in Form /\ Full(Fresh.shown)
<1>1. [k \in Keys |-> Blank] \in [Keys -> Stored]
  BY DEF Stored
<1>. QED
  BY <1>1, ShownOf DEF Fresh, Form

LEMMA StartTyped ==
  ASSUME NEW f \in [Keys -> Stored], NEW n \in 1..MaxStarts
  PROVE  [k \in Keys |-> AtStart(k, f[k], n)] \in Settings
<1>1. Default \in Stored \ {Blank} /\ n \in Stored \ {Blank}
  BY SettingsPageAssumption DEF Stored, Codes
<1>. QED
  BY <1>1 DEF AtStart, Settings

LEMMA TypeInit == Init => TypeOK
<1>. SUFFICES ASSUME Init PROVE TypeOK
  OBVIOUS
<1>1. file \in [Keys -> Stored]
  BY DEF Init, Stored
<1>2. running \in Settings
  <2>1. 1 \in 1..MaxStarts
    BY SettingsPageAssumption
  <2>. QED
    BY <1>1, <2>1, StartTyped DEF Init
<1>3. base \in Stored \ {Blank}
  BY <1>2 DEF Init, Settings, Keys
<1>4. tabs \in [Tabs -> Form] /\ \A u \in Tabs : Full(tabs[u].shown)
  BY FreshTyped DEF Init
<1>5. serving \in [next : {"idle", "mark", "write", "reload"}, tab : Tabs \cup {Blank}]
  BY DEF Init, Idle
<1>6. settled \in {"start", "save", "no"}
  BY DEF Init
<1>7. spent \in [submits : 0..MaxSubmits, edits : 0..MaxEdits, starts : 1..MaxStarts]
  BY SettingsPageAssumption DEF Init
<1>. QED
  BY <1>1, <1>2, <1>3, <1>4, <1>5, <1>6, <1>7 DEF TypeOK, Form, Full, Settings

LEMMA TypeLoad ==
  ASSUME TypeOK, NEW t \in Tabs, Load(t)
  PROVE  TypeOK'
<1>. DEFINE form == [tabs[t] EXCEPT !.shown = CurrentValues(file), !.typed = {},
                                    !.raced = FALSE]
<1>1. form \in Form /\ Full(form.shown)
  <2>1. tabs[t] \in Form
    BY FormTyped
  <2>2. CurrentValues(file) \in [Keys -> Stored] /\ Full(CurrentValues(file))
    BY ShownOf DEF TypeOK
  <2>. QED
    BY <2>1, <2>2 DEF Form
<1>2. tabs' = [tabs EXCEPT ![t] = form]
  BY DEF Load, TypeOK
<1>3. serving' \in [next : {"idle", "mark", "write", "reload"}, tab : Tabs \cup {Blank}]
  BY DEF Load, Then
<1>. QED
  BY <1>1, <1>2, <1>3, TabsTyped, TypeRest DEF Load, TypeOK, Settings

LEMMA TypeMark ==
  ASSUME TypeOK, NEW t \in Tabs, Mark(t)
  PROVE  TypeOK'
<1>. DEFINE form == [tabs[t] EXCEPT !.mark = file, !.loaded = TRUE]
<1>1. form \in Form /\ Full(form.shown)
  <2>1. tabs[t] \in Form /\ Full(tabs[t].shown)
    BY FormTyped
  <2>2. file \in [Keys -> Stored]
    BY DEF TypeOK
  <2>. QED
    BY <2>1, <2>2 DEF Form
<1>2. tabs' = [tabs EXCEPT ![t] = form]
  BY DEF Mark, TypeOK
<1>3. serving' \in [next : {"idle", "mark", "write", "reload"}, tab : Tabs \cup {Blank}]
  BY DEF Mark, Idle
<1>. QED
  BY <1>1, <1>2, <1>3, TabsTyped, TypeRest DEF Mark, TypeOK, Settings
\* What may be typed in a field.
Typable(k, v) ==
  \/ k \in Keys \ {"code"} /\ v \in Values \cup {Bad}
  \/ k = "code" /\ v \in Values \cup {Blank}

\* A form with one more field changed is still a form.
LEMMA FilledTyped ==
  ASSUME TypeOK, NEW t \in Tabs, NEW k, NEW v, Typable(k, v),
         NEW values, values = [tabs[t].shown EXCEPT ![k] = v]
  PROVE  /\ values \in [Keys -> Stored \cup {Bad}] /\ Full(values)
         /\ [tabs[t] EXCEPT !.shown = values, !.typed = @ \cup {k}] \in Form
<1>1. tabs[t] \in Form /\ Full(tabs[t].shown)
  BY FormTyped
<1>2. k \in Keys /\ v \in Stored \cup {Bad}
  BY DEF Typable, Keys, Stored
<1>3. values \in [Keys -> Stored \cup {Bad}]
  BY <1>1, <1>2 DEF Form
<1>4. Full(values)
  <2>1. \A j \in Keys : values[j] = IF j = k THEN v ELSE tabs[t].shown[j]
    BY <1>1 DEF Form
  <2>2. k # "code" => v # Blank
    BY SettingsPageAssumption DEF Typable
  <2>3. k = "code" => v \in Stored
    BY DEF Typable, Stored, Keys
  <2>4. "code" \in Keys
    BY DEF Keys
  <2>. QED
    BY <1>1, <2>1, <2>2, <2>3, <2>4 DEF Full
<1>5. tabs[t].typed \cup {k} \in SUBSET Keys
  BY <1>1, <1>2 DEF Form
<1>. QED
  BY <1>1, <1>3, <1>4, <1>5 DEF Form

LEMMA TypeSubmit ==
  ASSUME TypeOK, NEW t \in Tabs, NEW k, NEW v, Typable(k, v), Submit(t, k, v)
  PROVE  TypeOK'
<1>. DEFINE values == [tabs[t].shown EXCEPT ![k] = v]
            filled == [tabs[t] EXCEPT !.shown = values, !.typed = @ \cup {k}]
            refused == Conflict(filled, values)
<1>1. filled \in Form /\ Full(filled.shown)
  <2>1. /\ values \in [Keys -> Stored \cup {Bad}] /\ Full(values)
        /\ filled \in Form
    BY FilledTyped
  <2>2. tabs[t] \in Form
    BY FormTyped
  <2>3. filled.shown = values
    BY <2>2 DEF Form
  <2>. QED
    BY <2>1, <2>3
<1>2. refused \in Form /\ Full(refused.shown)
  <2>1. CurrentValues(file) \in [Keys -> Stored] /\ Full(CurrentValues(file))
    BY ShownOf DEF TypeOK
  <2>. HIDE DEF filled
  <2>. QED
    BY <1>1, <2>1 DEF Conflict, Form
<1>3. \E form \in {filled, refused} : tabs' = [tabs EXCEPT ![t] = form]
  BY DEF Submit
<1>4. tabs' \in [Tabs -> Form] /\ \A u \in Tabs : Full(tabs'[u].shown)
  BY <1>1, <1>2, <1>3, TabsTyped
<1>5. serving' \in [next : {"idle", "mark", "write", "reload"}, tab : Tabs \cup {Blank}]
  BY DEF Submit, Then
<1>6. spent' \in [submits : 0..MaxSubmits, edits : 0..MaxEdits, starts : 1..MaxStarts]
  <2>1. spent.submits + 1 \in 0..MaxSubmits
    BY SettingsPageAssumption DEF Submit, TypeOK
  <2>. QED
    BY <2>1 DEF Submit, TypeOK
<1>. QED
  BY <1>4, <1>5, <1>6, TypeRest DEF Submit, TypeOK, Settings

LEMMA WriteTyped ==
  ASSUME TypeOK, Accepted, NEW t \in Tabs, NEW next \in {"write", "reload"},
         serving = [next |-> next, tab |-> t]
  PROVE  /\ Valid(tabs[t].shown)
         /\ WithCode(tabs[t].shown) \in Settings
<1>1. Valid(tabs[t].shown)
  BY DEF Accepted
<1>. QED
  BY <1>1, WrittenOf, FormTyped DEF TypeOK, Form, Settings

LEMMA TypeWrite ==
  ASSUME TypeOK, Accepted, NEW t \in Tabs, Write(t)
  PROVE  TypeOK'
<1>1. file' \in [Keys -> Stored]
  BY WriteTyped DEF Write, Settings
<1>2. tabs' \in [Tabs -> Form] /\ \A u \in Tabs : Full(tabs'[u].shown)
  BY FormTyped DEF Write, TypeOK, Form
<1>3. serving' \in [next : {"idle", "mark", "write", "reload"}, tab : Tabs \cup {Blank}]
  BY DEF Write, Then
<1>. QED
  BY <1>1, <1>2, <1>3, TypeRest DEF Write, TypeOK, Settings

LEMMA TornTyped ==
  ASSUME TypeOK, Accepted, NEW t \in Tabs, serving = [next |-> "write", tab |-> t], Torn(t)
  PROVE  file' \in [Keys -> Stored] /\ settled' = "no"
<1>1. Blank \in Stored
  BY DEF Stored
<1>. QED
  BY <1>1, WriteTyped DEF Torn, Settings

LEMMA TypeWriteFails ==
  ASSUME TypeOK, Accepted, NEW t \in Tabs, WriteFails(t)
  PROVE  TypeOK'
<1>. DEFINE form == [tabs[t] EXCEPT !.shown = CurrentValues(file'), !.typed = {},
                                    !.raced = FALSE]
<1>1. file' \in [Keys -> Stored] /\ settled' \in {"start", "save", "no"}
  BY TornTyped DEF WriteFails, TypeOK
<1>2. form \in Form /\ Full(form.shown)
  BY <1>1, FormTyped, ShownOf DEF Form
<1>3. tabs' = [tabs EXCEPT ![t] = form]
  BY DEF WriteFails
<1>4. serving' \in [next : {"idle", "mark", "write", "reload"}, tab : Tabs \cup {Blank}]
  BY DEF WriteFails, Then
<1>. QED
  BY <1>1, <1>2, <1>3, <1>4, TabsTyped, TypeRest DEF WriteFails, TypeOK, Settings

LEMMA TypeReload ==
  ASSUME TypeOK, Accepted, NEW t \in Tabs, Reload(t)
  PROVE  TypeOK'
<1>. DEFINE form == [tabs[t] EXCEPT !.shown = WithCode(@), !.typed = {},
                                    !.raced = (settled = "no")]
<1>1. WithCode(tabs[t].shown) \in Settings
  BY WriteTyped DEF Reload
<1>2. Full(WithCode(tabs[t].shown))
  BY <1>1 DEF Settings, Full, Keys
<1>3. form \in Form /\ Full(form.shown)
  BY <1>1, <1>2, FormTyped DEF Form, Settings
<1>4. tabs' = [tabs EXCEPT ![t] = form]
  BY DEF Reload
<1>5. running' \in Settings /\ base' \in Stored \ {Blank}
  BY DEF Reload, Reloaded, Refreshed, TypeOK, Settings, Keys
<1>6. serving' \in [next : {"idle", "mark", "write", "reload"}, tab : Tabs \cup {Blank}]
  BY DEF Reload, Then
<1>. QED
  BY <1>3, <1>4, <1>5, <1>6, TabsTyped, TypeRest DEF Reload, TypeOK

LEMMA TypeEdit ==
  ASSUME TypeOK, Serving, NEW k \in Keys, NEW v \in Values \cup {Blank}, EditBySsh(k, v)
  PROVE  TypeOK'
<1>1. file' \in [Keys -> Stored]
  BY DEF EditBySsh, TypeOK, Stored
<1>2. tabs' \in [Tabs -> Form] /\ \A u \in Tabs : Full(tabs'[u].shown)
  <2>1. CASE serving.next = "idle"
    BY <2>1, FormTyped DEF EditBySsh, TypeOK, Form
  <2>2. CASE serving.next # "idle"
    <3>1. PICK t \in Tabs : t = serving.tab
      BY <2>2 DEF Serving
    <3>. DEFINE form == [tabs[t] EXCEPT !.raced = TRUE]
    <3>2. form \in Form /\ Full(form.shown)
      BY FormTyped DEF Form
    <3>3. tabs' = [tabs EXCEPT ![t] = form]
      BY <2>2, <3>1 DEF EditBySsh
    <3>. QED
      BY <3>2, <3>3, TabsTyped
  <2>. QED
    BY <2>1, <2>2
<1>3. spent' \in [submits : 0..MaxSubmits, edits : 0..MaxEdits, starts : 1..MaxStarts]
  <2>1. spent.edits + 1 \in 0..MaxEdits
    BY SettingsPageAssumption DEF EditBySsh, TypeOK
  <2>. QED
    BY <2>1 DEF EditBySsh, TypeOK
<1>. QED
  BY <1>1, <1>2, <1>3, TypeRest DEF EditBySsh, TypeOK, Settings

LEMMA TypeRestart ==
  ASSUME TypeOK, Serving, Accepted, Restart
  PROVE  TypeOK'
<1>1. file' \in [Keys -> Stored] /\ settled' \in {"start", "save", "no"}
  <2>1. CASE UNCHANGED <<file, settled>>
    BY <2>1 DEF TypeOK
  <2>2. CASE serving.next = "write" /\ Torn(serving.tab)
    <3>1. PICK t \in Tabs : t = serving.tab
      BY <2>2 DEF Serving
    <3>2. serving = [next |-> "write", tab |-> t]
      BY <2>2, <3>1 DEF TypeOK
    <3>. QED
      BY <2>2, <3>1, <3>2, TornTyped
  <2>. QED
    BY <2>1, <2>2 DEF Restart
<1>2. spent'.starts \in 1..MaxStarts
      /\ spent' \in [submits : 0..MaxSubmits, edits : 0..MaxEdits, starts : 1..MaxStarts]
  <2>1. spent.starts + 1 \in 1..MaxStarts
    BY SettingsPageAssumption DEF Restart, TypeOK
  <2>. QED
    BY <2>1 DEF Restart, TypeOK
<1>3. running' \in Settings
  BY <1>1, <1>2, StartTyped DEF Restart
<1>4. base' \in Stored \ {Blank}
  BY <1>3 DEF Restart, Settings, Keys
<1>5. tabs' \in [Tabs -> Form] /\ \A u \in Tabs : Full(tabs'[u].shown)
  BY FreshTyped, FormTyped DEF Restart
<1>6. serving' \in [next : {"idle", "mark", "write", "reload"}, tab : Tabs \cup {Blank}]
  BY DEF Restart, Idle
<1>. QED
  BY <1>1, <1>2, <1>3, <1>4, <1>5, <1>6, TypeRest

-----------------------------------------------------------------------------
(* The invariant, one lemma for each step.                                 *)

Rest == Serving /\ Accepted /\ Saved /\ Forms /\ Rendering /\ FileInForce

LEMMA RestInit == Init => Rest
<1>. SUFFICES ASSUME Init PROVE Rest
  OBVIOUS
<1>1. serving.next = "idle" /\ settled = "start"
  BY DEF Init, Idle
<1>2. Serving /\ Accepted /\ Saved /\ Rendering
  BY <1>1 DEF Serving, Accepted, Saved, Rendering
<1>3. Forms
  BY DEF Init, Forms, Fresh
<1>4. FileInForce
  BY DEF Init, FileInForce, Means, AtStart, Keys
<1>. QED
  BY <1>2, <1>3, <1>4 DEF Rest

LEMMA LoadStep ==
  ASSUME TypeOK, Rest, NEW t \in Tabs, Load(t)
  PROVE  Rest'
<1>1. /\ serving.next = "idle" /\ serving' = [next |-> "mark", tab |-> t]
      /\ UNCHANGED <<file, running, base, settled>>
  BY DEF Load, Then
<1>2. \A u \in Tabs : tabs'[u] = IF u = t
        THEN [tabs[t] EXCEPT !.shown = CurrentValues(file), !.typed = {}, !.raced = FALSE]
        ELSE tabs[u]
  BY DEF Load, TypeOK
<1>3. tabs'[t].shown = CurrentValues(file)
  BY <1>2, FormTyped DEF Form
<1>4. Serving' /\ Accepted'
  BY <1>1 DEF Serving, Accepted
<1>5. Saved' /\ FileInForce'
  BY <1>1 DEF Rest, Saved, FileInForce, Means
<1>6. Forms'
  BY <1>1, <1>2 DEF Rest, Forms
<1>7. Rendering'
  BY <1>1, <1>3 DEF Rendering
<1>. QED
  BY <1>4, <1>5, <1>6, <1>7 DEF Rest

LEMMA MarkStep ==
  ASSUME TypeOK, Rest, NEW t \in Tabs, Mark(t)
  PROVE  Rest'
<1>1. /\ serving = [next |-> "mark", tab |-> t] /\ serving' = Idle
      /\ UNCHANGED <<file, running, base, settled>>
  BY DEF Mark
<1>2. /\ \A u \in Tabs \ {t} : tabs'[u] = tabs[u]
      /\ tabs'[t].mark = file /\ tabs'[t].shown = tabs[t].shown
      /\ tabs'[t].typed = tabs[t].typed /\ tabs'[t].raced = tabs[t].raced
  BY FormTyped DEF Mark, TypeOK, Form
<1>3. Serving' /\ Accepted' /\ Rendering'
  BY <1>1 DEF Serving, Accepted, Rendering, Idle
<1>4. Saved' /\ FileInForce'
  BY <1>1 DEF Rest, Saved, FileInForce, Means, Idle
<1>5. Forms'
  <2>1. ASSUME NEW u \in Tabs \ {t}, ~tabs'[u].raced
        PROVE  \A k \in Keys \ tabs'[u].typed :
                 tabs'[u].shown[k] = CurrentValues(tabs'[u].mark)[k]
    <3>1. serving # [next |-> "mark", tab |-> u] /\ tabs'[u] = tabs[u]
      BY <1>1, <1>2
    <3>. QED
      BY <2>1, <3>1 DEF Rest, Forms
  <2>2. ASSUME ~tabs'[t].raced
        PROVE  \A k \in Keys \ tabs'[t].typed :
                 tabs'[t].shown[k] = CurrentValues(tabs'[t].mark)[k]
    BY <1>1, <1>2, <2>2 DEF Rest, Rendering
  <2>. QED
    BY <2>1, <2>2 DEF Forms
<1>. QED
  BY <1>3, <1>4, <1>5 DEF Rest

LEMMA SubmitStep ==
  ASSUME TypeOK, Rest, NEW t \in Tabs, NEW k, NEW v, Typable(k, v), Submit(t, k, v)
  PROVE  Rest'
<1>. DEFINE values == [tabs[t].shown EXCEPT ![k] = v]
            filled == [tabs[t] EXCEPT !.shown = values, !.typed = @ \cup {k}]
            refused == Conflict(filled, values)
<1>1. serving.next = "idle" /\ UNCHANGED <<file, running, base, settled>>
  BY DEF Submit
<1>2. \/ /\ tabs' = [tabs EXCEPT ![t] = refused]
         /\ serving' = [next |-> "mark", tab |-> t]
      \/ /\ tabs[t].mark = file /\ tabs' = [tabs EXCEPT ![t] = filled]
         /\ \/ Valid(values) /\ serving' = [next |-> "write", tab |-> t]
            \/ serving' = [next |-> "mark", tab |-> t]
  BY DEF Submit, Then
<1>3. /\ filled.shown = values /\ filled.typed = tabs[t].typed \cup {k}
      /\ filled.raced = tabs[t].raced /\ filled.mark = tabs[t].mark
      /\ refused.shown = CurrentValues(file)
  BY FormTyped DEF Form, Conflict
<1>4. \A j \in Keys \ filled.typed : values[j] = tabs[t].shown[j]
  BY <1>3, FormTyped DEF Form
<1>5. \A form : tabs' = [tabs EXCEPT ![t] = form] =>
        tabs'[t] = form /\ \A u \in Tabs \ {t} : tabs'[u] = tabs[u]
  BY DEF TypeOK
<1>. HIDE DEF values, filled, refused
<1>6. /\ serving'.next \in {"mark", "write"} /\ serving'.tab = t
      /\ serving' \in [next : {"mark", "write"}, tab : Tabs]
  BY <1>2
<1>7. ~filled.raced => \A j \in Keys \ filled.typed : filled.shown[j] = CurrentValues(filled.mark)[j]
  BY <1>1, <1>3, <1>4 DEF Rest, Forms
<1>8. Serving'
  BY <1>6 DEF Serving
<1>9. Accepted'
  BY <1>1, <1>2, <1>3, <1>5, <1>6 DEF Accepted
<1>10. Saved' /\ FileInForce'
  BY <1>1, <1>6 DEF Rest, Saved, FileInForce, Means
<1>11. Forms'
  BY <1>1, <1>2, <1>5, <1>7 DEF Rest, Forms
<1>12. Rendering'
  BY <1>1, <1>2, <1>3, <1>5, <1>6, <1>7 DEF Rendering
<1>. QED
  BY <1>8, <1>9, <1>10, <1>11, <1>12 DEF Rest

LEMMA WriteStep ==
  ASSUME TypeOK, Rest, NEW t \in Tabs, Write(t)
  PROVE  Rest'
<1>1. /\ serving = [next |-> "write", tab |-> t] /\ serving' = [next |-> "reload", tab |-> t]
      /\ file' = WithCode(tabs[t].shown) /\ settled' = "save"
      /\ UNCHANGED <<running, base, tabs>>
  BY DEF Write, Then
<1>2. Serving' /\ Rendering' /\ FileInForce'
  BY <1>1 DEF Serving, Rendering, FileInForce
<1>3. Accepted'
  BY <1>1 DEF Rest, Accepted
<1>4. Saved'
  <2>1. \A k \in Keys : file'[k] # Blank
    BY <1>1, WriteTyped DEF Rest, Settings
  <2>. QED
    BY <1>1, <2>1 DEF Saved, WithCode
<1>5. Forms'
  BY <1>1 DEF Rest, Forms
<1>. QED
  BY <1>2, <1>3, <1>4, <1>5 DEF Rest

LEMMA WriteFailsStep ==
  ASSUME TypeOK, Rest, NEW t \in Tabs, WriteFails(t)
  PROVE  Rest'
<1>1. /\ serving = [next |-> "write", tab |-> t] /\ serving' = [next |-> "mark", tab |-> t]
      /\ settled' # "no" => UNCHANGED <<file, settled>>
      /\ UNCHANGED <<running, base>>
  BY DEF WriteFails, Then, Torn
<1>2. \A u \in Tabs \ {t} : tabs'[u] = tabs[u]
  BY DEF WriteFails, TypeOK
<1>3. tabs'[t].shown = CurrentValues(file')
  BY FormTyped DEF WriteFails, TypeOK, Form
<1>4. Serving' /\ Accepted'
  BY <1>1 DEF Serving, Accepted
<1>5. Saved' /\ FileInForce'
  BY <1>1 DEF Rest, Saved, FileInForce, Means
<1>6. Forms'
  BY <1>1, <1>2 DEF Rest, Forms
<1>7. Rendering'
  BY <1>1, <1>3 DEF Rendering
<1>. QED
  BY <1>4, <1>5, <1>6, <1>7 DEF Rest

LEMMA ReloadStep ==
  ASSUME TypeOK, Rest, NEW t \in Tabs, Reload(t)
  PROVE  Rest'
<1>1. /\ serving = [next |-> "reload", tab |-> t] /\ serving' = [next |-> "mark", tab |-> t]
      /\ UNCHANGED <<file, settled>>
      /\ running' = Reloaded(file) /\ base' = running'["url"]
  BY DEF Reload, Then, Refreshed
<1>2. \A u \in Tabs \ {t} : tabs'[u] = tabs[u]
  BY DEF Reload, TypeOK
<1>3. tabs'[t].shown = WithCode(tabs[t].shown) /\ tabs'[t].raced = (settled = "no")
  BY FormTyped DEF Reload, TypeOK, Form
<1>4. settled # "no" =>
        settled = "save" /\ file = WithCode(tabs[t].shown) /\ \A k \in Keys : file[k] # Blank
  BY <1>1 DEF Rest, Saved, TypeOK
<1>5. Serving' /\ Accepted'
  BY <1>1 DEF Serving, Accepted
<1>6. Saved'
  BY <1>1, <1>4 DEF Saved
<1>7. FileInForce'
  <2>1. settled # "no" => \A k \in {"code", "url"} : running'[k] = file[k] /\ file[k] # Blank
    BY <1>1, <1>4 DEF Reloaded, Keys
  <2>. QED
    BY <1>1, <2>1 DEF FileInForce, Means
<1>8. Forms'
  BY <1>1, <1>2 DEF Rest, Forms
<1>9. Rendering'
  <2>1. settled # "no" => \A k \in Keys : CurrentValues(file)[k] = file[k]
    BY <1>4 DEF CurrentValues
  <2>. QED
    BY <1>1, <1>3, <1>4, <2>1 DEF Rendering
<1>. QED
  BY <1>5, <1>6, <1>7, <1>8, <1>9 DEF Rest

\* The tab whose request is being handled no longer counts.
LEMMA EditStep ==
  ASSUME TypeOK, Rest, NEW k \in Keys, NEW v \in Values \cup {Blank}, EditBySsh(k, v)
  PROVE  Rest'
<1>1. settled' = "no" /\ UNCHANGED <<running, base, serving>>
  BY DEF EditBySsh
<1>2. \A t \in Tabs : IF serving.next # "idle" /\ t = serving.tab
                      THEN tabs'[t] = [tabs[t] EXCEPT !.raced = TRUE]
                      ELSE tabs'[t] = tabs[t]
  BY DEF EditBySsh, TypeOK
<1>3. \A t \in Tabs : /\ tabs'[t].shown = tabs[t].shown /\ tabs'[t].mark = tabs[t].mark
                      /\ tabs'[t].typed = tabs[t].typed
                      /\ ~tabs'[t].raced => tabs'[t] = tabs[t]
                      /\ serving.next # "idle" /\ t = serving.tab => tabs'[t].raced
  BY <1>2, FormTyped DEF Form
<1>4. Serving' /\ Saved' /\ FileInForce'
  BY <1>1 DEF Rest, Serving, Saved, FileInForce
<1>5. Accepted' /\ Rendering'
  BY <1>1, <1>3 DEF Rest, Serving, Accepted, Rendering
<1>6. Forms'
  BY <1>1, <1>3 DEF Rest, Forms
<1>. QED
  BY <1>4, <1>5, <1>6 DEF Rest

LEMMA RestartStep ==
  ASSUME TypeOK, Rest, Restart
  PROVE  Rest'
<1>1. /\ serving' = Idle /\ serving'.next = "idle"
      /\ settled' # "no" => UNCHANGED <<file, settled>>
      /\ \A k \in Keys : running'[k] = AtStart(k, file'[k], spent'.starts)
      /\ base' = running'["url"]
  BY DEF Restart, Idle, Torn
<1>2. \A t \in Tabs : tabs'[t] = IF serving = [next |-> "mark", tab |-> t] THEN Fresh ELSE tabs[t]
  BY DEF Restart
<1>3. Serving' /\ Accepted' /\ Rendering'
  BY <1>1 DEF Serving, Accepted, Rendering
<1>4. Saved'
  BY <1>1 DEF Rest, Saved
<1>5. FileInForce'
  BY <1>1 DEF FileInForce, Means, AtStart, Keys
<1>6. Forms'
  <2>1. \A k \in Keys : Fresh.shown[k] = CurrentValues(Fresh.mark)[k]
    BY DEF Fresh
  <2>. QED
    BY <1>1, <1>2, <2>1 DEF Rest, Forms
<1>. QED
  BY <1>3, <1>4, <1>5, <1>6 DEF Rest

\* The steps, as Next takes them apart.
LEMMA Steps ==
  ASSUME Next
  PROVE  \/ \E t \in Tabs : \/ Load(t) \/ Mark(t) \/ Write(t) \/ WriteFails(t) \/ Reload(t)
                            \/ \E k, v : Typable(k, v) /\ Submit(t, k, v)
         \/ \E k \in Keys, v \in Values \cup {Blank} : EditBySsh(k, v)
         \/ Restart
  BY DEF Next, Page, Typable

LEMMA Inductive == IInv /\ [Next]_vars => IInv'
<1>. SUFFICES ASSUME TypeOK, Rest, [Next]_vars PROVE TypeOK' /\ Rest'
  BY DEF IInv, Rest
<1>0. Serving /\ Accepted
  BY DEF Rest
<1>1. ASSUME NEW t \in Tabs, Load(t) PROVE TypeOK' /\ Rest'
  BY <1>1, TypeLoad, LoadStep
<1>2. ASSUME NEW t \in Tabs, Mark(t) PROVE TypeOK' /\ Rest'
  BY <1>2, TypeMark, MarkStep
<1>3. ASSUME NEW t \in Tabs, NEW k, NEW v, Typable(k, v), Submit(t, k, v)
      PROVE  TypeOK' /\ Rest'
  BY <1>3, TypeSubmit, SubmitStep
<1>4. ASSUME NEW t \in Tabs, Write(t) PROVE TypeOK' /\ Rest'
  BY <1>0, <1>4, TypeWrite, WriteStep
<1>5. ASSUME NEW t \in Tabs, WriteFails(t) PROVE TypeOK' /\ Rest'
  BY <1>0, <1>5, TypeWriteFails, WriteFailsStep
<1>6. ASSUME NEW t \in Tabs, Reload(t) PROVE TypeOK' /\ Rest'
  BY <1>0, <1>6, TypeReload, ReloadStep
<1>7. ASSUME NEW k \in Keys, NEW v \in Values \cup {Blank}, EditBySsh(k, v)
      PROVE  TypeOK' /\ Rest'
  BY <1>0, <1>7, TypeEdit, EditStep
<1>8. CASE Restart
  BY <1>0, <1>8, TypeRestart, RestartStep
<1>9. CASE UNCHANGED vars
  <2>1. TypeOK'
    BY <1>9 DEF vars, TypeOK
  <2>2. Serving' /\ Accepted' /\ Saved'
    BY <1>9 DEF vars, Rest, Serving, Accepted, Saved, WithCode
  <2>3. Forms' /\ Rendering' /\ FileInForce'
    BY <1>9 DEF vars, Rest, Forms, Rendering, FileInForce, Means
  <2>. QED
    BY <2>1, <2>2, <2>3 DEF Rest
<1>. QED
  BY <1>1, <1>2, <1>3, <1>4, <1>5, <1>6, <1>7, <1>8, <1>9, Steps

-----------------------------------------------------------------------------
(* The theorems.                                                           *)

\* The inductive invariant: forms follow their fingerprints, and the file the
\* last save (settings_api.py:860-937).
THEOREM PageInductive == Spec => []IInv
<1>1. Init => IInv
  BY TypeInit, RestInit DEF Rest, IInv
<1>. QED
  BY <1>1, Inductive, PTL DEF Spec

\* File, settings and forms keep their types.
THEOREM PageTyped == Spec => []TypeOK
<1>1. IInv => TypeOK
  BY DEF IInv
<1>. QED
  BY <1>1, PageInductive, PTL

\* Between requests the settings in force are those of the file, and calls go to
\* the Main they name (config.py:108-134, odoo_client.py:38-44).
THEOREM FileAlwaysInForce == Spec => []FileInForce
<1>1. IInv => FileInForce
  BY DEF IInv
<1>. QED
  BY <1>1, PageInductive, PTL

\* A save changes what was typed in its tab and nothing else
\* (settings_api.py:876-898).
THEOREM NoEditIsLost == Spec => NoLostEdit
<1>1. ASSUME IInv, NEW t \in Tabs, Write(t), ~tabs[t].raced,
             NEW k \in Keys \ tabs[t].typed
      PROVE  file'[k] = Means(file, k)
  <2>1. serving = [next |-> "write", tab |-> t] /\ file' = WithCode(tabs[t].shown)
    BY <1>1 DEF Write
  <2>2. tabs[t].mark = file
    BY <1>1, <2>1 DEF IInv, Accepted
  <2>3. \A j \in Keys \ tabs[t].typed : tabs[t].shown[j] = CurrentValues(file)[j]
    BY <1>1, <2>1, <2>2 DEF IInv, Forms
  <2>4. tabs[t].shown \in [Keys -> Stored \cup {Bad}]
    BY <1>1, FormTyped DEF IInv, Form
  <2>5. CASE k = "code"
    BY <1>1, <2>1, <2>3, <2>4, <2>5 DEF CurrentValues, WithCode, Means
  <2>6. CASE k # "code"
    BY <1>1, <2>1, <2>3, <2>4, <2>6 DEF CurrentValues, WithCode, Means
  <2>. QED
    BY <2>5, <2>6
<1>2. IInv /\ [Next]_vars =>
        [\A t \in Tabs : Write(t) /\ ~tabs[t].raced =>
           \A k \in Keys \ tabs[t].typed : file'[k] = Means(file, k)]_vars
  BY <1>1
<1>. QED
  BY <1>2, PageInductive, PTL DEF Spec, NoLostEdit

\* A restart runs under the code that was in force (settings_api.py:904-911).
THEOREM IdentityAlwaysKept == Spec => IdentityKept
<1>. DEFINE Kept == /\ spent'.starts # spent.starts
                    /\ settled' = "save" \/ (settled' = "start" /\ file["code"] # Blank)
                    /\ serving.next # "reload"
                    => running'["code"] = running["code"]
<1>1. ASSUME IInv, Next, spent'.starts # spent.starts,
             settled' = "save" \/ (settled' = "start" /\ file["code"] # Blank),
             serving.next # "reload"
      PROVE  running'["code"] = running["code"]
  <2>1. Restart
    <3>1. \A t \in Tabs : ~Load(t) /\ ~Mark(t) /\ ~Write(t) /\ ~WriteFails(t) /\ ~Reload(t)
      BY <1>1 DEF Load, Mark, Write, WriteFails, Reload
    <3>2. \A t \in Tabs : \A k, v : ~Submit(t, k, v)
      BY <1>1 DEF IInv, TypeOK, Submit
    <3>3. \A k, v : ~EditBySsh(k, v)
      BY <1>1 DEF IInv, TypeOK, EditBySsh
    <3>. QED
      BY <1>1, <3>1, <3>2, <3>3, Steps
  <2>2. UNCHANGED <<file, settled>>
    BY <1>1, <2>1 DEF Restart, Torn
  <2>3. file["code"] # Blank
    BY <1>1, <2>2 DEF IInv, Saved, Keys
  <2>4. running["code"] = file["code"]
    BY <1>1, <2>2, <2>3 DEF IInv, FileInForce, Means
  <2>. QED
    BY <2>1, <2>2, <2>3, <2>4 DEF Restart, AtStart, Keys
<1>2. IInv /\ [Next]_vars => [Kept]_vars
  BY <1>1
<1>. QED
  BY <1>2, PageInductive, PTL DEF Spec, IdentityKept
=============================================================================
