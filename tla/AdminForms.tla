----------------------------- MODULE AdminForms -----------------------------
(***************************************************************************)
(* The forms of the administrators' pages.  One form serves to create rows *)
(* and to edit each of those listed: opening it copies the listed row and  *)
(* remembers which row that is.  An image is uploaded while the rest is    *)
(* typed, and its address is put in the form when the answer comes.  A     *)
(* save sends what the form held when it was clicked; its answer closes    *)
(* the form and has the list loaded again.  On the banners page every form *)
(* is a component of its own.  A form's number stands for what was typed   *)
(* in it, and for the image uploaded from it.                              *)
(***************************************************************************)
EXTENDS Integers, Sequences, FiniteSets

CONSTANTS
    MaxRows,   \* bound on the rows
    MaxForms   \* bound on the times a form is opened

ASSUME FormAssumption == MaxRows \in Nat /\ MaxForms \in Nat

\* own: a component per form; forgets: a closed form forgets its row; uploads: has a file to choose.
TransparencyForm == [name |-> "transparency", own |-> FALSE, forgets |-> FALSE, uploads |-> TRUE]
BroadcastForm == [name |-> "broadcast", own |-> FALSE, forgets |-> TRUE, uploads |-> FALSE]
OfferMinerForm == [name |-> "offer miner", own |-> FALSE, forgets |-> TRUE, uploads |-> TRUE]
BannerFormView == [name |-> "banner", own |-> TRUE, forgets |-> TRUE, uploads |-> TRUE]
FormViews == {TransparencyForm, BroadcastForm, OfferMinerForm, BannerFormView}

VARIABLES
    formView,
    saved,      \* rows of the server: the form each was saved from, and its image
    screen,     \* rows as listed
    form,
    uploads,    \* forms whose upload is not answered yet
    saving,     \* the form as it was when the save was clicked
    intent,     \* history: the row each form was opened for, 0 for a new one
    made,       \* history: the form each row was created from
    crossed     \* history: an upload was answered when another form was open

formVars == <<formView, saved, screen, form, uploads, saving, intent, made, crossed>>

RowIds == 1..MaxRows
Unsaved == [by |-> 0, image |-> 0]
NoForm == [open |-> FALSE, target |-> 0, no |-> 0, image |-> 0]

FormInit ==
    /\ formView \in FormViews
    /\ saved = [i \in RowIds |-> Unsaved]
    /\ screen = saved
    /\ form = NoForm /\ saving = NoForm
    /\ uploads = {} /\ intent = <<>>
    /\ made = [i \in RowIds |-> 0]
    /\ crossed = FALSE

Opens(target, image) ==
    /\ Len(intent) < MaxForms
    /\ form' = [open |-> TRUE, target |-> target, no |-> Len(intent) + 1, image |-> image]
    /\ UNCHANGED <<formView, saved, screen, uploads, saving, crossed, made>>

CreateInEdited ==
    /\ Opens(form.target, 0)
    /\ intent' = Append(intent, 0)

OpenCreate ==
    /\ Opens(0, 0)
    /\ intent' = Append(intent, 0)

OpenEdit(i) ==
    /\ screen[i] # Unsaved
    /\ Opens(i, screen[i].image)
    /\ intent' = Append(intent, i)

CloseForm ==
    /\ form.open
    /\ form' = IF formView.forgets THEN NoForm ELSE [form EXCEPT !.open = FALSE]
    /\ UNCHANGED <<formView, saved, screen, uploads, saving, intent, crossed, made>>

\* handleFile, handleImageUpload, handleUpload: the button waits for the answer.
Upload ==
    /\ formView.uploads /\ form.open /\ form.no \notin uploads
    /\ uploads' = uploads \cup {form.no}
    /\ UNCHANGED <<formView, saved, screen, form, saving, intent, crossed, made>>

UploadArrivesAnywhere(n) ==
    /\ form' = [form EXCEPT !.image = n]
    /\ crossed' = (crossed \/ (~formView.own /\ form.open /\ form.no # n))
    /\ uploads' = uploads \ {n}
    /\ UNCHANGED <<formView, saved, screen, saving, intent, made>>

\* A component that is gone drops the answer; a shared form takes it.
UploadArrives(n) ==
    /\ form' = IF formView.own /\ form.no # n THEN form ELSE [form EXCEPT !.image = n]
    /\ crossed' = (crossed \/ (~formView.own /\ form.open /\ form.no # n))
    /\ uploads' = uploads \ {n}
    /\ UNCHANGED <<formView, saved, screen, saving, intent, made>>

UploadFails(n) ==
    /\ uploads' = uploads \ {n}
    /\ UNCHANGED <<formView, saved, screen, form, saving, intent, crossed, made>>

\* The save button is disabled while a save is under way.
Save ==
    /\ form.open /\ ~saving.open
    /\ saving' = form
    /\ UNCHANGED <<formView, saved, screen, form, uploads, intent, crossed, made>>

AfterSave == form' = IF formView.forgets THEN NoForm ELSE [form EXCEPT !.open = FALSE]

\* A new row, or all the columns of the row.
Written(i) ==
    /\ IF saving.target = 0 THEN saved[i] = Unsaved /\ \A j \in 1..(i - 1) : saved[j] # Unsaved
                            ELSE i = saving.target /\ saved[i] # Unsaved
    /\ saved' = [saved EXCEPT ![i] = [by |-> saving.no, image |-> saving.image]]
    /\ made' = IF saving.target = 0 THEN [made EXCEPT ![i] = saving.no] ELSE made

\* The answer closes the form that is on the page; lost, it closes none.
SaveDone(lost) ==
    /\ saving.open
    /\ \E i \in RowIds : Written(i)
    /\ IF lost THEN form' = form ELSE AfterSave
    /\ saving' = NoForm
    /\ UNCHANGED <<formView, screen, uploads, intent, crossed>>

\* Refused: the form stays as it is.
SaveFails ==
    /\ saving.open
    /\ saving' = NoForm
    /\ UNCHANGED <<formView, saved, screen, form, uploads, intent, crossed, made>>

Load ==
    /\ screen # saved
    /\ screen' = saved
    /\ UNCHANGED <<formView, saved, form, uploads, saving, intent, crossed, made>>

FormNext ==
    \/ OpenCreate \/ CloseForm \/ Upload \/ Save \/ (\E lost \in BOOLEAN : SaveDone(lost)) \/ SaveFails \/ Load
    \/ \E i \in RowIds : OpenEdit(i)
    \/ \E n \in uploads : UploadArrives(n) \/ UploadFails(n)

FormSpec == FormInit /\ [][FormNext]_formVars

-----------------------------------------------------------------------------
\* Forms and rows refer to forms that were opened.
FormTypeOK ==
    /\ formView \in FormViews
    /\ intent \in Seq(0..MaxRows) /\ made \in [RowIds -> 0..Len(intent)]
    /\ \A r \in {saved[i] : i \in RowIds} \cup {screen[i] : i \in RowIds} : {r.by, r.image} \subseteq 0..Len(intent)
    /\ \A f \in {form, saving} : f.target \in 0..MaxRows /\ {f.no, f.image} \subseteq 0..Len(intent)
    /\ uploads \subseteq 1..Len(intent)

\* A row is overwritten only from a form that was opened to edit it: a form
\* opened to create never changes the row edited before.
RowsKeepTheirForms ==
    [][\A i \in RowIds : saved[i] # Unsaved /\ saved'[i] # saved[i] => intent[saved'[i].by] = i]_formVars

\* The image of a row was uploaded from the form that created it or one opened
\* for it, unless an upload was answered when another form was on the page.
\* Where each form is a component of its own that cannot happen.
ImageIsOfItsForm ==
    \A i \in RowIds : saved[i].image # 0 =>
        crossed \/ saved[i].image = made[i] \/ intent[saved[i].image] = i

(* However slowly uploads and saves are answered, a form holds an image     *)
(* that was chosen for it, but for the crossings ImageIsOfItsForm names.    *)
FormsSafe ==
    /\ FormTypeOK
    /\ ImageIsOfItsForm
=============================================================================
