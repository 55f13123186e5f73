------------------------------ MODULE Feedback ------------------------------
(***************************************************************************)
(* Feedback: the form and its draft on one phone (app/feedback.tsx,         *)
(* feedback-form-screen.tsx, feedback-draft-store.ts) and the server that   *)
(* retains what was sent (retained-feedback.ts).                            *)
(*                                                                         *)
(* "words" is the edit that everything typed or chosen comes from, 0 for    *)
(* nothing; a screenshot is the edit that chose it, 0 for none, and the     *)
(* version of a draft the edit that made it.  A key is the number of the    *)
(* submission it was made for.  Typing is one step with its write.          *)
(* Choosing or removing a screenshot and discarding the draft wait for      *)
(* something and go on with the draft they began with: a chore.  Files that *)
(* are left behind are not told apart from files that are gone.             *)
(***************************************************************************)
EXTENDS Naturals, FiniteSets

CONSTANTS
    MaxEdits,   \* bound: edits, those that come to nothing included
    MaxSends,   \* bound: submissions
    MaxSlips    \* bound: failures, deaths of the app, keys that expire

VARIABLES
    form,       \* the screen
    note,       \* feedback_drafts: none or one
    shots,      \* screenshot files
    chores,     \* picks, removals and discards under way
    submissions,      \* submissions the app waits for
    wire,       \* requests the server has not seen
    reports,    \* feedback_reports, and the idempotency keys they were stored with
    lapsed,     \* keys that expired
    edits, sent, slips,
    wanted,     \* what was written, and neither reported nor discarded (not in code)
    mixed       \* what overlapped (not in code), of
                \*   "reopened": a form was opened beside a chore or a submission
                \*   "crossed":  a submission and a chore
                \*   "edited":   a chore, and an edit or another chore

feedbackVars == <<form, note, shots, chores, submissions, wire, reports, lapsed, edits, sent,
                  slips, wanted, mixed>>

Blank == [words |-> 0, shot |-> 0, version |-> 0]
Nothing == [words |-> 0, shot |-> 0]
Page(at, c) == [at |-> at, words |-> c.words, shot |-> c.shot, version |-> c.version]
Content(c) == [words |-> c.words, shot |-> c.shot, version |-> c.version]
Slip == slips < MaxSlips /\ slips' = slips + 1
Mixes(how, when) == mixed' = IF when THEN mixed \cup {how} ELSE mixed

FeedbackInit ==
    /\ form = Page("closed", Blank) /\ note = {} /\ shots = {} /\ chores = {}
    /\ submissions = {} /\ wire = {}
    /\ reports = {} /\ lapsed = {} /\ edits = 0 /\ sent = 0 /\ slips = 0
    /\ wanted = Nothing /\ mixed = {}

(***************************************************************************)
(* The draft store.                                                         *)
(***************************************************************************)
SameSubmission(a, b) == a.words = b.words /\ a.shot = b.shot

\* Mutant: a save makes a new draft of it.
KeyDropped(c) == 0

\* What was not edited keeps the key it was sent with.
KeptKey(c) == IF \E n \in note : SameSubmission(n, c) THEN (CHOOSE n \in note : TRUE).key ELSE 0

SaveNote(c) == note' = {[words |-> c.words, shot |-> c.shot, version |-> c.version,
                         key |-> KeptKey(c)]}

(***************************************************************************)
(* The form.                                                                *)
(***************************************************************************)
\* load: the draft that is stored, or an empty form.
Loaded == IF note = {} THEN Blank ELSE CHOOSE n \in note : TRUE

OpenForm ==
    /\ form.at = "closed"
    /\ form' = Page("open", Loaded)
    /\ Mixes("reopened", submissions # {} \/ chores # {})
    /\ UNCHANGED <<note, shots, chores, submissions, wire, reports, lapsed, edits, sent, slips, wanted>>

NewEdit == edits < MaxEdits /\ edits' = edits + 1
Draft(words, shot, no) == [words |-> words, shot |-> shot, version |-> no]

Type ==
    /\ form.at = "open" /\ NewEdit
    /\ \E w \in {0, edits'} \ {form.words} :
          LET next == Draft(w, form.shot, edits')
          IN  SaveNote(next) /\ form' = Page("open", next) /\ wanted' = [wanted EXCEPT !.words = w]
    /\ Mixes("edited", chores # {})
    /\ UNCHANGED <<shots, chores, submissions, wire, reports, lapsed, sent, slips>>

Begins(does) ==
    /\ NewEdit
    /\ chores' = chores \cup {[does |-> does, no |-> edits', here |-> TRUE,
                               words |-> form.words, shot |-> form.shot]}
    /\ mixed' = mixed \cup (IF submissions # {} THEN {"crossed"} ELSE {})
                     \cup (IF chores # {} THEN {"edited"} ELSE {})
Selecting == \E k \in chores : k.here /\ k.does = "choose"

\* The draft a chore began with is written back with another screenshot; a
\* form that was left is not changed.
WritesBack(k, shot) ==
    LET next == Draft(k.words, shot, k.no)
    IN  /\ SaveNote(next) /\ form' = IF k.here THEN Page(form.at, next) ELSE form
        /\ wanted' = [wanted EXCEPT !.shot = shot]

\* chooseScreenshot: the picker opens.
ChooseScreenshot ==
    /\ form.at = "open" /\ ~Selecting /\ Begins("choose")
    /\ UNCHANGED <<form, note, shots, submissions, wire, reports, lapsed, sent, slips, wanted>>

\* The picker was closed, or has a file: the one before goes when the draft is
\* stored.
ScreenshotChosen(k) ==
    /\ k.does = "choose" /\ chores' = chores \ {k}
    /\ \/ UNCHANGED <<form, note, shots, wanted>>
       \/ WritesBack(k, k.no) /\ shots' = (shots \ {k.shot}) \cup {k.no}
    /\ UNCHANGED <<submissions, wire, reports, lapsed, edits, sent, slips, mixed>>

\* removeScreenshot: first the file, then the draft.
RemoveScreenshot ==
    /\ form.at = "open" /\ form.shot # 0 /\ ~Selecting /\ Begins("remove")
    /\ shots' = shots \ {form.shot}
    /\ UNCHANGED <<form, note, submissions, wire, reports, lapsed, sent, slips, wanted>>

ScreenshotRemoved(k) ==
    /\ k.does = "remove" /\ WritesBack(k, 0) /\ chores' = chores \ {k}
    /\ UNCHANGED <<shots, submissions, wire, reports, lapsed, edits, sent, slips, mixed>>

\* discardDraft, and discard of the store: the file of the stored draft, then
\* the draft.  The question may be open since before the submission, and its
\* button works while that is under way.
DiscardDraft ==
    /\ form.at = "sending" \/ (form.at = "open" /\ form.words + form.shot > 0)
    /\ Begins("discard")
    /\ shots' = shots \ {n.shot : n \in note}
    /\ UNCHANGED <<form, note, submissions, wire, reports, lapsed, sent, slips, wanted>>

DraftDiscarded(k) ==
    /\ k.does = "discard" /\ chores' = chores \ {k}
    /\ note' = {} /\ wanted' = Nothing
    /\ form' = IF k.here THEN Page("open", Blank) ELSE form
    /\ UNCHANGED <<shots, submissions, wire, reports, lapsed, edits, sent, slips, mixed>>

Left(x) == {[y EXCEPT !.here = FALSE] : y \in x}

\* What is under way goes on without its screen.
LeaveForm ==
    /\ form.at # "closed"
    /\ form' = Page("closed", Blank)
    /\ submissions' = Left(submissions) /\ chores' = Left(chores)
    /\ UNCHANGED <<note, shots, wire, reports, lapsed, edits, sent, slips, wanted, mixed>>

(***************************************************************************)
(* onSubmit.                                                                *)
(***************************************************************************)
Submit ==
    /\ form.at = "open" /\ form.words # 0 /\ sent < MaxSends
    /\ ~ \E s \in submissions : s.here
    /\ sent' = sent + 1
    /\ submissions' = submissions \cup {[no |-> sent', at |-> "save", here |-> TRUE,
                             words |-> form.words, shot |-> form.shot, version |-> form.version]}
    /\ form' = [form EXCEPT !.at = "sending"]
    /\ Mixes("crossed", chores # {})
    /\ UNCHANGED <<note, shots, chores, wire, reports, lapsed, edits, slips, wanted>>

Moves(s, at) == submissions' = (submissions \ {s}) \cup {[s EXCEPT !.at = at]}

\* The submission failed: the form can be edited again.
SendFails(s) == /\ submissions' = submissions \ {s}
                /\ form' = IF s.here THEN [form EXCEPT !.at = "open"] ELSE form

\* It was reported: the form gives way to the success page.
SendEnds(s) == IF s.here THEN /\ form' = Page("closed", Blank)
                              /\ submissions' = Left(submissions \ {s})
                              /\ chores' = Left(chores)
               ELSE submissions' = submissions \ {s} /\ UNCHANGED <<form, chores>>

\* The user may have been signed out, and the draft may not be stored.
SaveSubmitted(s) ==
    /\ s.at = "save"
    /\ \/ SaveNote(s) /\ Moves(s, "key") /\ UNCHANGED <<form, slips>>
       \/ Slip /\ SendFails(s) /\ UNCHANGED note
    /\ UNCHANGED <<shots, chores, wire, reports, lapsed, edits, sent, wanted, mixed>>

\* The request, as parseSubmission takes it.
FeedbackRequest(s, key) ==
    [no |-> s.no, key |-> key, words |-> s.words, shot |-> s.shot, version |-> s.version]

\* getOrCreateSubmissionKey; a screenshot that is gone cannot be sent.
GetSubmissionKey(s) ==
    /\ s.at = "key"
    /\ IF note = {} THEN SendFails(s) /\ UNCHANGED <<note, wire>>
       ELSE LET n == CHOOSE x \in note : TRUE
                key == IF n.key = 0 THEN s.no ELSE n.key
            IN  /\ note' = {[n EXCEPT !.key = key]}
                /\ IF s.shot \in shots \cup {0}
                   THEN /\ wire' = wire \cup {FeedbackRequest(s, key)}
                        /\ Moves(s, "wire")
                   ELSE Moves(s, "failed") /\ UNCHANGED wire
                /\ UNCHANGED form
    /\ UNCHANGED <<shots, chores, reports, lapsed, edits, sent, slips, wanted, mixed>>

\* The request may reach the server all the same.
GiveUp(s) ==
    /\ s.at = "wire" /\ Slip /\ Moves(s, "failed")
    /\ UNCHANGED <<form, note, shots, chores, wire, reports, lapsed, edits, sent, wanted, mixed>>

\* Mutant: also when the request failed.
ReportedOrFailed(s) == s.at \in {"reported", "failed"}

Reported(s) == s.at = "reported"

\* completeSubmission; when it cannot delete the draft, the submission failed.
CompleteSubmission(s) ==
    /\ Reported(s)
    /\ \/ /\ note' = {} /\ shots' = shots \ ({s.shot} \cup {n.shot : n \in note})
          /\ SendEnds(s) /\ UNCHANGED slips
          /\ wanted' = IF \E q \in reports : SameSubmission(q, wanted) THEN Nothing ELSE wanted
       \/ Slip /\ Moves(s, "failed") /\ UNCHANGED <<form, note, shots, chores, wanted>>
    /\ UNCHANGED <<wire, reports, lapsed, edits, sent, mixed>>

\* The text that was sent is saved again, whatever happened to it meanwhile.
KeepDraft(s) ==
    /\ s.at = "failed" /\ SaveNote(s) /\ SendFails(s)
    /\ UNCHANGED <<shots, chores, wire, reports, lapsed, edits, sent, slips, wanted, mixed>>

(***************************************************************************)
(* The server.                                                             *)
(***************************************************************************)
Answer(r, at) == submissions' = {IF s.no = r.no /\ s.at = "wire" THEN [s EXCEPT !.at = at] ELSE s :
                             s \in submissions}
Known(r) == {q \in reports : q.key = r.key /\ r.key \notin lapsed}

\* submit, in an idempotent command.  When the commit's answer is lost, the
\* report is stored but its screenshot is deleted.
Retain(r) ==
    /\ wire' = wire \ {r}
    /\ \/ /\ Known(r) # {} /\ UNCHANGED <<reports, slips>>
          /\ Answer(r, IF \A q \in Known(r) : SameSubmission(q, r) THEN "reported" ELSE "failed")
       \/ /\ Known(r) = {} /\ reports' = reports \cup {r}
          /\ Answer(r, "reported") /\ UNCHANGED slips
       \/ /\ Known(r) = {} /\ Slip /\ Answer(r, "failed")
          /\ reports' \in {reports, reports \cup {r}}
    /\ UNCHANGED <<form, note, shots, chores, lapsed, edits, sent, wanted, mixed>>

\* After a day the server forgets a key; the phone does not.
KeyExpires(q) ==
    /\ q.key \notin lapsed /\ Slip /\ lapsed' = lapsed \cup {q.key}
    /\ UNCHANGED <<form, note, shots, chores, submissions, wire, reports, edits, sent, wanted, mixed>>

FeedbackAppDies ==
    /\ form.at # "closed" \/ submissions # {} \/ chores # {}
    /\ Slip /\ form' = Page("closed", Blank) /\ submissions' = {} /\ chores' = {}
    /\ UNCHANGED <<note, shots, wire, reports, lapsed, edits, sent, wanted, mixed>>

FeedbackNext ==
    \/ OpenForm \/ Type \/ ChooseScreenshot \/ RemoveScreenshot \/ DiscardDraft \/ LeaveForm
    \/ \E k \in chores : ScreenshotChosen(k) \/ ScreenshotRemoved(k) \/ DraftDiscarded(k)
    \/ Submit
    \/ \E s \in submissions : \/ SaveSubmitted(s) \/ GetSubmissionKey(s) \/ GiveUp(s)
                              \/ CompleteSubmission(s) \/ KeepDraft(s)
    \/ \E r \in wire : Retain(r)
    \/ \E q \in reports : KeyExpires(q)
    \/ FeedbackAppDies

FeedbackSpec == FeedbackInit /\ [][FeedbackNext]_feedbackVars

(***************************************************************************)
(* Properties.                                                             *)
(***************************************************************************)
\* What was written once is reported once, however often it is submitted:
\* after a lost answer, the death of the app, a request that arrives late.
\* Excepted are a key the server has forgotten meanwhile, a form that was
\* opened again beside what went on in the one before, and a submission during
\* which the draft was discarded or its screenshot changed: when it fails, it
\* saves the text again without the key (findings; feedback-draft-store.ts:
\* 111-199, app/feedback.tsx:152-174, retained-feedback.ts:171-229).
ReportedOnce ==
    mixed \cap {"reopened", "crossed"} = {} => \A a, b \in reports :
        a.version = b.version => a = b \/ {a.key, b.key} \cap lapsed # {}

\* What was typed and the screenshot that was chosen are in the stored draft
\* until they are reported or discarded, through failed submissions, closed
\* pickers, forms that are left and deaths of the app.  Excepted are, besides
\* those two overlaps, edits made while a screenshot is chosen or removed or
\* the draft is discarded, which write what they began with (findings;
\* app/feedback.tsx:152-174, feedback-form-screen.tsx:92-175).
DraftKept ==
    mixed = {} /\ wanted # Nothing => \E n \in note : SameSubmission(n, wanted)
=============================================================================
