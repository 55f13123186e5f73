---------------------------- MODULE AccountProofs ----------------------------
(***************************************************************************)
(* Proofs about Story, Planner and Feedback, for any number of phones,      *)
(* edits, submissions, lost answers and killed apps: the budget of images   *)
(* holds, the drafts of the planner converge, and a report is sent once and *)
(* kept until it is.                                                        *)
(***************************************************************************)
EXTENDS Story, Planner, Feedback, FiniteSetTheorems, SequenceTheorems, TLAPS

(***************************************************************************)
(* The budget of images.                                                    *)
(***************************************************************************)
\* The usage counts the images, which it numbers.
BudgetInv ==
    /\ usage \in Nat /\ usage <= MaxGenerations
    /\ IsFiniteSet(generated) /\ Cardinality(generated) = usage
    /\ \A i \in generated : i.no \in Nat /\ i.no <= usage

\* Every step keeps it: only GenerateImage changes usage and images.
LEMMA BudgetKept == BudgetInv /\ [StoryNext]_storyVars => BudgetInv'
<1> SUFFICES ASSUME BudgetInv, [StoryNext]_storyVars PROVE BudgetInv'
  OBVIOUS
<1>1. ASSUME NEW p \in Editors, GenerateImage(p) PROVE BudgetInv'
  <2>1. usage < MaxGenerations /\ usage' = usage + 1
    BY <1>1 DEF GenerateImage, Spent
  <2>2. PICK n \in Nat : n = usage' /\ n = usage + 1
    BY <2>1 DEF BudgetInv
  <2>3. PICK image : image = [no |-> n, made |-> now']
    OBVIOUS
  <2>4. generated' = generated \cup {image} /\ image.no = n
    BY <1>1, <2>2, <2>3 DEF GenerateImage
  <2>5. image \notin generated
    BY <2>2, <2>4 DEF BudgetInv
  <2>6. IsFiniteSet(generated') /\ Cardinality(generated') = Cardinality(generated) + 1
    BY <2>4, <2>5, FS_AddElement DEF BudgetInv
  <2> QED
    BY <2>1, <2>2, <2>4, <2>6, GenerationsAssumption DEF BudgetInv
<1>2. CASE UNCHANGED <<usage, generated>>
  BY <1>2 DEF BudgetInv
<1>3. ASSUME NEW p \in Editors,
             \/ OpenStory(p) \/ PruneOnOpen(p) \/ EditComposition(p) \/ StartOver(p) \/ CloseStory(p)
             \/ AskForImage(p) \/ DeleteImage(p) \/ ShowImage(p) \/ ImageFails(p)
             \/ StartSync(p) \/ PruneExpired(p) \/ ListSaves(p) \/ PushSave(p)
             \/ ReadPage(p) \/ PullStory(p)
             \/ SettleConflict(p) \/ StoryAppDies(p)
      PROVE  UNCHANGED <<usage, generated>>
  BY <1>3 DEF OpenStory, PruneOnOpen, EditComposition, StartOver, CloseStory, AskForImage, DeleteImage,
     ShowImage, ImageFails, StartSync, PruneExpired, ListSaves, PushSave, TakeSave, ReadPage,
     PullStory, SettleConflict, StoryAppDies, serverStory
<1>4. ASSUME RetireDraft \/ MonthPasses \/ UNCHANGED storyVars PROVE UNCHANGED <<usage, generated>>
  BY <1>4 DEF RetireDraft, MonthPasses, storyVars, serverStory
<1> QED
  BY <1>1, <1>2, <1>3, <1>4 DEF StoryNext

\* A mission gets at most MaxGenerations images, however many phones ask for one at
\* once, however often its Story is started over, expires or is retired
\* (story-image-generation.ts:183-330).
THEOREM GenerationBudgetAlways == StorySpec => []GenerationBudget
<1>1. StoryInit => BudgetInv
  <2> SUFFICES ASSUME StoryInit PROVE BudgetInv
    OBVIOUS
  <2>1. usage = 0 /\ generated = {}
    BY DEF StoryInit
  <2> QED
    BY <2>1, FS_EmptySet, GenerationsAssumption DEF BudgetInv
<1>2. BudgetInv => GenerationBudget
  BY DEF BudgetInv, GenerationBudget
<1> QED
  BY <1>1, <1>2, BudgetKept, PTL DEF StorySpec

(***************************************************************************)
(* The planner.                                                            *)
(***************************************************************************)
PlanDraft == [text : Nat, listed : Nat, ids : SUBSET Nat]
Entry == [op : {"upsert", "delete"}, on : PlanDraft]
Sent == [at : Nat, on : PlanDraft]

PlannerTypes ==
    /\ draft \in Sent /\ planLog \in Seq(Entry) /\ taken \subseteq Nat /\ today \in Nat
    /\ sketch \in [Planners -> PlanDraft] /\ sends \in [Planners -> Sent]
    /\ seen \in [Planners -> Nat] /\ trip \in [Planners -> {"none", "push", "pull"}]

\* The last entry of the log is the draft.
LastIsDraft ==
    draft.on = IF planLog = << >> THEN NoDraft ELSE planLog[Len(planLog)].on

\* A mutation is made once, and is queued on one phone.
MadeOnce ==
    /\ \A t \in taken : t <= today
    /\ \A p \in Planners : sends[p].at <= today /\ (sends[p].at = 0 => sends[p] = NoSend)
    /\ \A p, q \in Planners : sends[p].at = sends[q].at => p = q \/ sends[p].at = 0

\* A mutation that was taken and whose answer was lost has an entry that its phone
\* has not read, and the phone sends it again before it reads.
LostAnswer ==
    \A p \in Planners :
        /\ seen[p] <= Len(planLog)
        /\ sends[p] # NoSend /\ sends[p].at \in taken => seen[p] < Len(planLog) /\ trip[p] # "pull"

\* The inductive invariant.
PlannerInv == PlannerTypes /\ LastIsDraft /\ MadeOnce /\ LostAnswer /\ PlannersConverge

\* What is kept when no log, draft or queue changes.
LEMMA QuietKeeps ==
    ASSUME PlannerInv, UNCHANGED <<draft, planLog, taken, sketch, sends, seen, cleared>>,
           today' \in Nat, today <= today',
           trip' \in [Planners -> {"none", "push", "pull"}],
           \A p \in Planners : trip'[p] = "pull" /\ trip[p] # "pull" => sends[p] = NoSend
    PROVE  PlannerInv'
<1>1. PlannerTypes' /\ LastIsDraft'
  BY DEF PlannerInv, PlannerTypes, LastIsDraft
<1>2. MadeOnce'
  BY DEF PlannerInv, PlannerTypes, MadeOnce, Sent
<1>3. LostAnswer'
  BY DEF PlannerInv, LostAnswer
<1>4. PlannersConverge'
  BY DEF PlannerInv, PlannersConverge
<1> QED
  BY <1>1, <1>2, <1>3, <1>4 DEF PlannerInv

\* A draft is written: its mutation is new.
LEMMA SketchKeeps ==
    ASSUME PlannerInv, NEW p \in Planners, NEW d \in PlanDraft, Today, Sketch(p, d)
    PROVE  PlannerInv'
<1>1. /\ today' = today + 1 /\ sketch' = [sketch EXCEPT ![p] = d]
      /\ sends' = [sends EXCEPT ![p] = [at |-> today', on |-> d]]
      /\ cleared' = cleared \ {p}
      /\ UNCHANGED <<draft, planLog, taken, seen, trip>>
  BY DEF Today, Sketch, serverPlan
<1>2. PICK t \in Nat : t = today' /\ t = today + 1 /\ t > today
  BY <1>1 DEF PlannerInv, PlannerTypes
<1>3. PICK m : m = [at |-> t, on |-> d]
  OBVIOUS
<1>4. m \in Sent /\ m.at = t /\ m # NoSend
  BY <1>2, <1>3, <1>1 DEF Sent, NoSend, PlannerInv, PlannerTypes
<1>5. sends' = [sends EXCEPT ![p] = m]
  BY <1>1, <1>2, <1>3
<1>6. /\ sends' \in [Planners -> Sent] /\ sketch' \in [Planners -> PlanDraft] /\ sends'[p] = m
      /\ \A q \in Planners : q # p => sends'[q] = sends[q] /\ sketch'[q] = sketch[q]
  BY <1>1, <1>4, <1>5 DEF PlannerInv, PlannerTypes
<1>7. PlannerTypes' /\ LastIsDraft'
  BY <1>1, <1>2, <1>6 DEF PlannerInv, PlannerTypes, LastIsDraft
<1>8. /\ \A q \in Planners : sends[q].at \in Nat /\ sends[q].at <= today
      /\ \A u \in taken : u \in Nat /\ u <= today
      /\ today \in Nat
  BY DEF PlannerInv, PlannerTypes, MadeOnce, Sent
<1>9. MadeOnce'
  <2>1. \A u \in taken' : u <= today'
    BY <1>1, <1>2, <1>8
  <2>2. ASSUME NEW q \in Planners
        PROVE  sends'[q].at <= today' /\ (sends'[q].at = 0 => sends'[q] = NoSend)
    BY <1>2, <1>4, <1>6, <1>8 DEF PlannerInv, MadeOnce
  <2>3. ASSUME NEW q \in Planners, NEW r \in Planners, sends'[q].at = sends'[r].at
        PROVE  q = r \/ sends'[q].at = 0
    BY <1>2, <1>4, <1>6, <1>8, <2>3 DEF PlannerInv, MadeOnce
  <2> QED
    BY <2>1, <2>2, <2>3 DEF MadeOnce
<1>10. LostAnswer'
  BY <1>1, <1>2, <1>4, <1>6, <1>8 DEF PlannerInv, LostAnswer
<1>11. PlannersConverge'
  BY <1>1, <1>4, <1>6 DEF PlannerInv, PlannersConverge
<1> QED
  BY <1>7, <1>9, <1>10, <1>11 DEF PlannerInv

\* WriteText and WriteList.
LEMMA WritesKeep ==
    ASSUME PlannerInv, NEW p \in Planners, WriteText(p) \/ WriteList(p)
    PROVE  PlannerInv'
<1>1. PICK s \in PlanDraft : s = sketch[p]
  BY DEF PlannerInv, PlannerTypes
<1>2. Today /\ today' \in Nat
  BY DEF WriteText, WriteList, Today, PlannerInv, PlannerTypes
<1>3. CASE WriteText(p)
  <2>1. Sketch(p, [s EXCEPT !.text = today'])
    BY <1>1, <1>3 DEF WriteText
  <2>2. [s EXCEPT !.text = today'] \in PlanDraft
    BY <1>1, <1>2 DEF PlanDraft
  <2> QED
    BY <1>2, <2>1, <2>2, SketchKeeps
<1>4. CASE WriteList(p)
  <2>1. PICK ids \in NextLists(p) : Sketch(p, Document(s, ids))
    BY <1>1, <1>4 DEF WriteList
  <2>2. ids \subseteq Nat
    BY <1>1, <1>2, <2>1 DEF NextLists, PlanDraft
  <2>3. Document(s, ids) \in PlanDraft
    <3>1. PICK n \in Nat : n = today'
      BY <1>2
    <3>2. PICK r : r = [s EXCEPT !.listed = n, !.ids = ids]
      OBVIOUS
    <3>3. r \in PlanDraft
      BY <1>1, <2>2, <3>2 DEF PlanDraft
    <3> QED
      BY <3>1, <3>2, <3>3 DEF Document
  <2> QED
    BY <1>2, <2>1, <2>3, SketchKeeps
<1> QED
  BY <1>3, <1>4

\* An entry is put behind the log, and it is the draft: nobody has read it.
LEMMA AppendKeeps ==
    ASSUME PlannerInv, NEW e \in Entry, planLog' = Append(planLog, e),
           draft' \in Sent, draft'.on = e.on, taken' \subseteq Nat,
           NEW m \in Nat, taken' = taken \/ (m <= today /\ taken' = taken \cup {m}),
           NEW p \in Planners,
           sends' = sends \/ sends' = [sends EXCEPT ![p] = NoSend],
           taken' = taken \/ (m # 0 /\ sends[p].at = m /\ trip[p] = "push"),
           trip' = trip \/ trip' = [trip EXCEPT ![p] = "none"],
           UNCHANGED <<sketch, seen, cleared, today>>
    PROVE  PlannerInv'
<1>1. /\ planLog \in Seq(Entry) /\ planLog' \in Seq(Entry) /\ planLog' # << >>
      /\ Len(planLog') = Len(planLog) + 1 /\ planLog'[Len(planLog')] = e /\ Len(planLog) \in Nat
  <2>1. PICK log \in Seq(Entry) : log = planLog
    BY DEF PlannerInv, PlannerTypes
  <2>2. Append(log, e) \in Seq(Entry) /\ Len(Append(log, e)) = Len(log) + 1 /\ Len(log) \in Nat
    OBVIOUS
  <2>3. Append(log, e)[Len(log) + 1] = e
    OBVIOUS
  <2>4. Append(log, e) # << >>
    BY <2>2
  <2>5. planLog' = Append(log, e)
    BY <2>1
  <2> QED
    BY <2>1, <2>2, <2>3, <2>4, <2>5
<1>2. NoSend \in Sent /\ NoSend.at = 0
  BY DEF NoSend, NoDraft, Sent, PlanDraft
<1>3. /\ sends' \in [Planners -> Sent] /\ trip' \in [Planners -> {"none", "push", "pull"}]
      /\ \A q \in Planners : sends'[q] = sends[q] \/ sends'[q] = NoSend
      /\ \A q \in Planners : trip'[q] = trip[q] \/ trip'[q] = "none"
  BY <1>2 DEF PlannerInv, PlannerTypes
<1>4. PlannerTypes' /\ LastIsDraft'
  BY <1>1, <1>3 DEF PlannerInv, PlannerTypes, LastIsDraft
<1>5. MadeOnce'
  BY <1>2, <1>3 DEF PlannerInv, PlannerTypes, MadeOnce
<1>6. \A q \in Planners : seen'[q] < Len(planLog')
  BY <1>1 DEF PlannerInv, PlannerTypes, LostAnswer
<1>7. LostAnswer'
  <2>1. ASSUME NEW q \in Planners, sends'[q] # NoSend, sends'[q].at \in taken', trip'[q] = "pull"
        PROVE  FALSE
    <3>1. sends'[q] = sends[q] /\ sends[q].at # 0 /\ trip[q] = "pull"
      BY <1>3, <2>1 DEF PlannerInv, MadeOnce
    <3>2. sends[q].at \notin taken
      BY <2>1, <3>1 DEF PlannerInv, LostAnswer
    <3>3. sends[q].at = m /\ sends[p].at = m /\ trip[p] = "push"
      BY <2>1, <3>1, <3>2
    <3> QED
      BY <3>1, <3>3 DEF PlannerInv, MadeOnce
  <2> QED
    BY <1>1, <1>6, <2>1 DEF LostAnswer, PlannerInv, PlannerTypes
<1>8. PlannersConverge'
  BY <1>1, <1>6 DEF PlannersConverge, PlannerInv, PlannerTypes
<1> QED
  BY <1>4, <1>5, <1>7, <1>8 DEF PlannerInv

\* PushPlan: a save that was taken before has an entry its phone did not read.
LEMMA PushKeeps == ASSUME PlannerInv, NEW p \in Planners, PushPlan(p) PROVE PlannerInv'
<1>1. /\ trip[p] = "push" /\ sends[p] # NoSend /\ TakePlan(sends[p])
      /\ UNCHANGED <<sketch, seen, cleared, today>>
      /\ sends' = sends \/ sends' = [sends EXCEPT ![p] = NoSend]
      /\ trip' = trip \/ trip' = [trip EXCEPT ![p] = "none"]
  BY DEF PushPlan, EndTrip
<1>2. PICK m \in Sent : m = sends[p]
  BY DEF PlannerInv, PlannerTypes
<1>3. m.at # 0 /\ m.at <= today /\ m.at \in Nat
  BY <1>1, <1>2 DEF PlannerInv, MadeOnce, Sent
<1>4. CASE m.at \in taken
  <2>1. UNCHANGED <<draft, planLog, taken>>
    BY <1>1, <1>2, <1>4 DEF TakePlan, serverPlan
  <2>2. NoSend \in Sent /\ NoSend.at = 0
    BY DEF NoSend, NoDraft, Sent, PlanDraft
  <2>3. /\ sends' \in [Planners -> Sent] /\ trip' \in [Planners -> {"none", "push", "pull"}]
        /\ \A q \in Planners : sends'[q] = sends[q] \/ (q = p /\ sends'[q] = NoSend)
        /\ \A q \in Planners : trip'[q] = trip[q] \/ trip'[q] = "none"
    BY <1>1, <2>2 DEF PlannerInv, PlannerTypes
  <2>4. PlannerTypes' /\ LastIsDraft'
    BY <1>1, <2>1, <2>3 DEF PlannerInv, PlannerTypes, LastIsDraft
  <2>5. MadeOnce'
    BY SMTT(30), <1>1, <2>1, <2>2, <2>3 DEF PlannerInv, PlannerTypes, MadeOnce
  <2>6. LostAnswer'
    BY <1>1, <2>1, <2>3 DEF PlannerInv, LostAnswer
  <2>7. seen[p] # Len(planLog)
    BY <1>1, <1>2, <1>4 DEF PlannerInv, PlannerTypes, LostAnswer
  <2>8. PlannersConverge'
    BY <1>1, <2>1, <2>3, <2>7 DEF PlannerInv, PlannersConverge
  <2> QED
    BY <2>4, <2>5, <2>6, <2>8 DEF PlannerInv
<1>5. CASE m.at \notin taken
  <2>1. /\ draft' = IF Wins(m) THEN [at |-> m.at, on |-> Kept(m)] ELSE draft
        /\ planLog' = Append(planLog, Logged(m))
        /\ taken' = taken \cup {m.at}
    BY <1>1, <1>2, <1>5 DEF TakePlan
  <2>2. draft \in Sent /\ draft.on \in PlanDraft /\ taken \subseteq Nat /\ m.on \in PlanDraft
    BY <1>2 DEF PlannerInv, PlannerTypes, Sent
  <2>3. Kept(m) \in PlanDraft
    <3>1. PICK k : k = [m.on EXCEPT !.listed = draft.on.listed, !.ids = draft.on.ids]
      OBVIOUS
    <3>2. k \in PlanDraft
      BY <2>2, <3>1 DEF PlanDraft
    <3> QED
      BY <2>2, <3>1, <3>2 DEF Kept
  <2>4. PICK k \in PlanDraft : k = Kept(m)
    BY <2>3
  <2>5. draft' \in Sent /\ draft'.on = IF Wins(m) THEN k ELSE draft.on
    BY <1>3, <2>1, <2>2, <2>4 DEF Sent
  <2>6. PICK d \in PlanDraft : d = draft'.on
    BY <2>5 DEF Sent
  <2>7. PICK e : e = [op |-> "upsert", on |-> d]
    OBVIOUS
  <2>8. e \in Entry /\ e.on = d
    BY <2>7 DEF Entry
  <2>9. Logged(m) = e
    BY <2>4, <2>5, <2>6, <2>7 DEF Logged, Stored
  <2>10. planLog' = Append(planLog, e) /\ draft'.on = e.on /\ taken' \subseteq Nat
    BY <1>3, <2>1, <2>2, <2>6, <2>8, <2>9
  <2> QED
    BY <1>1, <1>2, <1>3, <2>1, <2>5, <2>8, <2>10, AppendKeeps
<1> QED
  BY <1>4, <1>5

\* Confirm: the draft is deleted, or nothing happens.
LEMMA ConfirmKeeps == ASSUME PlannerInv, NEW p \in Planners, Confirm(p) PROVE PlannerInv'
<1>1. UNCHANGED <<sketch, sends, seen, trip, cleared, today>>
  BY DEF Confirm
<1>2. CASE UNCHANGED serverPlan
  BY <1>1, <1>2, QuietKeeps DEF serverPlan, PlannerInv, PlannerTypes
<1>3. CASE Activate(wish[p].key)
  <2>1. draft' = [at |-> 0, on |-> NoDraft] /\ planLog' = Append(planLog, Deleted) /\ taken' = taken
    BY <1>3 DEF Activate
  <2>2. Deleted \in Entry /\ Deleted.on = NoDraft /\ draft' \in Sent /\ draft'.on = NoDraft
    BY <2>1 DEF Deleted, NoDraft, Entry, Sent, PlanDraft
  <2>3. PICK e \in Entry : e = Deleted
    BY <2>2
  <2>4. taken' \subseteq Nat
    BY <2>1 DEF PlannerInv, PlannerTypes
  <2> QED
    BY <1>1, <2>1, <2>2, <2>3, <2>4, AppendKeeps
<1> QED
  BY <1>2, <1>3 DEF Confirm

\* ClearSketch: what is cleared is excepted.
LEMMA ClearKeeps == ASSUME PlannerInv, NEW p \in Planners, ClearSketch(p) PROVE PlannerInv'
<1>1. /\ sketch' = [sketch EXCEPT ![p] = NoDraft] /\ sends' = [sends EXCEPT ![p] = NoSend]
      /\ cleared' = cleared \cup {p}
      /\ UNCHANGED <<draft, planLog, taken, seen, trip, today>>
  BY DEF ClearSketch, serverPlan
<1>2. NoSend \in Sent /\ NoSend.at = 0 /\ NoDraft \in PlanDraft
  BY DEF NoSend, NoDraft, Sent, PlanDraft
<1>3. /\ sends' \in [Planners -> Sent] /\ sketch' \in [Planners -> PlanDraft] /\ sends'[p] = NoSend
      /\ \A q \in Planners : q # p => sends'[q] = sends[q] /\ sketch'[q] = sketch[q]
  BY <1>1, <1>2 DEF PlannerInv, PlannerTypes
<1>4. PlannerTypes' /\ LastIsDraft'
  BY <1>1, <1>3 DEF PlannerInv, PlannerTypes, LastIsDraft
<1>5. MadeOnce'
  BY <1>1, <1>2, <1>3 DEF PlannerInv, PlannerTypes, MadeOnce
<1>6. LostAnswer'
  BY <1>1, <1>3 DEF PlannerInv, LostAnswer
<1>7. PlannersConverge'
  BY <1>1, <1>3 DEF PlannerInv, PlannersConverge
<1> QED
  BY <1>4, <1>5, <1>6, <1>7 DEF PlannerInv

\* A phone reads up to the end of the log, and stops.
LEMMA ReadKeeps ==
    ASSUME PlannerInv, NEW p \in Planners, trip[p] = "pull", NEW entries \in Seq(Entry),
           entries # << >> => planLog # << >> /\ entries[Len(entries)] = planLog[Len(planLog)],
           entries = << >> => seen[p] = Len(planLog),
           PullEntries(p, entries), seen' = [seen EXCEPT ![p] = Len(planLog)],
           trip' = [trip EXCEPT ![p] = "none"],
           UNCHANGED <<draft, planLog, taken, today>>
    PROVE  PlannerInv'
<1>1. Len(planLog) \in Nat /\ seen' \in [Planners -> Nat] /\ seen'[p] = Len(planLog)
      /\ \A q \in Planners : q # p => seen'[q] = seen[q]
  BY DEF PlannerInv, PlannerTypes
<1>2. /\ trip' \in [Planners -> {"none", "push", "pull"}] /\ trip'[p] = "none"
      /\ \A q \in Planners : q # p => trip'[q] = trip[q]
  BY DEF PlannerInv, PlannerTypes
<1>3. sends[p] # NoSend => sends[p].at \notin taken
  BY DEF PlannerInv, LostAnswer
<1>4. CASE Takes(p, entries)
  <2>1. PICK d \in PlanDraft : d = entries[Len(entries)].on
    <3>1. entries[Len(entries)] \in Entry
      BY <1>4 DEF Takes
    <3> QED
      BY <3>1 DEF Entry
  <2>2. d = draft.on
    BY <1>4, <2>1 DEF Takes, PlannerInv, LastIsDraft
  <2>3. sketch' = [sketch EXCEPT ![p] = d] /\ sends' = [sends EXCEPT ![p] = NoSend] /\ cleared' = cleared \ {p}
    BY <1>4, <2>1 DEF PullEntries
  <2>4. NoSend \in Sent /\ NoSend.at = 0
    BY DEF NoSend, NoDraft, Sent, PlanDraft
  <2>5. /\ sends' \in [Planners -> Sent] /\ sketch' \in [Planners -> PlanDraft]
        /\ sends'[p] = NoSend /\ sketch'[p] = d
        /\ \A q \in Planners : q # p => sends'[q] = sends[q] /\ sketch'[q] = sketch[q]
    BY <2>3, <2>4 DEF PlannerInv, PlannerTypes
  <2>6. PlannerTypes' /\ LastIsDraft'
    BY <1>1, <1>2, <2>5 DEF PlannerInv, PlannerTypes, LastIsDraft
  <2>7. MadeOnce'
    <3>1. \A q \in Planners : sends'[q] = sends[q] \/ sends'[q] = NoSend
      BY <2>5
    <3>2. /\ today \in Nat /\ UNCHANGED <<taken, today>>
          /\ \A t \in taken : t <= today
          /\ \A q \in Planners : sends[q].at <= today /\ (sends[q].at = 0 => sends[q] = NoSend)
          /\ \A q, r \in Planners : sends[q].at = sends[r].at => q = r \/ sends[q].at = 0
      BY DEF PlannerInv, PlannerTypes, MadeOnce
    <3>3. \A q, r \in Planners : sends'[q].at = sends'[r].at => q = r \/ sends'[q].at = 0
      BY <2>4, <3>1, <3>2
    <3>4. \A q \in Planners : sends'[q].at <= today' /\ (sends'[q].at = 0 => sends'[q] = NoSend)
      BY <2>4, <3>1, <3>2
    <3> QED
      BY <3>2, <3>3, <3>4 DEF MadeOnce
  <2>8. LostAnswer'
    BY <1>1, <1>2, <2>5 DEF PlannerInv, LostAnswer
  <2>9. PlannersConverge'
    BY <1>1, <2>2, <2>3, <2>5 DEF PlannerInv, PlannersConverge
  <2> QED
    BY <2>6, <2>7, <2>8, <2>9 DEF PlannerInv
<1>5. CASE ~Takes(p, entries)
  <2>1. UNCHANGED <<sketch, sends, cleared>>
    BY <1>5 DEF PullEntries
  <2>2. entries = << >> \/ sends[p] # NoSend
    BY <1>5 DEF Takes
  <2>3. PlannerTypes' /\ LastIsDraft'
    BY <1>1, <1>2, <2>1 DEF PlannerInv, PlannerTypes, LastIsDraft
  <2>4. MadeOnce'
    BY <2>1 DEF PlannerInv, PlannerTypes, MadeOnce
  <2>5. LostAnswer'
    BY <1>1, <1>2, <1>3, <2>1 DEF PlannerInv, LostAnswer
  <2>6. PlannersConverge'
    BY <1>1, <2>1, <2>2 DEF PlannerInv, PlannersConverge
  <2> QED
    BY <2>3, <2>4, <2>5, <2>6 DEF PlannerInv
<1> QED
  BY <1>4, <1>5

\* PullPlan: the page ends with the end of the log.
LEMMA PageKeeps == ASSUME PlannerInv, NEW p \in Planners, PullPlan(p) PROVE PlannerInv'
<1>1. /\ trip[p] = "pull" /\ PullEntries(p, SubSeq(planLog, seen[p] + 1, Len(planLog)))
      /\ seen' = [seen EXCEPT ![p] = Len(planLog)] /\ trip' = [trip EXCEPT ![p] = "none"]
      /\ UNCHANGED <<draft, planLog, taken, today>>
  BY DEF PullPlan, EndTrip, serverPlan
<1>2. planLog \in Seq(Entry) /\ seen[p] \in Nat /\ seen[p] <= Len(planLog)
  BY DEF PlannerInv, PlannerTypes, LostAnswer
<1>3. PICK entries : entries = SubSeq(planLog, seen[p] + 1, Len(planLog))
  OBVIOUS
<1>4. entries \in Seq(Entry) /\ Len(entries) = Len(planLog) - seen[p]
  BY <1>2, <1>3
<1>5. entries = << >> => seen[p] = Len(planLog)
  BY <1>2, <1>4
<1>6. ASSUME entries # << >>
      PROVE  planLog # << >> /\ entries[Len(entries)] = planLog[Len(planLog)]
  <2>1. planLog # << >> /\ Len(entries) >= 1
    BY <1>2, <1>4, <1>6
  <2>2. /\ Len(planLog) \in Nat /\ Len(entries) \in 1..Len(entries)
        /\ seen[p] + 1 + Len(entries) - 1 = Len(planLog)
    BY <1>2, <1>4, <2>1
  <2> QED
    <3>1. PICK k \in Nat : k = Len(entries) /\ k >= 1
      BY <1>4, <2>1
    <3>2. PICK i \in Nat : i = seen[p] /\ i + 1 + k - 1 = Len(planLog)
      BY <1>2, <2>2, <3>1
    <3>3. entries = SubSeq(planLog, i + 1, Len(planLog)) /\ k \in 1..Len(entries)
      BY <1>3, <3>1, <3>2
    <3>4. PICK n \in Nat : n = Len(planLog)
      BY <1>2
    <3>5. \A j \in i + 1 .. n : planLog[j] \in Entry
      BY <1>2, <3>4
    <3>6. \A j \in 1 .. n - (i + 1) + 1 : SubSeq(planLog, i + 1, n)[j] = planLog[i + 1 + j - 1]
      BY <3>5, SubSeqProperties
    <3>7. k \in 1 .. n - (i + 1) + 1 /\ i + 1 + k - 1 = n
      BY SMTT(30), <3>1, <3>2, <3>4
    <3>8. entries[k] = planLog[i + 1 + k - 1]
      BY <3>3, <3>4, <3>6, <3>7
    <3> QED
      BY <2>1, <3>1, <3>4, <3>7, <3>8
<1> QED
  BY <1>1, <1>3, <1>4, <1>5, <1>6, ReadKeeps

\* PullPlanSnapshot: a snapshot holds the last entry.
LEMMA SnapshotKeeps == ASSUME PlannerInv, NEW p \in Planners, PullPlanSnapshot(p) PROVE PlannerInv'
<1>1. /\ trip[p] = "pull" /\ seen[p] < Len(planLog) /\ trip' = [trip EXCEPT ![p] = "none"]
      /\ UNCHANGED <<draft, planLog, taken, today>>
  BY DEF PullPlanSnapshot, EndTrip, serverPlan
<1>2. planLog \in Seq(Entry) /\ seen[p] \in Nat
  BY DEF PlannerInv, PlannerTypes
<1>3. PICK final \in Entry : final = planLog[Len(planLog)] /\ planLog # << >>
  BY <1>1, <1>2
<1>4. CASE UNCHANGED <<sketch, sends, cleared, seen>>
  BY <1>1, <1>4, QuietKeeps DEF PlannerInv, PlannerTypes
<1>5. CASE PullEntries(p, << final >>) /\ seen' = [seen EXCEPT ![p] = Len(planLog)]
  <2>1. << final >> \in Seq(Entry) /\ << final >> # << >> /\ << final >>[Len(<< final >>)] = final
    OBVIOUS
  <2> QED
    BY <1>1, <1>3, <1>5, <2>1, ReadKeeps
<1> QED
  BY <1>3, <1>4, <1>5 DEF PullPlanSnapshot

\* Every step keeps the invariant.
LEMMA PlannerInvNext == PlannerInv /\ [PlannerNext]_plannerVars => PlannerInv'
<1> SUFFICES ASSUME PlannerInv, [PlannerNext]_plannerVars PROVE PlannerInv'
  OBVIOUS
<1>1. CASE UNCHANGED plannerVars
  BY <1>1, QuietKeeps DEF plannerVars, serverPlan, PlannerInv, PlannerTypes
<1>2. ASSUME NEW p \in Planners, TapConfirm(p) \/ LeaveScreen(p) \/ StartTrip(p) \/ EndPushPlan(p)
      PROVE  PlannerInv'
  <2>1. UNCHANGED <<draft, planLog, taken, sketch, sends, seen, cleared>>
    BY <1>2 DEF TapConfirm, LeaveScreen, StartTrip, EndPushPlan, serverPlan
  <2>2. today' \in Nat /\ today <= today'
    BY <1>2 DEF TapConfirm, LeaveScreen, StartTrip, EndPushPlan, Today, PlannerInv, PlannerTypes
  <2>3. trip \in [Planners -> {"none", "push", "pull"}]
    BY DEF PlannerInv, PlannerTypes
  <2>4. \/ trip' = trip \/ trip' = [trip EXCEPT ![p] = "push"]
        \/ trip' = [trip EXCEPT ![p] = "pull"] /\ sends[p] = NoSend
    BY <1>2 DEF TapConfirm, LeaveScreen, StartTrip, EndPushPlan
  <2> QED
    BY <2>1, <2>2, <2>3, <2>4, QuietKeeps
<1> QED
  BY <1>1, <1>2, WritesKeep, ConfirmKeeps, ClearKeeps, PushKeeps, PageKeeps, SnapshotKeeps DEF PlannerNext

\* A phone that has nothing to send and has read the whole log shows the server's
\* draft, whatever other phones wrote, was taken twice, was confirmed, or was read in
\* pages and snapshots; but for the phone that cleared its draft after a confirmation
\* (sync-store.ts:1225-1306, authenticated-sync-runtime.ts:745-796,
\* calendar-draft-preview.ts:433-449).
THEOREM PlannersConvergeAlways == PlannerSpec => []PlannersConverge
<1>1. PlannerInit => PlannerInv
  <2> SUFFICES ASSUME PlannerInit PROVE PlannerInv
    OBVIOUS
  <2>1. NoSend \in Sent /\ NoSend.at = 0 /\ NoDraft \in PlanDraft
    BY DEF NoSend, NoDraft, Sent, PlanDraft
  <2>2. draft = NoSend /\ planLog = << >> /\ taken = {} /\ today = 0
    BY DEF PlannerInit, NoSend
  <2> QED
    BY <2>1, <2>2 DEF PlannerInit, PlannerInv, PlannerTypes, LastIsDraft, MadeOnce, LostAnswer,
                      PlannersConverge, NoSend
<1>2. PlannerInv => PlannersConverge
  BY DEF PlannerInv
<1> QED
  BY <1>1, <1>2, PlannerInvNext, PTL DEF PlannerSpec

(***************************************************************************)
(* Feedback: what was written last is kept until it is reported, and what   *)
(* was written once is reported once, unless the form was opened beside     *)
(* something that went on, or a submission crossed a chore.                 *)
(*                                                                         *)
(* The argument: while neither happened there is one submission at most,    *)
(* nothing is edited beside it, and the draft that is stored is what the    *)
(* form shows and what the submission sends.  Every write has a version of  *)
(* its own, so a draft that was written anew has not been requested yet, and *)
(* requests of one version have the key that its draft was given.           *)
(***************************************************************************)
FormPage == [at : {"closed", "open", "sending"}, words : Nat, shot : Nat, version : Nat]
NoteRow == [words : Nat, shot : Nat, version : Nat, key : Nat]
Chore == [does : {"choose", "remove", "discard"}, no : Nat, here : BOOLEAN,
          words : Nat, shot : Nat]
Submission == [no : Nat, at : {"save", "key", "wire", "failed", "reported"}, here : BOOLEAN,
               words : Nat, shot : Nat, version : Nat]
Request == [no : Nat, key : Nat, words : Nat, shot : Nat, version : Nat]

FeedbackTypes ==
    /\ form \in FormPage /\ note \in SUBSET NoteRow /\ chores \in SUBSET Chore
    /\ submissions \in SUBSET Submission
    /\ wire \in SUBSET Request /\ reports \in SUBSET Request
    /\ edits \in Nat /\ sent \in Nat /\ wanted \in [words : Nat, shot : Nat]

\* Versions are numbers of edits, and a chore's is not used yet.
Numbered ==
    /\ \A x \in note \cup wire \cup reports : x.version <= edits
    /\ \A k \in chores : k.no <= edits /\ \A x \in note \cup wire \cup reports : x.version # k.no
    /\ \A k, l \in chores : k.no = l.no => k = l
    /\ \A s \in submissions : 0 < s.no /\ s.no <= sent
    /\ \A r \in wire \cup reports : r.no <= sent /\ r.key > 0

\* The form shows the draft that is stored, and waits for its submission.
Shows(n) == n.words = form.words /\ n.shot = form.shot /\ n.version = form.version
ScreenOK ==
    /\ \A n, m \in note : n = m
    /\ form.at = "sending" => submissions # {}
    /\ form.at # "closed" => \A n \in note : Shows(n)
    /\ form.at # "closed" /\ note = {} => form.words = 0
    /\ \A k \in chores : k.here <=> form.at # "closed"

\* The submission is the only one, it sends the draft that is stored, and when it
\* is reported there is a report of it.
Sends(s) ==
    /\ s.here => form.at = "sending"
    /\ ~s.here => form.at = "closed"
    /\ \E n \in note : SameSubmission(n, s) /\ n.version = s.version
    /\ \A r \in wire : r.no = s.no => SameSubmission(r, s)
    /\ s.at = "reported" => \E q \in reports : SameSubmission(q, s)
SubmissionOK ==
    /\ \A s, t \in submissions : s = t
    /\ submissions # {} => chores = {}
    /\ \A s \in submissions : Sends(s)

\* What has one version has one key, and a key that is remembered has one report.
KeysOK ==
    /\ \A a, b \in wire \cup reports : a.version = b.version => a.key = b.key
    /\ \A n \in note : \A r \in wire \cup reports : n.version = r.version => n.key = r.key
    /\ \A a, b \in reports : a.key = b.key => a = b \/ a.key \in lapsed

\* A stored draft is what was wanted last, and so is what the one chore began with.
WantedOK ==
    /\ note = {} => wanted = Nothing
    /\ \A n \in note : SameSubmission(n, wanted)
    /\ form.at # "closed" => SameSubmission(form, wanted)
    /\ \A k, l \in chores : k = l
    /\ \A k \in chores : k.words = wanted.words

Basics == FeedbackTypes /\ Numbered /\ ScreenOK /\ SubmissionOK /\ KeysOK
Calm == Basics /\ (mixed = {} => WantedOK)

\* The inductive invariant.
FeedbackInv == mixed \cap {"reopened", "crossed"} # {} \/ Calm

(***************************************************************************)
(* The draft store.                                                         *)
(***************************************************************************)
\* The one draft that is stored is what CHOOSE gives.
LEMMA TheNote ==
    ASSUME \A n, m \in note : n = m, NEW n \in note
    PROVE  note = {n} /\ (CHOOSE x \in note : TRUE) = n
<1>1. (CHOOSE x \in note : TRUE) \in note
  OBVIOUS
<1> QED
  BY <1>1

\* To save what is stored changes nothing: the key stays.
LEMMA SavedAsItIs ==
    ASSUME Basics, NEW n \in note, NEW c, SameSubmission(n, c), n.version = c.version, SaveNote(c)
    PROVE  note' = note
<1>1. n \in NoteRow /\ note = {n} /\ (CHOOSE x \in note : TRUE) = n
  BY TheNote DEF Basics, FeedbackTypes, ScreenOK
<1>2. KeptKey(c) = n.key
  BY <1>1 DEF KeptKey
<1>3. n = [words |-> n.words, shot |-> n.shot, version |-> n.version, key |-> n.key]
  BY <1>1 DEF NoteRow
<1>4. n = [words |-> c.words, shot |-> c.shot, version |-> c.version, key |-> n.key]
  BY <1>3 DEF SameSubmission
<1> QED
  BY <1>1, <1>2, <1>4 DEF SaveNote

\* What is saved has the content it is given, and a key that was a draft's or none.
LEMMA Saved ==
    ASSUME FeedbackTypes, NEW w \in Nat, NEW f \in Nat, NEW v \in Nat, SaveNote(Draft(w, f, v))
    PROVE  \E n \in NoteRow : note' = {n} /\ n.words = w /\ n.shot = f /\ n.version = v
<1>1. KeptKey(Draft(w, f, v)) \in Nat
  <2>1. CASE \E n \in note : SameSubmission(n, Draft(w, f, v))
    <3>1. (CHOOSE n \in note : TRUE) \in note
      BY <2>1
    <3> QED
      BY <2>1, <3>1 DEF KeptKey, FeedbackTypes, NoteRow
  <2> QED
    BY <2>1 DEF KeptKey
<1>2. PICK n : n = [words |-> w, shot |-> f, version |-> v, key |-> KeptKey(Draft(w, f, v))]
  OBVIOUS
<1>3. n \in NoteRow /\ n.words = w /\ n.shot = f /\ n.version = v
  BY <1>1, <1>2 DEF NoteRow
<1>4. note' = {n}
  <2>1. Draft(w, f, v).words = w /\ Draft(w, f, v).shot = f /\ Draft(w, f, v).version = v
    BY DEF Draft
  <2> QED
    BY <1>2, <2>1 DEF SaveNote
<1> QED
  BY <1>3, <1>4

(***************************************************************************)
(* The form.                                                                *)
(***************************************************************************)
\* A write of a version that is not used yet, while nothing is submitted.
LEMMA WriteKeeps ==
    ASSUME Basics, submissions = {}, NEW w \in Nat, NEW f \in Nat, NEW v \in Nat,
           \A x \in note \cup wire \cup reports : x.version # v,
           edits' \in Nat, edits <= edits', v <= edits',
           chores' \subseteq chores, \A k \in chores' : k.no # v,
           SaveNote(Draft(w, f, v)),
           \/ \E at \in {"open", "closed"} : form' = Page(at, Draft(w, f, v))
           \/ form.at = "closed" /\ form' = form,
           \A k \in chores' : k.here <=> form'.at # "closed",
           wanted' \in [words : Nat, shot : Nat],
           UNCHANGED <<submissions, wire, reports, lapsed, sent>>
    PROVE  Basics' /\ note' # {} /\ \A n \in note' : n.words = w /\ n.shot = f
<1>1. PICK n \in NoteRow : note' = {n} /\ n.words = w /\ n.shot = f /\ n.version = v
  BY Saved DEF Basics
<1>2. \/ form' \in FormPage /\ form'.at \in {"open", "closed"}
         /\ form'.words = w /\ form'.shot = f /\ form'.version = v
      \/ form'.at = "closed" /\ form' \in FormPage
  BY DEF Page, Draft, FormPage, Basics, FeedbackTypes
<1>3. FeedbackTypes'
  BY <1>1, <1>2 DEF Basics, FeedbackTypes
<1>4. Numbered'
  <2>1. \A r \in wire \cup reports : r.version \in Nat /\ r.version <= edits
    BY DEF Basics, FeedbackTypes, Numbered, Request
  <2>2. \A k \in chores : k.no \in Nat /\ k.no <= edits
    BY DEF Basics, FeedbackTypes, Numbered, Chore
  <2>3. edits \in Nat
    BY DEF Basics, FeedbackTypes
  <2>4. \A x \in note' \cup wire' \cup reports' : x.version <= edits'
    BY <1>1, <2>1, <2>3
  <2>5. \A k \in chores' : k.no <= edits' /\ \A x \in note' \cup wire' \cup reports' : x.version # k.no
    BY <1>1, <2>2, <2>3 DEF Basics, Numbered
  <2> QED
    BY <2>4, <2>5 DEF Basics, Numbered
<1>5. ScreenOK'
  BY <1>1, <1>2 DEF ScreenOK, Shows
<1>6. SubmissionOK'
  BY DEF SubmissionOK
<1>7. KeysOK'
  BY <1>1 DEF Basics, KeysOK
<1> QED
  BY <1>1, <1>3, <1>4, <1>5, <1>6, <1>7 DEF Basics

\* A change of the form that leaves the draft, while nothing is submitted.
LEMMA ShowKeeps ==
    ASSUME Basics, submissions = {}, form' \in FormPage, form'.at # "sending",
           form'.at # "closed" => \A n \in note : Shows(n)',
           form'.at # "closed" /\ note = {} => form'.words = 0,
           \A k \in chores' : k.here <=> form'.at # "closed",
           chores' \in SUBSET Chore, \A k \in chores' : \E l \in chores : k.no = l.no,
           \A k, l \in chores' : k.no = l.no => k = l,
           UNCHANGED <<note, submissions, wire, reports, lapsed, edits, sent, wanted>>
    PROVE  Basics'
<1>1. FeedbackTypes'
  BY DEF Basics, FeedbackTypes
<1>2. Numbered'
  <2>1. ASSUME NEW k \in chores'
        PROVE  k.no <= edits /\ \A x \in note \cup wire \cup reports : x.version # k.no
    BY <2>1 DEF Basics, Numbered
  <2> QED
    BY <2>1 DEF Basics, Numbered
<1>3. ScreenOK'
  BY DEF Basics, ScreenOK, Shows
<1>4. SubmissionOK'
  BY DEF SubmissionOK
<1>5. KeysOK'
  BY DEF Basics, KeysOK
<1> QED
  BY <1>1, <1>2, <1>3, <1>4, <1>5 DEF Basics

\* OpenForm beside nothing.
LEMMA OpenKeeps == ASSUME Calm, OpenForm, submissions = {}, chores = {} PROVE Calm'
<1>1. /\ form' = Page("open", Loaded) /\ mixed' = mixed
      /\ UNCHANGED <<note, shots, chores, submissions, wire, reports, lapsed, edits, sent, slips, wanted>>
  BY DEF OpenForm, Mixes
<1>2. CASE note = {}
  <2>1. form' = [at |-> "open", words |-> 0, shot |-> 0, version |-> 0]
    BY <1>1, <1>2 DEF Page, Loaded, Blank
  <2>2. form' \in FormPage
    BY <2>1 DEF FormPage
  <2>3. Basics'
    BY <1>1, <1>2, <2>1, <2>2, ShowKeeps DEF Calm
  <2>4. WantedOK => WantedOK'
    BY <1>1, <1>2, <2>1 DEF WantedOK, SameSubmission, Nothing
  <2> QED
    BY <1>1, <2>3, <2>4 DEF Calm
<1>3. CASE note # {}
  <2>1. PICK n \in note : TRUE
    BY <1>3
  <2>2. n \in NoteRow /\ note = {n} /\ Loaded = n
    BY <1>3, TheNote DEF Calm, Basics, FeedbackTypes, ScreenOK, Loaded
  <2>3. form' = [at |-> "open", words |-> n.words, shot |-> n.shot, version |-> n.version]
    BY <1>1, <2>2 DEF Page
  <2>4. form' \in FormPage
    BY <2>2, <2>3 DEF FormPage, NoteRow
  <2>5. \A m \in note : Shows(m)'
    BY <2>2, <2>3 DEF Shows
  <2>6. Basics'
    BY <1>1, <1>3, <2>3, <2>4, <2>5, ShowKeeps DEF Calm
  <2>7. WantedOK => WantedOK'
    BY <1>1, <2>2, <2>3 DEF WantedOK, SameSubmission
  <2> QED
    BY <1>1, <2>6, <2>7 DEF Calm
<1> QED
  BY <1>2, <1>3

\* Type: only an open form is typed in, so nothing is submitted.
LEMMA OpenAlone == ASSUME Basics, form.at = "open" PROVE submissions = {}
BY DEF Basics, SubmissionOK, Sends, FeedbackTypes, Submission

LEMMA TypeKeeps == ASSUME Calm, Type PROVE Calm'
<1>1. PICK v \in Nat : v = edits' /\ v = edits + 1 /\ edits \in Nat
  BY DEF Calm, Basics, FeedbackTypes, Type, NewEdit
<1>2. PICK w \in {0, v} : /\ SaveNote(Draft(w, form.shot, v))
                          /\ form' = Page("open", Draft(w, form.shot, v))
                          /\ wanted' = [wanted EXCEPT !.words = w]
  BY <1>1 DEF Type
<1>3. /\ form.at = "open" /\ w \in Nat /\ form.shot \in Nat
      /\ mixed' = IF chores # {} THEN mixed \cup {"edited"} ELSE mixed
      /\ UNCHANGED <<shots, chores, submissions, wire, reports, lapsed, sent, slips>>
  BY <1>1, <1>2 DEF Type, Mixes, Calm, Basics, FeedbackTypes, FormPage
<1>4. submissions = {}
  BY <1>3, OpenAlone DEF Calm
<1>5. \A x \in note \cup wire \cup reports : x.version # v
  <2>1. \A x \in note \cup wire \cup reports : x.version \in Nat /\ x.version <= edits
    BY DEF Calm, Basics, FeedbackTypes, Numbered, Request, NoteRow
  <2> QED
    BY <1>1, <2>1
<1>6. \A k \in chores' : k.no # v /\ k.here
  <2>1. \A k \in chores : k.no \in Nat /\ k.no <= edits /\ k.here
    BY <1>3 DEF Calm, Basics, FeedbackTypes, Numbered, Chore, ScreenOK
  <2> QED
    BY <1>1, <1>3, <2>1
<1>7. /\ wanted' \in [words : Nat, shot : Nat] /\ wanted'.words = w /\ wanted'.shot = wanted.shot
      /\ form'.at = "open" /\ form'.words = w /\ form'.shot = form.shot
  BY <1>2, <1>3 DEF Calm, Basics, FeedbackTypes, Page, Draft
<1>8. edits' \in Nat /\ edits <= edits' /\ v <= edits' /\ chores' \subseteq chores
  BY <1>1, <1>3
<1>9. Basics' /\ note' # {} /\ \A n \in note' : n.words = w /\ n.shot = form.shot
  BY <1>2, <1>3, <1>4, <1>5, <1>6, <1>7, <1>8, WriteKeeps DEF Calm
<1>10. mixed' = {} => WantedOK'
  <2> SUFFICES ASSUME mixed' = {} PROVE WantedOK'
    OBVIOUS
  <2>1. chores = {} /\ WantedOK
    BY <1>3 DEF Calm
  <2> QED
    BY <1>3, <1>7, <1>9, <2>1 DEF WantedOK, SameSubmission
<1> QED
  BY <1>9, <1>10 DEF Calm

\* The first halves of a chore, not beside a submission: only the chore is new.
LEMMA BeginKeeps ==
    ASSUME Calm, NEW does \in {"choose", "remove", "discard"}, Begins(does), form.at # "closed",
           submissions = {}, UNCHANGED <<form, note, submissions, wire, reports, lapsed, sent, wanted>>
    PROVE  Calm'
<1>1. PICK v \in Nat : v = edits' /\ v = edits + 1 /\ edits \in Nat
  BY DEF Calm, Basics, FeedbackTypes, Begins, NewEdit
<1>2. PICK k : k = [does |-> does, no |-> v, here |-> TRUE, words |-> form.words, shot |-> form.shot]
  OBVIOUS
<1>3. /\ k \in Chore /\ k.no = v /\ k.here /\ k.words = form.words
      /\ chores' = chores \cup {k}
      /\ mixed' = mixed \cup (IF chores # {} THEN {"edited"} ELSE {})
  BY <1>1, <1>2 DEF Begins, Chore, Calm, Basics, FeedbackTypes, FormPage
<1>4. \A x \in note \cup wire \cup reports : x.version \in Nat /\ x.version <= edits
  BY DEF Calm, Basics, FeedbackTypes, Numbered, Request, NoteRow
<1>5. \A l \in chores : l.no \in Nat /\ l.no <= edits
  BY DEF Calm, Basics, FeedbackTypes, Numbered, Chore
<1>6. FeedbackTypes'
  BY <1>1, <1>3 DEF Calm, Basics, FeedbackTypes
<1>7. Numbered'
  <2>1. \A x \in note' \cup wire' \cup reports' : x.version <= edits' /\ x.version # v
    BY <1>1, <1>4
  <2>2. \A l \in chores : l.no <= edits' /\ l.no # v
    BY <1>1, <1>5
  <2>3. k.no <= edits'
    BY <1>1, <1>3
  <2>4. \A l \in chores' : l.no <= edits' /\ \A x \in note' \cup wire' \cup reports' : x.version # l.no
    BY <1>3, <2>1, <2>2, <2>3 DEF Calm, Basics, Numbered
  <2>5. \A l, m \in chores' : l.no = m.no => l = m
    BY <1>3, <2>2 DEF Calm, Basics, Numbered
  <2> QED
    BY <2>1, <2>4, <2>5 DEF Calm, Basics, Numbered
<1>8. ScreenOK'
  BY <1>3 DEF Calm, Basics, ScreenOK, Shows
<1>9. SubmissionOK' /\ KeysOK'
  BY DEF Calm, Basics, SubmissionOK, KeysOK
<1>10. mixed' = {} => WantedOK'
  <2> SUFFICES ASSUME mixed' = {} PROVE WantedOK'
    OBVIOUS
  <2>1. chores = {} /\ WantedOK
    BY <1>3 DEF Calm
  <2> QED
    BY <1>3, <2>1 DEF WantedOK, SameSubmission
<1> QED
  BY <1>6, <1>7, <1>8, <1>9, <1>10 DEF Calm, Basics

\* The second halves of a chore: the draft it began with is written, with a
\* version that is its own.
LEMMA WriteBackKeeps ==
    ASSUME Calm, NEW k \in chores, NEW f \in Nat, WritesBack(k, f), chores' = chores \ {k},
           UNCHANGED <<submissions, wire, reports, lapsed, edits, sent, mixed>>
    PROVE  Calm'
<1>1. /\ k \in Chore /\ submissions = {} /\ k.no \in Nat /\ k.words \in Nat
      /\ edits \in Nat /\ k.no <= edits /\ form \in FormPage
      /\ \A x \in note \cup wire \cup reports : x.version # k.no
  BY DEF Calm, Basics, FeedbackTypes, SubmissionOK, Numbered, Chore
<1>2. /\ SaveNote(Draft(k.words, f, k.no))
      /\ form' = IF k.here THEN Page(form.at, Draft(k.words, f, k.no)) ELSE form
      /\ wanted' = [wanted EXCEPT !.shot = f]
  BY DEF WritesBack
<1>3. /\ wanted' \in [words : Nat, shot : Nat] /\ wanted'.words = wanted.words /\ wanted'.shot = f
  BY <1>2 DEF Calm, Basics, FeedbackTypes
<1>4. form.at \in {"open", "closed"} /\ form'.at = form.at
      /\ (k.here => form'.words = k.words /\ form'.shot = f)
  BY <1>1, <1>2 DEF Calm, Basics, ScreenOK, FormPage, Page, Draft
<1>5. \/ \E at \in {"open", "closed"} : form' = Page(at, Draft(k.words, f, k.no))
      \/ form.at = "closed" /\ form' = form
  BY <1>2, <1>4 DEF Calm, Basics, ScreenOK
<1>6. \A l \in chores' : l.no # k.no /\ (l.here <=> form'.at # "closed")
  BY <1>4 DEF Calm, Basics, Numbered, ScreenOK
<1>7. edits' \in Nat /\ edits <= edits' /\ k.no <= edits' /\ chores' \subseteq chores
  BY <1>1
<1>8. Basics' /\ note' # {} /\ \A n \in note' : n.words = k.words /\ n.shot = f
  BY <1>1, <1>2, <1>3, <1>5, <1>6, <1>7, WriteKeeps DEF Calm
<1>9. mixed' = {} => WantedOK'
  <2> SUFFICES ASSUME WantedOK PROVE WantedOK'
    BY DEF Calm
  <2>1. k.words = wanted.words /\ chores' = {}
    BY DEF WantedOK
  <2>2. form'.at # "closed" => k.here
    BY <1>4 DEF Calm, Basics, ScreenOK
  <2> QED
    BY <1>3, <1>4, <1>8, <2>1, <2>2 DEF WantedOK, SameSubmission
<1> QED
  BY <1>8, <1>9 DEF Calm

\* ScreenshotChosen, also of a picker that was closed, and ScreenshotRemoved.
LEMMA ChoreKeeps ==
    ASSUME Calm, NEW k \in chores, ScreenshotChosen(k) \/ ScreenshotRemoved(k)
    PROVE  Calm'
<1>1. chores' = chores \ {k} /\ UNCHANGED <<submissions, wire, reports, lapsed, edits, sent, mixed>>
  BY DEF ScreenshotChosen, ScreenshotRemoved
<1>2. k.no \in Nat /\ 0 \in Nat /\ submissions = {}
  BY DEF Calm, Basics, FeedbackTypes, Chore, SubmissionOK
<1>3. CASE WritesBack(k, k.no) \/ WritesBack(k, 0)
  BY <1>1, <1>2, <1>3, WriteBackKeeps
<1>4. CASE UNCHANGED <<form, note, wanted>>
  <2>1. form' \in FormPage /\ chores' \in SUBSET Chore
    BY <1>1, <1>4 DEF Calm, Basics, FeedbackTypes
  <2>2. /\ form'.at # "sending"
        /\ form'.at # "closed" => \A n \in note : Shows(n)'
        /\ form'.at # "closed" /\ note = {} => form'.words = 0
        /\ \A l \in chores' : l.here <=> form'.at # "closed"
    BY <1>1, <1>2, <1>4 DEF Calm, Basics, ScreenOK, Shows
  <2>3. /\ \A l \in chores' : \E m \in chores : l.no = m.no
        /\ \A l, m \in chores' : l.no = m.no => l = m
    BY <1>1 DEF Calm, Basics, Numbered
  <2>4. Basics'
    BY <1>1, <1>2, <1>4, <2>1, <2>2, <2>3, ShowKeeps DEF Calm
  <2>5. WantedOK => WantedOK'
    BY <1>1, <1>4 DEF WantedOK, SameSubmission
  <2> QED
    BY <1>1, <2>4, <2>5 DEF Calm
<1> QED
  BY <1>3, <1>4 DEF ScreenshotChosen, ScreenshotRemoved

\* The second half of discardDraft.
LEMMA DiscardKeeps == ASSUME Calm, NEW k \in chores, DraftDiscarded(k) PROVE Calm'
<1>1. /\ note' = {} /\ wanted' = Nothing /\ chores' = chores \ {k}
      /\ form' = IF k.here THEN Page("open", Blank) ELSE form
      /\ UNCHANGED <<submissions, wire, reports, lapsed, edits, sent, mixed>>
  BY DEF DraftDiscarded
<1>2. submissions = {} /\ (~k.here => form.at = "closed")
  BY DEF Calm, Basics, SubmissionOK, ScreenOK
<1>3. form' \in FormPage /\ wanted' \in [words : Nat, shot : Nat]
  BY <1>1 DEF Calm, Basics, FeedbackTypes, Page, Blank, FormPage, Nothing
<1>4. \/ form'.at = "open" /\ form'.words = 0 /\ form'.shot = 0 /\ k.here
      \/ form' = form /\ form'.at = "closed"
  BY <1>1, <1>2 DEF Page, Blank
<1>5. FeedbackTypes' /\ Numbered'
  BY <1>1, <1>3 DEF Calm, Basics, FeedbackTypes, Numbered
<1>6. ScreenOK'
  <2>2. \A l \in chores' : l.here <=> form'.at # "closed"
    BY <1>1, <1>4 DEF Calm, Basics, ScreenOK
  <2> QED
    BY <1>1, <1>4, <2>2 DEF ScreenOK
<1>7. SubmissionOK' /\ KeysOK'
  BY <1>1, <1>2 DEF Calm, Basics, SubmissionOK, KeysOK
<1>8. mixed' = {} => WantedOK'
  <2> SUFFICES ASSUME WantedOK PROVE WantedOK'
    BY <1>1 DEF Calm
  <2>1. chores' = {}
    BY <1>1 DEF WantedOK
  <2> QED
    BY <1>1, <1>4, <2>1 DEF WantedOK, SameSubmission, Nothing
<1> QED
  BY <1>5, <1>6, <1>7, <1>8 DEF Calm, Basics

\* LeaveForm: what is under way goes on alone.
LEMMA LeftRow ==
    ASSUME FeedbackTypes
    PROVE  /\ \A x \in Left(submissions) : \E s \in submissions :
                 /\ x \in Submission /\ x.here = FALSE /\ x.no = s.no /\ x.at = s.at
                 /\ x.words = s.words /\ x.shot = s.shot /\ x.version = s.version
           /\ \A x \in Left(chores) : \E k \in chores :
                 x \in Chore /\ x.here = FALSE /\ x.no = k.no /\ x.words = k.words
           /\ Left(submissions) # {} => submissions # {}
           /\ Left(chores) # {} => chores # {}
<1>1. ASSUME NEW s \in Submission
      PROVE  /\ [s EXCEPT !.here = FALSE] \in Submission
             /\ [s EXCEPT !.here = FALSE].here = FALSE
             /\ [s EXCEPT !.here = FALSE].no = s.no
             /\ [s EXCEPT !.here = FALSE].at = s.at
             /\ [s EXCEPT !.here = FALSE].words = s.words
             /\ [s EXCEPT !.here = FALSE].shot = s.shot
             /\ [s EXCEPT !.here = FALSE].version = s.version
  BY DEF Submission
<1>2. ASSUME NEW k \in Chore
      PROVE  /\ [k EXCEPT !.here = FALSE] \in Chore
             /\ [k EXCEPT !.here = FALSE].here = FALSE
             /\ [k EXCEPT !.here = FALSE].no = k.no
             /\ [k EXCEPT !.here = FALSE].words = k.words
  BY DEF Chore
<1>3. submissions \subseteq Submission /\ chores \subseteq Chore
  BY DEF FeedbackTypes
<1>4. ASSUME NEW x \in Left(submissions)
      PROVE  \E s \in submissions :
                 /\ x \in Submission /\ x.here = FALSE /\ x.no = s.no /\ x.at = s.at
                 /\ x.words = s.words /\ x.shot = s.shot /\ x.version = s.version
  <2>1. PICK s \in submissions : x = [s EXCEPT !.here = FALSE]
    BY <1>4 DEF Left
  <2> QED
    BY <1>1, <1>3, <2>1
<1>5. ASSUME NEW x \in Left(chores)
      PROVE  \E k \in chores : x \in Chore /\ x.here = FALSE /\ x.no = k.no /\ x.words = k.words
  <2>1. PICK k \in chores : x = [k EXCEPT !.here = FALSE]
    BY <1>5 DEF Left
  <2> QED
    BY <1>2, <1>3, <2>1
<1> QED
  BY <1>4, <1>5

\* A set of one or no record becomes a set of one or none.
LEMMA LeftOne == ASSUME NEW x, \A a, b \in x : a = b PROVE \A a, b \in Left(x) : a = b
BY DEF Left

\* The chore a left chore was, by its number.
LEMMA LeftNumbers ==
    ASSUME NEW x, \A k, l \in x : k.no = l.no => k = l, x \subseteq Chore
    PROVE  \A k, l \in Left(x) : k.no = l.no => k = l
<1> SUFFICES ASSUME NEW k \in Left(x), NEW l \in Left(x), k.no = l.no PROVE k = l
  OBVIOUS
<1>1. PICK a \in x, b \in x : k = [a EXCEPT !.here = FALSE] /\ l = [b EXCEPT !.here = FALSE]
  BY DEF Left
<1>2. k.no = a.no /\ l.no = b.no
  BY <1>1 DEF Chore
<1> QED
  BY <1>1, <1>2

LEMMA LeaveKeeps == ASSUME Calm, LeaveForm PROVE Calm'
<1>1. /\ form' = [at |-> "closed", words |-> 0, shot |-> 0, version |-> 0]
      /\ submissions' = Left(submissions) /\ chores' = Left(chores)
      /\ UNCHANGED <<note, shots, wire, reports, lapsed, edits, sent, slips, wanted, mixed>>
  BY DEF LeaveForm, Page, Blank
<1>2. form' \in FormPage /\ form'.at = "closed"
  BY <1>1 DEF FormPage
<1>3. /\ \A x \in submissions' : \E s \in submissions :
            /\ x \in Submission /\ x.here = FALSE /\ x.no = s.no /\ x.at = s.at
            /\ x.words = s.words /\ x.shot = s.shot /\ x.version = s.version
      /\ \A x \in chores' : \E k \in chores :
            x \in Chore /\ x.here = FALSE /\ x.no = k.no /\ x.words = k.words
      /\ submissions' # {} => submissions # {}
      /\ chores' # {} => chores # {}
  BY <1>1, LeftRow DEF Calm, Basics
<1>4. FeedbackTypes'
  BY <1>1, <1>2, <1>3 DEF Calm, Basics, FeedbackTypes
<1>5. Numbered'
  <2>1. \A k, l \in chores' : k.no = l.no => k = l
    BY <1>1, LeftNumbers DEF Calm, Basics, FeedbackTypes, Numbered
  <2>2. \A k \in chores' : k.no <= edits' /\ \A x \in note' \cup wire' \cup reports' : x.version # k.no
    BY <1>1, <1>3 DEF Calm, Basics, Numbered
  <2>3. \A s \in submissions' : 0 < s.no /\ s.no <= sent'
    BY <1>1, <1>3 DEF Calm, Basics, Numbered
  <2> QED
    BY <1>1, <2>1, <2>2, <2>3 DEF Calm, Basics, Numbered
<1>6. ScreenOK'
  BY <1>1, <1>2, <1>3 DEF Calm, Basics, ScreenOK
<1>7. SubmissionOK'
  <2>1. \A s, t \in submissions' : s = t
    BY <1>1, LeftOne DEF Calm, Basics, SubmissionOK
  <2>2. ASSUME NEW t \in submissions' PROVE Sends(t)'
    <3>1. PICK s \in submissions :
             /\ t.here = FALSE /\ t.no = s.no /\ t.at = s.at
             /\ t.words = s.words /\ t.shot = s.shot /\ t.version = s.version
      BY <1>3, <2>2
    <3>2. Sends(s)
      BY <3>1 DEF Calm, Basics, SubmissionOK
    <3> QED
      BY <1>1, <1>2, <3>1, <3>2 DEF Sends, SameSubmission
  <2> QED
    BY <1>3, <2>1, <2>2 DEF Calm, Basics, SubmissionOK
<1>8. KeysOK'
  BY <1>1 DEF Calm, Basics, KeysOK
<1>9. WantedOK => WantedOK'
  <2> SUFFICES ASSUME WantedOK PROVE WantedOK'
    OBVIOUS
  <2>1. \A k, l \in chores' : k = l
    BY <1>1, LeftOne DEF WantedOK
  <2> QED
    BY <1>1, <1>2, <1>3, <2>1 DEF WantedOK, SameSubmission
<1> QED
  BY <1>1, <1>4, <1>5, <1>6, <1>7, <1>8, <1>9 DEF Calm, Basics

(***************************************************************************)
(* onSubmit.                                                                *)
(***************************************************************************)
\* What a submission is when it moved.
LEMMA MovedSubmission ==
    ASSUME NEW s \in Submission, NEW at \in {"save", "key", "wire", "failed", "reported"}
    PROVE  /\ [s EXCEPT !.at = at] \in Submission /\ [s EXCEPT !.at = at].at = at
           /\ [s EXCEPT !.at = at].no = s.no /\ [s EXCEPT !.at = at].here = s.here
           /\ [s EXCEPT !.at = at].words = s.words /\ [s EXCEPT !.at = at].shot = s.shot
           /\ [s EXCEPT !.at = at].version = s.version
BY DEF Submission

\* A submission is alone, nothing is under way beside it, and it sends what is
\* stored.
LEMMA TheSubmission ==
    ASSUME Basics, NEW s \in submissions
    PROVE  submissions = {s} /\ s \in Submission /\ chores = {} /\ Sends(s)
BY DEF Basics, SubmissionOK, FeedbackTypes

\* A submission that moves while note and reports stay: it may be reported if
\* there is a report of it.
LEMMA MoveKeeps ==
    ASSUME Calm, NEW s \in submissions, NEW at \in {"key", "wire", "failed", "reported"},
           at = "reported" => \E q \in reports : SameSubmission(q, s),
           Moves(s, at),
           UNCHANGED <<form, note, chores, wire, reports, lapsed, edits, sent, wanted, mixed>>
    PROVE  Calm'
<1>1. s \in Submission /\ submissions = {s} /\ chores = {} /\ Sends(s)
  BY TheSubmission DEF Calm
<1>2. PICK t : t = [s EXCEPT !.at = at]
  OBVIOUS
<1>3. /\ submissions' = {t} /\ t \in Submission /\ t.at = at /\ t.no = s.no /\ t.here = s.here
      /\ t.words = s.words /\ t.shot = s.shot /\ t.version = s.version
  <2>1. at \in {"save", "key", "wire", "failed", "reported"}
    OBVIOUS
  <2>2. submissions' = {t}
    BY <1>1, <1>2 DEF Moves
  <2> QED
    BY <1>1, <1>2, <2>1, <2>2, MovedSubmission
<1>4. FeedbackTypes' /\ Numbered'
  BY <1>3 DEF Calm, Basics, FeedbackTypes, Numbered
<1>5. ScreenOK'
  BY <1>3 DEF Calm, Basics, ScreenOK, Shows
<1>6. Sends(t)'
  BY <1>1, <1>3 DEF Sends, SameSubmission
<1>7. SubmissionOK' /\ KeysOK'
  BY <1>1, <1>3, <1>6 DEF Calm, Basics, SubmissionOK, KeysOK
<1>8. WantedOK => WantedOK'
  BY DEF WantedOK, SameSubmission
<1> QED
  BY <1>4, <1>5, <1>7, <1>8 DEF Calm, Basics

\* A submission ends, and the draft stays, or it is reported and nothing is left.
LEMMA EndKeeps ==
    ASSUME Calm, NEW s \in submissions, submissions' = {}, chores' = {}, form' \in FormPage,
           \/ form'.at = "closed"
           \/ s.here /\ form'.at = "open" /\ note' = note /\ form'.words = form.words
              /\ form'.shot = form.shot /\ form'.version = form.version,
           \/ note' = note /\ wanted' = wanted
           \/ /\ note' = {} /\ \E q \in reports : SameSubmission(q, s)
              /\ wanted' = IF \E q \in reports : SameSubmission(q, wanted) THEN Nothing ELSE wanted,
           UNCHANGED <<wire, reports, lapsed, edits, sent, mixed>>
    PROVE  Calm'
<1>1. s \in Submission /\ submissions = {s} /\ chores = {} /\ Sends(s)
  BY TheSubmission DEF Calm
<1>2. wanted' \in [words : Nat, shot : Nat]
  BY DEF Calm, Basics, FeedbackTypes, Nothing
<1>3. FeedbackTypes' /\ Numbered'
  BY <1>2 DEF Calm, Basics, FeedbackTypes, Numbered
<1>4. ScreenOK'
  <2>1. s.here => form.at = "sending"
    BY <1>1 DEF Sends
  <2> QED
    BY <2>1 DEF Calm, Basics, ScreenOK, Shows
<1>5. SubmissionOK'
  BY DEF SubmissionOK
<1>6. KeysOK'
  BY DEF Calm, Basics, KeysOK
<1>7. WantedOK => WantedOK'
  <2> SUFFICES ASSUME WantedOK PROVE WantedOK'
    OBVIOUS
  <2>1. CASE note' = note /\ wanted' = wanted
    <3>1. s.here => form.at = "sending"
      BY <1>1 DEF Sends
    <3> QED
      BY <2>1, <3>1 DEF WantedOK, SameSubmission
  <2>2. CASE /\ note' = {} /\ \E q \in reports : SameSubmission(q, s)
             /\ wanted' = IF \E q \in reports : SameSubmission(q, wanted) THEN Nothing ELSE wanted
    <3>1. PICK n \in note : SameSubmission(n, s)
      BY <1>1 DEF Sends
    <3>2. SameSubmission(n, wanted)
      BY DEF WantedOK
    <3>3. \E q \in reports : SameSubmission(q, wanted)
      BY <2>2, <3>1, <3>2 DEF SameSubmission
    <3>4. form'.at = "closed"
      BY <2>2, <3>1
    <3> QED
      BY <2>2, <3>3, <3>4 DEF WantedOK
  <2> QED
    BY <2>1, <2>2
<1> QED
  BY <1>3, <1>4, <1>5, <1>6, <1>7 DEF Calm, Basics

\* A failed submission gives the form back.
LEMMA FailKeeps ==
    ASSUME Calm, NEW s \in submissions, SendFails(s), note' = note,
           UNCHANGED <<chores, wire, reports, lapsed, edits, sent, wanted, mixed>>
    PROVE  Calm'
<1>1. submissions = {s} /\ chores = {} /\ Sends(s) /\ form \in FormPage
  BY TheSubmission DEF Calm, Basics, FeedbackTypes
<1>2. submissions' = {} /\ chores' = {} /\ form' = IF s.here THEN [form EXCEPT !.at = "open"] ELSE form
  BY <1>1 DEF SendFails
<1>3. CASE s.here
  <2>1. /\ form' \in FormPage /\ form'.at = "open" /\ form'.words = form.words
        /\ form'.shot = form.shot /\ form'.version = form.version
    BY <1>1, <1>2, <1>3 DEF FormPage
  <2> QED
    BY <1>2, <1>3, <2>1, EndKeeps
<1>4. CASE ~s.here
  <2>1. form' \in FormPage /\ form'.at = "closed"
    BY <1>1, <1>2, <1>4 DEF Sends
  <2> QED
    BY <1>2, <2>1, EndKeeps
<1> QED
  BY <1>3, <1>4

\* Submit: it sends what is stored.
LEMMA SubmitKeeps == ASSUME Calm, chores = {}, Submit PROVE Calm'
<1>1. /\ form.at = "open" /\ form.words # 0 /\ form \in FormPage /\ sent \in Nat
      /\ sent' = sent + 1 /\ form' = [form EXCEPT !.at = "sending"] /\ mixed' = mixed
      /\ UNCHANGED <<note, shots, chores, wire, reports, lapsed, edits, slips, wanted>>
  BY DEF Submit, Mixes, Calm, Basics, FeedbackTypes
<1>2. submissions = {}
  BY <1>1, OpenAlone DEF Calm
<1>3. PICK m \in Nat : m = sent' /\ m = sent + 1 /\ m > sent /\ m > 0
  BY <1>1
<1>4. PICK s : s = [no |-> m, at |-> "save", here |-> TRUE,
                    words |-> form.words, shot |-> form.shot, version |-> form.version]
  OBVIOUS
<1>5. /\ submissions' = {s} /\ s \in Submission /\ s.no = m /\ s.at = "save" /\ s.here = TRUE
      /\ s.words = form.words /\ s.shot = form.shot /\ s.version = form.version
  BY <1>1, <1>2, <1>3, <1>4 DEF Submit, Submission, FormPage
<1>6. /\ form' \in FormPage /\ form'.at = "sending" /\ form'.words = form.words
      /\ form'.shot = form.shot /\ form'.version = form.version
  BY <1>1 DEF FormPage
<1>7. PICK n \in note : Shows(n)
  BY <1>1 DEF Calm, Basics, ScreenOK
<1>8. FeedbackTypes'
  BY <1>1, <1>3, <1>5, <1>6 DEF Calm, Basics, FeedbackTypes
<1>9. Numbered'
  <2>1. \A r \in wire \cup reports : r.no \in Nat /\ r.no <= sent
    BY DEF Calm, Basics, FeedbackTypes, Numbered, Request
  <2>2. \A r \in wire \cup reports : r.no <= sent'
    BY <1>1, <1>3, <2>1
  <2>3. \A t \in submissions' : 0 < t.no /\ t.no <= sent'
    BY <1>3, <1>5
  <2> QED
    BY <1>1, <2>2, <2>3 DEF Calm, Basics, Numbered
<1>10. ScreenOK'
  BY <1>1, <1>5, <1>6 DEF Calm, Basics, ScreenOK, Shows
<1>11. Sends(s)'
  <2>1. SameSubmission(n, s) /\ n.version = s.version
    BY <1>5, <1>7 DEF Shows, SameSubmission
  <2>2. \A r \in wire : r.no # m
    BY <1>1, <1>3 DEF Calm, Basics, FeedbackTypes, Numbered, Request
  <2> QED
    BY <1>1, <1>5, <1>6, <2>1, <2>2 DEF Sends
<1>12. SubmissionOK' /\ KeysOK'
  BY <1>1, <1>5, <1>11 DEF Calm, Basics, SubmissionOK, KeysOK
<1>13. WantedOK => WantedOK'
  BY <1>1, <1>6 DEF WantedOK, SameSubmission
<1> QED
  BY <1>1, <1>8, <1>9, <1>10, <1>12, <1>13 DEF Calm, Basics

\* SaveSubmitted: what is sent is stored as it is.
LEMMA SubmittedKeeps == ASSUME Calm, NEW s \in submissions, SaveSubmitted(s) PROVE Calm'
<1>1. UNCHANGED <<shots, chores, wire, reports, lapsed, edits, sent, wanted, mixed>>
  BY DEF SaveSubmitted
<1>2. CASE SaveNote(s) /\ Moves(s, "key") /\ UNCHANGED form
  <2>1. PICK n \in note : SameSubmission(n, s) /\ n.version = s.version
    BY TheSubmission DEF Calm, Sends
  <2>2. note' = note
    BY <1>2, <2>1, SavedAsItIs DEF Calm
  <2> QED
    BY <1>1, <1>2, <2>2, MoveKeeps
<1>3. CASE SendFails(s) /\ UNCHANGED note
  BY <1>1, <1>3, FailKeeps
<1> QED
  BY <1>2, <1>3 DEF SaveSubmitted

\* GetSubmissionKey: a version without a key has not been requested.
LEMMA KeyKeeps == ASSUME Calm, NEW s \in submissions, GetSubmissionKey(s) PROVE Calm'
<1>1. s.at = "key" /\ s \in Submission /\ submissions = {s} /\ chores = {} /\ Sends(s)
  BY TheSubmission DEF GetSubmissionKey, Calm
<1>2. PICK n \in note : SameSubmission(n, s) /\ n.version = s.version
  BY <1>1 DEF Sends
<1>3. n \in NoteRow /\ note = {n} /\ (CHOOSE x \in note : TRUE) = n
  BY TheNote DEF Calm, Basics, FeedbackTypes, ScreenOK
<1>4. PICK k \in Nat : k = IF n.key = 0 THEN s.no ELSE n.key
  BY <1>1, <1>3 DEF NoteRow, Submission
<1>5. /\ note' = {[n EXCEPT !.key = k]}
      /\ \/ /\ wire' = wire \cup {FeedbackRequest(s, k)} /\ Moves(s, "wire")
         \/ Moves(s, "failed") /\ UNCHANGED wire
      /\ UNCHANGED <<form, shots, chores, reports, lapsed, edits, sent, slips, wanted, mixed>>
  BY <1>3, <1>4 DEF GetSubmissionKey
<1>6. PICK d : d = [n EXCEPT !.key = k]
  OBVIOUS
<1>7. /\ note' = {d} /\ d \in NoteRow /\ d.key = k /\ d.words = n.words /\ d.shot = n.shot
      /\ d.version = n.version
  BY <1>3, <1>4, <1>5, <1>6 DEF NoteRow
<1>8. PICK q : q = FeedbackRequest(s, k)
  OBVIOUS
<1>9. /\ q \in Request /\ q.no = s.no /\ q.key = k /\ q.version = s.version
      /\ q.words = s.words /\ q.shot = s.shot
  BY <1>1, <1>4, <1>8 DEF FeedbackRequest, Request, Submission
<1>10. PICK at \in {"wire", "failed"} : Moves(s, at)
  BY <1>5
<1>11. PICK t : t = [s EXCEPT !.at = at]
  OBVIOUS
<1>12. /\ submissions' = {t} /\ t \in Submission /\ t.at = at /\ t.no = s.no /\ t.here = s.here
       /\ t.words = s.words /\ t.shot = s.shot /\ t.version = s.version
  <2>1. at \in {"save", "key", "wire", "failed", "reported"}
    OBVIOUS
  <2>2. submissions' = {t}
    BY <1>1, <1>10, <1>11 DEF Moves
  <2> QED
    BY <1>1, <1>11, <2>1, <2>2, MovedSubmission
<1>13. wire' = wire \/ wire' = wire \cup {q}
  BY <1>5, <1>8
<1>14. \A r \in wire \cup reports : s.version = r.version => k = r.key
  BY <1>2, <1>4 DEF Calm, Basics, Numbered, KeysOK
<1>15. FeedbackTypes'
  BY <1>5, <1>7, <1>9, <1>12, <1>13 DEF Calm, Basics, FeedbackTypes
<1>16. Numbered'
  <2>1. k > 0 /\ s.version <= edits /\ s.no <= sent
    BY <1>1, <1>2, <1>3, <1>4 DEF Calm, Basics, Numbered, NoteRow, Submission
  <2>2. \A x \in note' \cup wire' \cup reports' : x.version <= edits
    BY <1>2, <1>3, <1>5, <1>7, <1>9, <1>13, <2>1 DEF Calm, Basics, Numbered
  <2>3. \A r \in wire' \cup reports' : r.no <= sent /\ r.key > 0
    BY <1>5, <1>9, <1>13, <2>1 DEF Calm, Basics, Numbered
  <2>4. \A u \in submissions' : 0 < u.no /\ u.no <= sent
    BY <1>12 DEF Calm, Basics, Numbered
  <2> QED
    BY <1>1, <1>5, <2>2, <2>3, <2>4 DEF Numbered
<1>17. ScreenOK'
  BY <1>1, <1>3, <1>5, <1>7, <1>12 DEF Calm, Basics, ScreenOK, Shows
<1>18. Sends(t)'
  <2>1. \A r \in wire' : r.no = s.no => SameSubmission(r, s)
    BY <1>1, <1>9, <1>13 DEF Sends, SameSubmission
  <2>2. SameSubmission(d, t) /\ d.version = t.version
    BY <1>2, <1>7, <1>12 DEF SameSubmission
  <2>3. t.at # "reported"
    BY <1>12
  <2> QED
    BY <1>1, <1>5, <1>7, <1>12, <2>1, <2>2, <2>3 DEF Sends, SameSubmission
<1>19. SubmissionOK'
  BY <1>1, <1>5, <1>12, <1>18 DEF SubmissionOK
<1>20. KeysOK'
  BY <1>2, <1>5, <1>7, <1>9, <1>13, <1>14 DEF Calm, Basics, KeysOK
<1>21. WantedOK => WantedOK'
  BY <1>3, <1>5, <1>7 DEF WantedOK, SameSubmission
<1> QED
  BY <1>5, <1>15, <1>16, <1>17, <1>19, <1>20, <1>21 DEF Calm, Basics

\* GiveUp, CompleteSubmission and KeepDraft.
LEMMA SendingKeeps ==
    ASSUME Calm, NEW s \in submissions, GiveUp(s) \/ CompleteSubmission(s) \/ KeepDraft(s)
    PROVE  Calm'
<1>1. s \in Submission /\ submissions = {s} /\ chores = {} /\ Sends(s) /\ form \in FormPage
  BY TheSubmission DEF Calm, Basics, FeedbackTypes
<1>2. CASE GiveUp(s)
  BY <1>2, MoveKeeps DEF GiveUp
<1>3. CASE CompleteSubmission(s)
  <2>1. \E q \in reports : SameSubmission(q, s)
    BY <1>1, <1>3 DEF CompleteSubmission, Reported, Sends
  <2>2. UNCHANGED <<wire, reports, lapsed, edits, sent, mixed>>
    BY <1>3 DEF CompleteSubmission
  <2>3. CASE /\ note' = {} /\ SendEnds(s)
             /\ wanted' = IF \E q \in reports : SameSubmission(q, wanted) THEN Nothing ELSE wanted
    <3>1. Left({}) = {}
      BY DEF Left
    <3>2. submissions' = {} /\ chores' = {} /\ (form' = Page("closed", Blank) \/ (form' = form /\ ~s.here))
      BY <1>1, <2>3, <3>1 DEF SendEnds
    <3>3. form' \in FormPage /\ form'.at = "closed"
      BY <1>1, <3>2 DEF Sends, Page, Blank, FormPage
    <3> QED
      BY <2>1, <2>2, <2>3, <3>2, <3>3, EndKeeps
  <2>4. CASE Moves(s, "failed") /\ UNCHANGED <<form, note, chores, wanted>>
    BY <2>2, <2>4, MoveKeeps
  <2> QED
    BY <1>3, <2>3, <2>4 DEF CompleteSubmission
<1>4. CASE KeepDraft(s)
  <2>1. SaveNote(s) /\ SendFails(s) /\ UNCHANGED <<chores, wire, reports, lapsed, edits, sent, wanted, mixed>>
    BY <1>4 DEF KeepDraft
  <2>2. PICK n \in note : SameSubmission(n, s) /\ n.version = s.version
    BY <1>1 DEF Sends
  <2>3. note' = note
    BY <2>1, <2>2, SavedAsItIs DEF Calm
  <2> QED
    BY <2>1, <2>3, FailKeeps
<1> QED
  BY <1>2, <1>3, <1>4

(***************************************************************************)
(* The server and the phone's death.                                       *)
(***************************************************************************)
\* Retain stores no second report of a key that is not lapsed, and the answer
\* "reported" goes with a report of what was sent.
LEMMA RetainKeeps == ASSUME Calm, NEW r \in wire, Retain(r) PROVE Calm'
<1>1. /\ wire' = wire \ {r} /\ r \in Request
      /\ UNCHANGED <<form, note, shots, chores, lapsed, edits, sent, wanted, mixed>>
  BY DEF Retain, Calm, Basics, FeedbackTypes
<1>2. PICK at \in {"reported", "failed"} :
         /\ Answer(r, at)
         /\ \/ reports' = reports
            \/ reports' = reports \cup {r} /\ Known(r) = {}
         /\ at = "reported" => \E q \in reports' : SameSubmission(q, r)
  <2>1. CASE Known(r) # {} /\ UNCHANGED reports
             /\ Answer(r, IF \A q \in Known(r) : SameSubmission(q, r) THEN "reported" ELSE "failed")
    <3>1. Known(r) \subseteq reports
      BY DEF Known
    <3>2. CASE \A q \in Known(r) : SameSubmission(q, r)
      BY <2>1, <3>1, <3>2
    <3>3. CASE ~ \A q \in Known(r) : SameSubmission(q, r)
      BY <2>1, <3>3
    <3> QED
      BY <3>2, <3>3
  <2>2. CASE Known(r) = {} /\ reports' = reports \cup {r} /\ Answer(r, "reported")
    BY <2>2 DEF SameSubmission
  <2>3. CASE Known(r) = {} /\ Answer(r, "failed") /\ reports' \in {reports, reports \cup {r}}
    BY <2>3
  <2> QED
    BY <2>1, <2>2, <2>3 DEF Retain
<1>3. reports \subseteq reports' /\ reports' \subseteq reports \cup {r}
  BY <1>2
<1>4. ASSUME NEW t \in submissions'
      PROVE  \E s \in submissions :
                /\ t \in Submission /\ t.no = s.no /\ t.here = s.here
                /\ t.words = s.words /\ t.shot = s.shot /\ t.version = s.version
                /\ t = s \/ (s.no = r.no /\ t.at = at)
  <2>1. PICK s \in submissions :
           t = IF s.no = r.no /\ s.at = "wire" THEN [s EXCEPT !.at = at] ELSE s
    BY <1>2, <1>4 DEF Answer
  <2>2. s \in Submission
    BY DEF Calm, Basics, FeedbackTypes
  <2>3. /\ [s EXCEPT !.at = at] \in Submission /\ [s EXCEPT !.at = at].at = at
        /\ [s EXCEPT !.at = at].no = s.no /\ [s EXCEPT !.at = at].here = s.here
        /\ [s EXCEPT !.at = at].words = s.words /\ [s EXCEPT !.at = at].shot = s.shot
        /\ [s EXCEPT !.at = at].version = s.version
    <3>1. at \in {"save", "key", "wire", "failed", "reported"} /\ s \in Submission
      BY <2>2
    <3> QED
      BY <3>1, MovedSubmission
  <2> QED
    BY <2>1, <2>2, <2>3
<1>5. FeedbackTypes'
  BY <1>1, <1>3, <1>4 DEF Calm, Basics, FeedbackTypes
<1>6. Numbered'
  BY <1>1, <1>3, <1>4 DEF Calm, Basics, Numbered
<1>7. ScreenOK'
  <2>1. submissions # {} => submissions' # {}
    BY ZenonT(30), <1>2 DEF Answer
  <2> QED
    BY <1>1, <2>1 DEF Calm, Basics, ScreenOK, Shows
<1>8. SubmissionOK'
  <2>1. \A s, t \in submissions' : s = t
    BY <1>2 DEF Calm, Basics, SubmissionOK, Answer
  <2>2. submissions' # {} => chores' = {}
    BY <1>1, <1>4 DEF Calm, Basics, SubmissionOK
  <2>3. ASSUME NEW t \in submissions' PROVE Sends(t)'
    <3>1. PICK s \in submissions :
                /\ t \in Submission /\ t.no = s.no /\ t.here = s.here
                /\ t.words = s.words /\ t.shot = s.shot /\ t.version = s.version
                /\ t = s \/ (s.no = r.no /\ t.at = at)
      BY <1>4, <2>3
    <3>2. Sends(s)
      BY DEF Calm, Basics, SubmissionOK
    <3>3. t.at = "reported" => \E q \in reports' : SameSubmission(q, t)
      <4>1. CASE t = s
        BY <1>3, <3>2, <4>1 DEF Sends
      <4>2. CASE s.no = r.no /\ t.at = at
        <5>1. SameSubmission(r, s)
          BY <3>2, <4>2 DEF Sends
        <5> QED
          BY <1>2, <3>1, <4>2, <5>1 DEF SameSubmission
      <4> QED
        BY <3>1, <4>1, <4>2
    <3> QED
      BY <1>1, <3>1, <3>2, <3>3 DEF Sends, SameSubmission
  <2> QED
    BY <2>1, <2>2, <2>3 DEF SubmissionOK
<1>9. KeysOK'
  <2>1. wire' \cup reports' \subseteq wire \cup reports
    BY <1>1, <1>3
  <2>2. \A a, b \in reports' : a.key = b.key => a = b \/ a.key \in lapsed'
    <3>1. CASE reports' = reports
      BY <1>1, <3>1 DEF Calm, Basics, KeysOK
    <3>2. CASE reports' = reports \cup {r} /\ Known(r) = {}
      BY <1>1, <3>2 DEF Calm, Basics, KeysOK, Known
    <3> QED
      BY <1>2, <3>1, <3>2
  <2> QED
    BY <1>1, <2>1, <2>2 DEF Calm, Basics, KeysOK
<1>10. WantedOK => WantedOK'
  BY <1>1 DEF WantedOK, SameSubmission
<1> QED
  BY <1>1, <1>5, <1>6, <1>7, <1>8, <1>9, <1>10 DEF Calm, Basics

\* KeyExpires.
LEMMA LapseKeeps == ASSUME Calm, NEW q \in reports, KeyExpires(q) PROVE Calm'
<1>1. /\ lapsed \subseteq lapsed'
      /\ UNCHANGED <<form, note, chores, submissions, wire, reports, edits, sent, wanted, mixed>>
  BY DEF KeyExpires
<1>2. FeedbackTypes' /\ Numbered'
  BY <1>1 DEF Calm, Basics, FeedbackTypes, Numbered
<1>3. ScreenOK' /\ SubmissionOK'
  BY <1>1 DEF Calm, Basics, ScreenOK, Shows, SubmissionOK, Sends
<1>4. KeysOK' /\ (WantedOK => WantedOK')
  BY <1>1 DEF Calm, Basics, KeysOK, WantedOK, SameSubmission
<1> QED
  BY <1>1, <1>2, <1>3, <1>4 DEF Calm, Basics

\* FeedbackAppDies.
LEMMA DeathKeeps == ASSUME Calm, FeedbackAppDies PROVE Calm'
<1>1. /\ form' = [at |-> "closed", words |-> 0, shot |-> 0, version |-> 0]
      /\ submissions' = {} /\ chores' = {}
      /\ UNCHANGED <<note, shots, wire, reports, lapsed, edits, sent, wanted, mixed>>
  BY DEF FeedbackAppDies, Page, Blank
<1>2. form' \in FormPage
  BY <1>1 DEF FormPage
<1>3. FeedbackTypes' /\ Numbered'
  BY <1>1, <1>2 DEF Calm, Basics, FeedbackTypes, Numbered
<1>4. ScreenOK' /\ SubmissionOK' /\ KeysOK' /\ (WantedOK => WantedOK')
  BY <1>1 DEF Calm, Basics, ScreenOK, SubmissionOK, KeysOK, WantedOK
<1> QED
  BY <1>1, <1>3, <1>4 DEF Calm, Basics

(***************************************************************************)
(* The theorems.                                                            *)
(***************************************************************************)
\* Nothing is written, sent or reported to begin with.
LEMMA FeedbackInvInit == FeedbackInit => FeedbackInv
<1> SUFFICES ASSUME FeedbackInit PROVE Calm
  BY DEF FeedbackInv
<1>1. form = [at |-> "closed", words |-> 0, shot |-> 0, version |-> 0]
  BY DEF FeedbackInit, Page, Blank
<1>2. form \in FormPage /\ wanted \in [words : Nat, shot : Nat]
  BY <1>1 DEF FormPage, FeedbackInit, Nothing
<1> QED
  BY <1>1, <1>2 DEF FeedbackInit, Calm, Basics, FeedbackTypes, Numbered, ScreenOK, SubmissionOK,
                    KeysOK, WantedOK

\* What was mixed stays mixed, and what goes on beside a form that is opened, or a
\* chore beside a submission, is mixed.
LEMMA Overlaps ==
    ASSUME [FeedbackNext]_feedbackVars
    PROVE  /\ mixed \subseteq mixed'
           /\ OpenForm /\ "reopened" \notin mixed' => submissions = {} /\ chores = {}
           /\ Submit /\ "crossed" \notin mixed' => chores = {}
           /\ ChooseScreenshot \/ RemoveScreenshot \/ DiscardDraft => "crossed" \in mixed' \/ submissions = {}
BY DEF FeedbackNext, feedbackVars, OpenForm, Type, ChooseScreenshot, ScreenshotChosen, RemoveScreenshot,
       ScreenshotRemoved, DiscardDraft, DraftDiscarded, LeaveForm, Submit, SaveSubmitted,
       GetSubmissionKey, GiveUp, CompleteSubmission, KeepDraft, Retain, KeyExpires, FeedbackAppDies,
       Begins, Mixes

\* Every step keeps the invariant.
LEMMA FeedbackInvNext == FeedbackInv /\ [FeedbackNext]_feedbackVars => FeedbackInv'
<1> SUFFICES ASSUME FeedbackInv, [FeedbackNext]_feedbackVars,
                    mixed' \cap {"reopened", "crossed"} = {}
             PROVE  Calm'
  BY DEF FeedbackInv
<1>1. Calm /\ "reopened" \notin mixed' /\ "crossed" \notin mixed'
  BY Overlaps DEF FeedbackInv
<1>2. CASE UNCHANGED feedbackVars
  <2>1. FeedbackTypes' /\ Numbered'
    BY <1>1, <1>2 DEF feedbackVars, Calm, Basics, FeedbackTypes, Numbered
  <2>2. ScreenOK' /\ SubmissionOK'
    BY <1>1, <1>2 DEF feedbackVars, Calm, Basics, ScreenOK, Shows, SubmissionOK, Sends
  <2>3. KeysOK' /\ (WantedOK => WantedOK')
    BY <1>1, <1>2 DEF feedbackVars, Calm, Basics, KeysOK, WantedOK, SameSubmission
  <2> QED
    BY <1>1, <1>2, <2>1, <2>2, <2>3 DEF feedbackVars, Calm, Basics
<1>3. CASE FeedbackNext
  <2>1. CASE OpenForm
    BY <1>1, <2>1, Overlaps, OpenKeeps
  <2>2. CASE Type
    BY <1>1, <2>2, TypeKeeps
  <2>3. CASE ChooseScreenshot
    BY <1>1, <2>3, Overlaps, BeginKeeps DEF ChooseScreenshot
  <2>4. CASE RemoveScreenshot
    BY <1>1, <2>4, Overlaps, BeginKeeps DEF RemoveScreenshot
  <2>5. CASE DiscardDraft
    BY <1>1, <2>5, Overlaps, BeginKeeps DEF DiscardDraft
  <2>6. ASSUME NEW k \in chores, ScreenshotChosen(k) \/ ScreenshotRemoved(k) \/ DraftDiscarded(k)
        PROVE  Calm'
    BY <1>1, <2>6, ChoreKeeps, DiscardKeeps
  <2>7. CASE LeaveForm
    BY <1>1, <2>7, LeaveKeeps
  <2>8. CASE Submit
    BY <1>1, <2>8, Overlaps, SubmitKeeps
  <2>9. ASSUME NEW s \in submissions, \/ SaveSubmitted(s) \/ GetSubmissionKey(s) \/ GiveUp(s)
                                       \/ CompleteSubmission(s) \/ KeepDraft(s)
        PROVE  Calm'
    BY <1>1, <2>9, SubmittedKeeps, KeyKeeps, SendingKeeps
  <2>10. ASSUME NEW r \in wire, Retain(r) PROVE Calm'
    BY <1>1, <2>10, RetainKeeps
  <2>11. ASSUME NEW q \in reports, KeyExpires(q) PROVE Calm'
    BY <1>1, <2>11, LapseKeeps
  <2>12. CASE FeedbackAppDies
    BY <1>1, <2>12, DeathKeeps
  <2> QED
    BY <1>3, <2>1, <2>2, <2>3, <2>4, <2>5, <2>6, <2>7, <2>8, <2>9, <2>10, <2>11, <2>12 DEF FeedbackNext
<1> QED
  BY <1>2, <1>3

\* The invariant holds always.
LEMMA FeedbackInvAlways == FeedbackSpec => []FeedbackInv
BY FeedbackInvInit, FeedbackInvNext, PTL DEF FeedbackSpec

\* What was written once is reported once, whatever fails, dies, arrives late or is
\* submitted again: reports of one version have one key, and of one key there is one
\* report as long as the server remembers it (feedback-draft-store.ts:111-199,
\* retained-feedback.ts:171-229).  Excepted are forms that were opened beside what
\* went on, and submissions that a pick, a removal or a discard crossed; picks,
\* removals and discards that overlap with edits or each other are not excepted.
THEOREM ReportedOnceAlways == FeedbackSpec => []ReportedOnce
<1>1. FeedbackInv => ReportedOnce
  <2> SUFFICES ASSUME Calm PROVE ReportedOnce
    BY DEF FeedbackInv, ReportedOnce
  <2> QED
    BY DEF Calm, Basics, KeysOK, ReportedOnce
<1> QED
  BY <1>1, FeedbackInvAlways, PTL

\* What was typed and the screenshot that was chosen are stored until they are
\* reported or discarded, also when a submission fails, a form is left or the app
\* dies; excepted is what overlapped with a chore or a form that was left
\* (app/feedback.tsx:152-174, feedback-form-screen.tsx:92-175).
THEOREM DraftKeptAlways == FeedbackSpec => []DraftKept
<1>1. FeedbackInv => DraftKept
  <2> SUFFICES ASSUME FeedbackInv, mixed = {}, wanted # Nothing
               PROVE  \E n \in note : SameSubmission(n, wanted)
    BY DEF DraftKept
  <2>1. WantedOK
    BY DEF FeedbackInv, Calm
  <2> QED
    BY <2>1 DEF WantedOK
<1> QED
  BY <1>1, FeedbackInvAlways, PTL
=============================================================================
