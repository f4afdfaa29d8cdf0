---------------------------- MODULE ContentBoard ----------------------------
(***************************************************************************)
(* The review queues of src/src/dashboard/server.js, Crete content and GHL *)
(* marketing drafts, and the n8n workflows that publish them               *)
(* (src/n8n-workflows).  Rows live in Supabase; the workflows are reached  *)
(* by webhooks nobody waits for, by a timer that looks for approved rows   *)
(* that are due, and by replies to a Telegram message.  A day stands for a *)
(* publishing slot.                                                        *)
(***************************************************************************)
EXTENDS Integers, FiniteSets

CONSTANTS Item,         \* rows of crete_content_queue
          Draft,        \* rows of marketing_drafts
          LastDay,      \* the days the calendar offers
          PublishTries, \* attempts after which an item is failed: 3
          ItemLimit,    \* items a tick of the timer takes: 10
          DraftLimit,   \* drafts: 25
          MaxLost       \* bound: publishing webhooks and runs that are lost

ASSUME BoardAssumption ==
  /\ LastDay \in Nat /\ {PublishTries, ItemLimit, DraftLimit} \subseteq Nat \ {0}
  /\ MaxLost \in Nat /\ Item \cap Draft = {}

VARIABLES content,      \* status of each Crete item
          dated,        \* its scheduled_for
          postTries,    \* its publish_attempts, counted to PublishTries
          draft,        \* status of each GHL draft
          slot,         \* its scheduled_for; 0 is none
          lacking,      \* drafts with publish_errors: a platform did not take them
          picked,       \* the slot a schedule request has read but not written
          today,
          hooks,        \* publish webhooks on their way
          publishing,   \* rows a publishing run has fetched and will write back
          fetched,      \* the publish_attempts it read
          regens,       \* regenerate webhooks of items on their way
          signedOff,    \* rows a reviewer has approved
          posted,       \* rows shown to the public
          lostCalls     \* publishing webhooks and runs lost, out of MaxLost

boardVars == <<content, dated, postTries, draft, slot, lacking, picked, today, hooks,
               publishing, fetched, regens, signedOff, posted, lostCalls>>

Row == Item \cup Draft
Days == 1..LastDay
ItemStatus == {"none", "pending_review", "approved", "rejected", "published", "failed"}
DraftStatus == {"none", "pending_approval", "approved", "rejected", "published",
                "partially_published"}

BoardTypeOK ==
  /\ content \in [Item -> ItemStatus] /\ dated \in [Item -> {"never", "later", "due"}]
  /\ postTries \in [Item -> 0..PublishTries] /\ fetched \in [Item -> 0..PublishTries]
  /\ draft \in [Draft -> DraftStatus]
  /\ slot \in [Draft -> 0..LastDay] /\ picked \in [Draft -> 0..LastDay]
  /\ today \in 0..LastDay /\ lostCalls \in 0..MaxLost /\ lacking \subseteq Draft
  /\ regens \subseteq Item /\ {hooks, publishing, signedOff, posted} \subseteq SUBSET Row

BoardInit ==
  /\ content = [i \in Item |-> "none"] /\ dated = [i \in Item |-> "never"]
  /\ postTries = [i \in Item |-> 0] /\ fetched = [i \in Item |-> 0]
  /\ draft = [d \in Draft |-> "none"] /\ lacking = {}
  /\ slot = [d \in Draft |-> 0] /\ picked = [d \in Draft |-> 0]
  /\ today = 0 /\ hooks = {} /\ publishing = {} /\ regens = {}
  /\ signedOff = {} /\ posted = {} /\ lostCalls = 0

\* What the steps of a kind leave alone.
itemVars == <<content, dated, postTries>>
draftVars == <<draft, slot, lacking, picked>>
runVars == <<publishing, fetched, posted, lostCalls>>

Marks(i, status) == content[i] # "none" /\ content' = [content EXCEPT ![i] = status]

\* A webhook is fired and forgotten: it may be lost.
Fires(queue, r) == {queue, queue \cup {r}}

-----------------------------------------------------------------------------
(* Crete content: every request patches the row by its id, whatever its status. *)

PostContent(i) ==
  /\ content[i] = "none" /\ content' = [content EXCEPT ![i] = "pending_review"]
  /\ \E w \in {"never", "later", "due"} : dated' = [dated EXCEPT ![i] = w]
  /\ UNCHANGED <<postTries, draftVars, runVars, today, hooks, regens, signedOff>>

ApproveContent(i) ==
  /\ Marks(i, "approved") /\ signedOff' = signedOff \cup {i}
  /\ hooks' \in IF dated[i] = "later" THEN {hooks} ELSE Fires(hooks, i)
  /\ UNCHANGED <<dated, postTries, draftVars, runVars, today, regens>>

RejectContent(i) ==
  /\ Marks(i, "rejected") /\ regens' \in Fires(regens, i)
  /\ UNCHANGED <<dated, postTries, draftVars, runVars, today, hooks, signedOff>>

RegenerateContent(i) ==
  /\ Marks(i, "pending_review") /\ regens' \in Fires(regens, i)
  /\ UNCHANGED <<dated, postTries, draftVars, runVars, today, hooks, signedOff>>

\* PUT /api/crete/content/:id may move the date.
EditContent(i) ==
  /\ content[i] # "none"
  /\ \E w \in {"never", "later", "due"} : dated' = [dated EXCEPT ![i] = w]
  /\ UNCHANGED <<content, postTries, draftVars, runVars, today, hooks, regens, signedOff>>

ContentDue(i) ==
  /\ dated[i] = "later" /\ dated' = [dated EXCEPT ![i] = "due"]
  /\ UNCHANGED <<content, postTries, draftVars, runVars, today, hooks, regens, signedOff>>

\* The regenerating workflow writes new text to the row and may put it up for
\* review again; it is not in the repository.
ContentRewritten(i) ==
  /\ i \in regens /\ regens' = regens \ {i}
  /\ content' \in {content, [content EXCEPT ![i] = "pending_review"]}
  /\ UNCHANGED <<dated, postTries, draftVars, runVars, today, hooks, signedOff>>

-----------------------------------------------------------------------------
(* GHL drafts *)

\* A new draft is put up for review: by the generator, or in the place of one
\* that was sent back, unless the rewriting fails.
DraftArrives(d) ==
  /\ draft[d] = "none" /\ draft' = [draft EXCEPT ![d] = "pending_approval"]
  /\ UNCHANGED <<itemVars, slot, lacking, picked, runVars, today, hooks, regens, signedOff>>

\* ghlSlotTaken: an approved or published draft has the day.
SlotTaken(day) ==
  \E d \in Draft : draft[d] \in {"approved", "published", "partially_published"} /\ slot[d] = day

\* ghlNextMwfSlot: the first day to come that is free, the draft's own slot
\* counting as taken; a failed lookup takes a day for free.
NextSlot(day) == day > today /\ \A e \in Days : today < e /\ e < day => SlotTaken(e)

SchedulePicks(d) ==
  /\ draft[d] # "none" /\ picked[d] = 0
  /\ \E day \in Days : NextSlot(day) /\ picked' = [picked EXCEPT ![d] = day]
  /\ UNCHANGED <<itemVars, draft, slot, lacking, runVars, today, hooks, regens, signedOff>>

\* ghlPatchDraft: written, or refused.
DraftApproved(d, day) ==
  /\ draft[d] # "none" /\ draft' = [draft EXCEPT ![d] = "approved"]
  /\ slot' = [slot EXCEPT ![d] = day]
  /\ signedOff' = signedOff \cup {d}

ScheduleWrites(d) ==
  /\ picked[d] # 0 /\ picked' = [picked EXCEPT ![d] = 0]
  /\ DraftApproved(d, picked[d]) \/ UNCHANGED <<draft, slot, signedOff>>
  /\ UNCHANGED <<itemVars, lacking, runVars, today, hooks, regens>>

ScheduleCustom(d) ==
  /\ \E day \in Days : day > today /\ DraftApproved(d, day)
  /\ UNCHANGED <<itemVars, lacking, picked, runVars, today, hooks, regens>>

PostNow(d) ==
  /\ today > 0 /\ DraftApproved(d, today) /\ hooks' \in Fires(hooks, d)
  /\ UNCHANGED <<itemVars, lacking, picked, runVars, today, regens>>

\* The reject request; any other answer than "go" to the draft's message; and the
\* regenerate request, which does nothing but post a webhook that may come at any
\* time or never.  The last two write a new text, as another draft (DraftArrives).
RejectDraft(d) ==
  /\ draft[d] # "none" /\ draft' = [draft EXCEPT ![d] = "rejected"]
  /\ UNCHANGED <<itemVars, slot, lacking, picked, runVars, today, hooks, regens, signedOff>>

\* The owner answers the draft's Telegram message with "go": approved in the slot
\* it has, or none, and published at once if the webhook arrives.
TelegramGo(d) ==
  /\ DraftApproved(d, slot[d]) /\ hooks' \in Fires(hooks, d)
  /\ UNCHANGED <<itemVars, lacking, picked, runVars, today, regens>>

DayPasses ==
  /\ today < LastDay /\ today' = today + 1
  /\ UNCHANGED <<itemVars, draftVars, runVars, hooks, regens, signedOff>>

-----------------------------------------------------------------------------
(* The publishing workflows *)

ContentIsDue(i) == content[i] = "approved" /\ dated[i] = "due" /\ postTries[i] < PublishTries

\* Fault: the slot of today is taken for one to come.
DraftIsOverdue(d) == draft[d] = "approved" /\ slot[d] \in 1..today - 1

\* Approved, and its slot (a row without one is not looked for) has come.
DraftIsDue(d) == draft[d] = "approved" /\ slot[d] \in 1..today

Loses == lostCalls < MaxLost /\ lostCalls' = lostCalls + 1

\* The timer posts a webhook for each of these rows; one may get lost.
TimerFires(rows) ==
  /\ rows \ hooks # {}
  /\ \/ hooks' = hooks \cup rows /\ UNCHANGED lostCalls
     \/ Loses /\ \E r \in rows \ hooks : hooks' = hooks \cup (rows \ {r})
  /\ UNCHANGED <<itemVars, draftVars, publishing, fetched, posted, today, regens, signedOff>>

\* As many as the limit lets, of the items any (their dates are not told apart),
\* of the drafts those of the earliest slots.
ContentTick ==
  \E rows \in SUBSET {i \in Item : ContentIsDue(i)} :
    /\ \/ Cardinality(rows) = ItemLimit
       \/ Cardinality(rows) < ItemLimit /\ \A i \in Item \ rows : ~ContentIsDue(i)
    /\ TimerFires(rows)

DraftTick ==
  \E rows \in SUBSET {d \in Draft : DraftIsDue(d)} :
    /\ \/ Cardinality(rows) = DraftLimit
       \/ Cardinality(rows) < DraftLimit /\ \A d \in Draft \ rows : ~DraftIsDue(d)
    /\ \A d \in rows, e \in Draft \ rows : DraftIsDue(e) => slot[d] <= slot[e]
    /\ TimerFires(rows)

\* The webhook arrives and the row is fetched, whatever its status, one run of a
\* row at a time; if that fails the run dies.
PublishStarts(r) ==
  /\ r \in hooks /\ r \notin publishing /\ hooks' = hooks \ {r}
  /\ \/ /\ publishing' = publishing \cup {r} /\ UNCHANGED lostCalls
        /\ fetched' = [i \in Item |-> IF i = r THEN postTries[i] ELSE fetched[i]]
     \/ Loses /\ UNCHANGED <<publishing, fetched>>
  /\ UNCHANGED <<itemVars, draftVars, posted, today, regens, signedOff>>

\* What was shown, if anything was: an answer can be lost, and a platform the
\* workflow does not know is passed over.
MayPost(r) == posted' \in {posted, posted \cup {r}}

\* The item is marked published, or failed for want of its picture; after an
\* error it is approved again until its last attempt.  The write may fail.
PublishContent(i) ==
  LET n == IF fetched[i] < PublishTries THEN fetched[i] + 1 ELSE PublishTries
      Written(status) == /\ content' = [content EXCEPT ![i] = status]
                         /\ postTries' = [postTries EXCEPT ![i] = n] /\ UNCHANGED lostCalls
  IN  /\ i \in publishing /\ publishing' = publishing \ {i}
      /\ \/ Written("published") /\ MayPost(i)
         \/ Written("failed") /\ UNCHANGED posted
         \/ Written(IF n < PublishTries THEN "approved" ELSE "failed") /\ MayPost(i)
         \/ Loses /\ MayPost(i) /\ UNCHANGED <<content, postTries>>
      /\ UNCHANGED <<dated, draftVars, fetched, today, hooks, regens, signedOff>>

\* All platforms took the draft, or not all, even none.
Shown(d) ==
  \/ /\ draft' = [draft EXCEPT ![d] = "published"]
     /\ lacking' = lacking \ {d} /\ posted' = posted \cup {d}
  \/ /\ draft' = [draft EXCEPT ![d] = "partially_published"]
     /\ lacking' = lacking \cup {d} /\ MayPost(d)

PublishDraft(d) ==
  /\ d \in publishing /\ publishing' = publishing \ {d}
  /\ \/ Shown(d) /\ UNCHANGED lostCalls
     \/ Loses /\ MayPost(d) /\ UNCHANGED <<draft, lacking>>
  /\ UNCHANGED <<itemVars, slot, picked, fetched, today, hooks, regens, signedOff>>

\* The operator's retry posts to the platforms that are lacking; where none is
\* recorded it posts nothing and marks the draft published, whatever its status.
PlatformRetry(d) ==
  /\ draft[d] # "none"
  /\ \/ d \in lacking /\ Shown(d)
     \/ d \in lacking /\ MayPost(d) /\ UNCHANGED <<draft, lacking>>
     \/ /\ d \notin lacking /\ draft' = [draft EXCEPT ![d] = "published"]
        /\ UNCHANGED <<lacking, posted>>
  /\ UNCHANGED <<itemVars, slot, picked, publishing, fetched, lostCalls, today, hooks, regens,
                 signedOff>>

BoardNext ==
  \/ \E i \in Item : \/ PostContent(i) \/ ApproveContent(i) \/ RejectContent(i)
                     \/ RegenerateContent(i) \/ EditContent(i) \/ ContentDue(i)
                     \/ ContentRewritten(i) \/ PublishContent(i)
  \/ \E d \in Draft : \/ DraftArrives(d) \/ SchedulePicks(d) \/ ScheduleWrites(d)
                      \/ ScheduleCustom(d) \/ PostNow(d) \/ RejectDraft(d)
                      \/ TelegramGo(d) \/ PublishDraft(d) \/ PlatformRetry(d)
  \/ \E r \in Row : PublishStarts(r)
  \/ DayPasses \/ ContentTick \/ DraftTick

\* Days go by, the timers fire and a workflow that was started ends.
BoardFairness ==
  /\ WF_boardVars(DayPasses) /\ WF_boardVars(ContentTick) /\ WF_boardVars(DraftTick)
  /\ \A r \in Row : WF_boardVars(PublishStarts(r))
  /\ \A i \in Item : WF_boardVars(PublishContent(i))
  /\ \A d \in Draft : WF_boardVars(PublishDraft(d))

BoardSpec == BoardInit /\ [][BoardNext]_boardVars /\ BoardFairness

-----------------------------------------------------------------------------
\* Nothing is shown to the public, or on its way to be, that no reviewer has
\* ever approved: not by the timer, by a webhook that comes late, by an item put
\* back to approved after an error, or by a retry (approve, schedule, post-now,
\* the answer "go", and the publishing workflows).
PostedWasApproved == posted \cup hooks \cup publishing \subseteq signedOff

\* An approved row whose time has come does not wait for ever: if its webhook or
\* its run is lost the timer finds it, unless it is sent back or dated anew
\* meanwhile.  An item out of attempts and a draft that the answer "go" approved
\* without a slot are not promised: no timer looks for them.
ApprovedRowsGoOut ==
  /\ \A i \in Item : ContentIsDue(i) ~> ~ContentIsDue(i)
  /\ \A d \in Draft, day \in Days :
       (draft[d] = "approved" /\ slot[d] = day) ~> (draft[d] # "approved" \/ slot[d] # day)
=============================================================================
