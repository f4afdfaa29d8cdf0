------------------------------ MODULE SkillCall ------------------------------
(***************************************************************************)
(* A skill's HTTP call from the approval prompt to its report              *)
(* (src/src/tools/registry.js, src/src/security/approval-summary.js,       *)
(* src/src/security/subject-resolvers.js): the subject is looked up for    *)
(* the prompt, the request sent under a time limit, and after a write      *)
(* whose outcome is unknown the subject is read again.  The subject is a   *)
(* row of the service, which other callers change too.                     *)
(***************************************************************************)
EXTENDS Naturals

CONSTANT MaxCalls       \* calls made

ASSUME SkillAssumption == MaxCalls \in Nat

VARIABLES row,          \* the row the call names: "open" or "closed"
          calls,        \* calls begun
          method,       \* of each call: "read", "write", or "preset": a write of
                        \* a built-in API (a calendar event, a sheet, a webhook)
          named,        \* its arguments name an identifier
          resolver,     \* a subject resolver is registered for the skill
          phase,        \* "idle", "prompt", "sent", "headers", "unknown"
          subject,      \* what the prompt shows: "none", "failed", a state
          reqState,      \* at the service: "none", "queued", "applied", "refused"
          own,          \* calls whose write was applied
          refused,      \* calls the service refused
          told          \* what each call's tool result says

skillVars == <<row, calls, method, named, resolver, phase, subject, reqState, own, refused, told>>
skillCallKept == <<calls, method, named, resolver>>

CallNo == 1..MaxCalls
Report == {"none", "ok", "refused", "text", "failed", "denied", "unverified", "open", "closed"}

SkillCallTypeOK ==
  /\ row \in {"open", "closed"} /\ calls \in 0..MaxCalls
  /\ method \in [CallNo -> {"read", "write", "preset"}] /\ named \in BOOLEAN /\ resolver \in BOOLEAN
  /\ phase \in {"idle", "prompt", "sent", "headers", "unknown"}
  /\ subject \in {"none", "failed", "open", "closed"}
  /\ reqState \in [CallNo -> {"none", "queued", "applied", "refused"}]
  /\ own \subseteq CallNo /\ refused \subseteq CallNo /\ told \in [CallNo -> Report]

SkillCallInit ==
  /\ row = "open" /\ calls = 0 /\ method = [c \in CallNo |-> "read"] /\ named = FALSE /\ resolver \in BOOLEAN
  /\ phase = "idle" /\ subject = "none" /\ reqState = [c \in CallNo |-> "none"]
  /\ own = {} /\ refused = {} /\ told = [c \in CallNo |-> "none"]

-----------------------------------------------------------------------------
(* The prompt *)

\* extractIdentifiers finds an identifier or none, and resolveSubject looks it
\* up, within 5 s and failing visibly.
Lookup(s) ==
  IF ~resolver \/ ~named' THEN s = "none" ELSE s \in {row, "failed"}

Prompt(m, n) ==
  /\ phase = "idle" /\ calls < MaxCalls
  /\ calls' = calls + 1 /\ method' = [method EXCEPT ![calls + 1] = m] /\ named' = n
  /\ phase' = IF m = "write" THEN "prompt" ELSE "sent"
  /\ \E s \in {"none", "failed", row} :
       subject' = s /\ (IF m = "write" THEN Lookup(s) ELSE s = "none")
  /\ reqState' = IF m = "write" THEN reqState ELSE [reqState EXCEPT ![calls + 1] = "queued"]
  /\ UNCHANGED <<row, resolver, own, refused, told>>

\* A write of a built-in API asks for no approval: the gate is not told its
\* verb.
PresetCall ==
  /\ phase = "idle" /\ calls < MaxCalls
  /\ calls' = calls + 1 /\ method' = [method EXCEPT ![calls + 1] = "preset"]
  /\ phase' = "sent" /\ reqState' = [reqState EXCEPT ![calls + 1] = "queued"]
  /\ subject' = "none" /\ named' = FALSE
  /\ UNCHANGED <<row, resolver, own, refused, told>>

Tells(what) == told' = [told EXCEPT ![calls] = what] /\ phase' = "idle"

ApprovalDenied ==
  /\ phase = "prompt" /\ Tells("denied")
  /\ UNCHANGED <<row, skillCallKept, subject, reqState, own, refused>>

\* Approved: the templates are resolved and the request sent.
SkillSend ==
  /\ phase = "prompt" /\ phase' = "sent"
  /\ reqState' = [reqState EXCEPT ![calls] = "queued"]
  /\ UNCHANGED <<row, skillCallKept, subject, own, refused, told>>

-----------------------------------------------------------------------------
(* The service *)

\* The service takes a queued request up, whether its caller still waits or
\* not: a write closes an open row, and a closed one refuses it.
ServiceTakes(c) ==
  /\ reqState[c] = "queued"
  /\ IF method[c] = "read"
     THEN reqState' = [reqState EXCEPT ![c] = "applied"] /\ UNCHANGED <<row, own, refused>>
     ELSE IF row = "open"
     THEN /\ reqState' = [reqState EXCEPT ![c] = "applied"] /\ row' = "closed"
          /\ own' = own \cup {c} /\ UNCHANGED refused
     ELSE /\ reqState' = [reqState EXCEPT ![c] = "refused"] /\ refused' = refused \cup {c}
          /\ UNCHANGED <<row, own>>
  /\ UNCHANGED <<skillCallKept, phase, subject, told>>

\* Another caller closes the row.
OtherCloses ==
  /\ row = "open" /\ row' = "closed"
  /\ UNCHANGED <<skillCallKept, phase, subject, reqState, own, refused, told>>

-----------------------------------------------------------------------------
(* The answer *)

\* The headers arrive; the body is still to be read under the same limit.
Headers ==
  /\ phase = "sent" /\ reqState[calls] \in {"applied", "refused"} /\ phase' = "headers"
  /\ UNCHANGED <<row, skillCallKept, subject, reqState, own, refused, told>>

\* A 2xx is the result; any other 4xx is thrown as the service states it.
Body ==
  /\ phase = "headers" /\ method[calls] # "preset"
  /\ Tells(IF reqState[calls] = "applied" THEN "ok" ELSE "refused")
  /\ UNCHANGED <<row, skillCallKept, subject, reqState, own, refused>>

\* A preset's status error is not thrown: it is a text like any result.
PresetBody ==
  /\ phase = "headers" /\ method[calls] = "preset"
  /\ Tells(IF reqState[calls] = "applied" THEN "ok" ELSE "text")
  /\ UNCHANGED <<row, skillCallKept, subject, reqState, own, refused>>

\* The connection fails or the limit passes: before the headers a write's
\* outcome is unknown; the loss of a read, of a preset's call or of a body is a
\* failed call.
ConnectionLost ==
  /\ phase \in {"sent", "headers"}
  /\ IF phase = "sent" /\ method[calls] = "write" THEN phase' = "unknown" /\ UNCHANGED told
     ELSE Tells("failed")
  /\ UNCHANGED <<row, skillCallKept, subject, reqState, own, refused>>

\* Fault: a 5xx is told like any other status.
ServerErrorRefuses ==
  /\ phase \in {"sent", "headers"}
  /\ Tells(IF method[calls] = "preset" THEN "text" ELSE "refused")
  /\ UNCHANGED <<row, skillCallKept, subject, reqState, own, refused>>

\* A 5xx, which the service may send after the write was applied: a write's
\* outcome is unknown, the rest is told like any status.
ServerError ==
  /\ phase \in {"sent", "headers"}
  /\ IF method[calls] = "write" THEN phase' = "unknown" /\ UNCHANGED told
     ELSE Tells(IF method[calls] = "read" THEN "refused" ELSE "text")
  /\ UNCHANGED <<row, skillCallKept, subject, reqState, own, refused>>

\* observeAfterWrite: the subject is looked up again, and its state is the
\* report.
ObserveAfterWrite ==
  /\ phase = "unknown"
  /\ Tells(IF resolver /\ named THEN row ELSE "unverified") \/ Tells("unverified")
  /\ UNCHANGED <<row, skillCallKept, subject, reqState, own, refused>>

SkillNext ==
  \/ \E m \in {"read", "write"}, n \in BOOLEAN : Prompt(m, n)
  \/ ApprovalDenied \/ SkillSend \/ OtherCloses \/ (\E c \in CallNo : ServiceTakes(c))
  \/ PresetCall \/ Headers \/ Body \/ PresetBody \/ ConnectionLost \/ ServerError \/ ObserveAfterWrite

SkillSpec == SkillCallInit /\ [][SkillNext]_skillVars

-----------------------------------------------------------------------------
\* What a result says of its own write is so, whatever the service, the other
\* callers and earlier calls still queued do meanwhile: "ok" was applied, a
\* refusal and a denied approval changed nothing, and a re-read "closed" is
\* still closed.
ResultsAreTrue ==
  \A c \in CallNo :
    /\ told[c] \in {"refused", "denied"} => c \notin own
    /\ told[c] = "ok" => reqState[c] = "applied" /\ c \notin refused
    /\ told[c] = "closed" => row = "closed"
=============================================================================
