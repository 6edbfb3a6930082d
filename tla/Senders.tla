-------------------------------- MODULE Senders --------------------------------
(***************************************************************************)
(* The sender pages in the tabs of one browser: the mode it remembers, the *)
(* draft that rides along when a person changes mode, and what is sent.    *)
(*                                                                         *)
(* localStorage is one for all tabs, sessionStorage is each tab's own.  A  *)
(* document runs its redirect script and its main script one after the     *)
(* other, and other tabs may run in between.  A text is what it amounts to:*)
(* words, one of our closed links, or blank.  The names are kept apart     *)
(* from those of the uploads, which run on the same pages.                 *)
(***************************************************************************)
EXTENDS Naturals

CONSTANTS
    Tabs,
    Words               \* texts, also ones with a link somewhere in them

ASSUME SendersAssumption == Words \intersect {"", "link", "blank", "file"} = {}

VARIABLES
    ready,              \* tdCryptoReady() of this browser
    td_mode,            \* in localStorage
    td_draft,           \* in each tab's sessionStorage
    document,           \* the document in each tab
    phase,              \* how far it is
    text,               \* what is in its textarea
    sending,            \* what it is sending, while busy
    shown,              \* whether it shows the card of a throw
    carried             \* the text the person changed mode with, until it is touched

tabvars == <<ready, td_mode, td_draft, document, phase, text, sending, shown, carried>>

Open == {"home", "open landing"}
Landings == {"open landing", "closed landing"}
Senders == Open \union {"closed", "closed landing"}

ModeOf(p) == IF p \in Open THEN "open" ELSE "closed"

Texts == Words \union {"", "link", "blank"}

\* `sealed` is whether the server gets it encrypted.
NoText == [value |-> "", sealed |-> FALSE]

InitTabs ==
    /\ ready \in BOOLEAN
    /\ td_mode \in {"", "open", "closed"}
    /\ td_draft = [t \in Tabs |-> ""]
    /\ document = [t \in Tabs |-> "elsewhere"]
    /\ phase = [t \in Tabs |-> "there"]
    /\ text = [t \in Tabs |-> ""]
    /\ sending = [t \in Tabs |-> NoText]
    /\ shown = [t \in Tabs |-> FALSE]
    /\ carried = [t \in Tabs |-> ""]

--------------------------------------------------------------------------------
(* A document comes and goes.                                              *)

\* The tab leaves its document, with whatever was in it, for p.
Leaves(t, p) ==
    /\ document' = [document EXCEPT ![t] = p]
    /\ phase' = [phase EXCEPT ![t] = IF p \in Senders THEN "loading" ELSE "there"]
    /\ text' = [text EXCEPT ![t] = ""]
    /\ sending' = [sending EXCEPT ![t] = NoText]
    /\ shown' = [shown EXCEPT ![t] = FALSE]

\* A link, a bookmark, another code.  What was on the page is given up; what is still
\* in sessionStorage is not.
Visits(t, p) ==
    /\ Leaves(t, p)
    /\ carried' = [carried EXCEPT ![t] = IF phase[t] = "running" THEN "" ELSE @]
    /\ UNCHANGED <<ready, td_mode, td_draft>>

\* _MODE_REDIRECT_SCRIPT, on the homepage only.
RedirectScript(t) ==
    /\ phase[t] = "loading"
    /\ phase' = [phase EXCEPT ![t] =
            IF document[t] = "home" /\ td_mode = "closed" /\ ready THEN "leaving" ELSE "staying"]
    /\ UNCHANGED <<ready, td_mode, td_draft, document, text, sending, shown, carried>>

\* mutant: the main script does not look at tdLeaving
RunsOn_Regardless(t) == phase[t] \in {"staying", "leaving"}

\* `if (window.tdLeaving) { return; }`
RunsOn(t) == phase[t] = "staying"

\* mutant: a landing writes the mode as the homepage does
Remembered_Always(p) == ModeOf(p)

Remembered(p) == IF p \in Landings THEN td_mode ELSE ModeOf(p)

MainScript(t) ==
    /\ RunsOn(t)
    /\ td_mode' = Remembered(document[t])
    /\ text' = [text EXCEPT ![t] = td_draft[t]]
    /\ td_draft' = [td_draft EXCEPT ![t] = ""]
    /\ phase' = [phase EXCEPT ![t] = IF @ = "leaving" THEN "leaving" ELSE "running"]
    /\ UNCHANGED <<ready, document, sending, shown, carried>>

\* location.replace takes effect, before the main script or after.
Redirected(t) ==
    /\ phase[t] = "leaving"
    /\ Leaves(t, "closed")
    /\ UNCHANGED <<ready, td_mode, td_draft, carried>>

--------------------------------------------------------------------------------
(* The compose card.                                                       *)

Running(t) == phase[t] = "running"

\* Without WebCrypto the closed page is disabled.
CanCompose(t) ==
    /\ Running(t)
    /\ ~shown[t]
    /\ document[t] \in Open \/ ready

Types(t, x) ==
    /\ CanCompose(t)
    /\ text' = [text EXCEPT ![t] = x]
    /\ carried' = [carried EXCEPT ![t] = ""]
    /\ UNCHANGED <<ready, td_mode, td_draft, document, phase, sending, shown>>

\* tdClosedTarget
IsLink(x) == x = "link"

\* send, with `text` as it is when it is called; a fetch waits for its answer.
SendsText(t, x) ==
    CASE IsLink(x) ->
            /\ document' = [document EXCEPT ![t] = "elsewhere"]
            /\ phase' = [phase EXCEPT ![t] = "there"]
            /\ carried' = [carried EXCEPT ![t] = ""]
            /\ UNCHANGED <<sending, shown>>
      [] x \in {"", "blank"} -> UNCHANGED <<document, phase, sending, shown, carried>>
      [] OTHER ->
            /\ sending' = [sending EXCEPT ![t] = [value |-> x, sealed |-> document[t] \notin Open]]
            /\ carried' = [carried EXCEPT ![t] = ""]
            /\ UNCHANGED <<document, phase, shown>>

Sending(t) == sending[t] # NoText

ClicksThrow(t) ==
    /\ CanCompose(t)
    /\ IF Sending(t)
       THEN UNCHANGED <<document, phase, sending, shown, carried>>
       ELSE SendsText(t, text[t])
    /\ text' = IF document'[t] = "elsewhere" THEN [text EXCEPT ![t] = ""] ELSE text
    /\ UNCHANGED <<ready, td_mode, td_draft>>

\* Words are put into the textarea and sent; while a send is under way, only put there.
PastesWords(t, x) ==
    /\ CanCompose(t)
    /\ text' = [text EXCEPT ![t] = x]
    /\ IF Sending(t)
       THEN /\ carried' = [carried EXCEPT ![t] = ""]
            /\ UNCHANGED <<document, phase, sending, shown>>
       ELSE SendsText(t, x)
    /\ UNCHANGED <<ready, td_mode, td_draft>>

\* Here, or in the field for codes.
PastesLink(t) == CanCompose(t) /\ Visits(t, "elsewhere")

\* sendFile, from a drop or the dialog.
SendsFile(t) ==
    /\ CanCompose(t)
    /\ ~Sending(t)
    /\ sending' = [sending EXCEPT ![t] = [value |-> "file", sealed |-> document[t] \notin Open]]
    /\ UNCHANGED <<ready, td_mode, td_draft, document, phase, text, shown, carried>>

\* showThrown, or fail, which leaves the textarea as it was.
ThrowAnswered(t) ==
    /\ Sending(t)
    /\ shown' \in {shown, [shown EXCEPT ![t] = TRUE]}
    /\ sending' = [sending EXCEPT ![t] = NoText]
    /\ UNCHANGED <<ready, td_mode, td_draft, document, phase, text, carried>>

ThrowsAgain(t) ==
    /\ shown[t]
    /\ shown' = [shown EXCEPT ![t] = FALSE]
    /\ text' = [text EXCEPT ![t] = ""]
    /\ carried' = [carried EXCEPT ![t] = ""]
    /\ UNCHANGED <<ready, td_mode, td_draft, document, phase, sending>>

\* The other half of the mode row.  Nothing else hides it: it works beside a card too.
Switches(t) ==
    /\ Running(t)
    /\ document[t] \in Open => ready
    /\ td_mode' = IF document[t] \in Open THEN "closed" ELSE "open"
    /\ td_draft' = [td_draft EXCEPT ![t] = text[t]]
    /\ carried' = [carried EXCEPT ![t] = text[t]]
    /\ Leaves(t, IF document[t] \in Open THEN "closed" ELSE "home")
    /\ UNCHANGED ready

NextTabs ==
    \E t \in Tabs :
        \/ \E p \in Senders \union {"elsewhere"} : Visits(t, p)
        \/ RedirectScript(t) \/ MainScript(t) \/ Redirected(t)
        \/ \E x \in Texts : Types(t, x)
        \/ ClicksThrow(t)
        \/ \E x \in Words : PastesWords(t, x)
        \/ PastesLink(t) \/ SendsFile(t)
        \/ ThrowAnswered(t) \/ ThrowsAgain(t) \/ Switches(t)

SpecTabs == InitTabs /\ [][NextTabs]_tabvars

--------------------------------------------------------------------------------
(* Properties.                                                             *)

\* A text a person changes mode with is never lost on the way: until they touch it, it
\* is in the draft while documents load, redirect and are left again, and then in the
\* textarea (tdKeepDraft, tdTakeDraft, tdLeaving).
DraftSurvives ==
    \A t \in Tabs :
        carried[t] # "" => carried[t] = IF Running(t) THEN text[t] ELSE td_draft[t]

\* In a browser that can encrypt, the closed mode is given up by the switch, or by a
\* homepage that had looked before another tab chose it: never by a landing, and never
\* by the homepage on its way to the closed page.
ClosedModeSticks ==
    [][td_mode = "closed" /\ td_mode' # "closed" /\ ready =>
        \E t \in Tabs :
            \/ phase[t] = "running" /\ document[t] \notin Open /\ document'[t] = "home"
            \/ phase[t] = "staying" /\ document[t] = "home"]_tabvars
================================================================================
