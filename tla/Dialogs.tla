------------------------------ MODULE Dialogs ------------------------------
(***************************************************************************)
(* The life of the dialogs on the page.  One dialog is open at a time.  It *)
(* loads lists, its user chooses and types, it sends a request and is busy *)
(* until the answer comes.  It can be closed meanwhile and another opened; *)
(* an answer that says yes closes the dialog that is then on the page,     *)
(* whichever it is.  A card of a view is a dialog whose answer closes      *)
(* nothing but itself: closed, it is at rest, or its view has been left.   *)
(***************************************************************************)
EXTENDS WebForms

CONSTANTS Forms,     \* bound: the dialogs among which the first, the second... is
          Kinds,     \* bound: the kinds of job a user tries
          MaxOpens,  \* bound: dialogs opened
          MaxTries   \* bound: requests sent from one opening

ASSUME BoundAssumption ==
    /\ MaxOpens \in Nat /\ MaxTries \in Nat /\ 1..MaxOpens \subseteq DOMAIN Forms
    /\ Kinds \subseteq {"snapshot", "scrub", "trim", "smart"}

VARIABLES
    admin,    \* the role of the session
    dialog,   \* the dialog on the page, or Closed
    opened,   \* dialogs opened so far; the last is the one on the page
    meant,    \* history: what the user chose in it, and whether they edited
              \* the schedule there is
    sent,     \* requests whose answer has not reached the page
    tally     \* history: per opening, requests sent, served, and lost

vars == <<admin, dialog, opened, meant, sent, tally>>

Closed == Dialog(None, None)
Untouched == [main |-> None, edited |-> FALSE]

Init ==
    /\ admin \in BOOLEAN
    /\ dialog = Closed
    /\ opened = 0
    /\ meant = Untouched
    /\ sent = {}
    /\ tally = [i \in 1..MaxOpens |-> [sent |-> 0, served |-> 0, lost |-> 0]]

Open ==
    /\ dialog = Closed
    /\ opened < MaxOpens
    /\ \E d \in {x \in Opens(admin) : x.form \in Forms[opened + 1]} :
          dialog' = Settle([d EXCEPT !.wait = Loads(d.form)])
    /\ opened' = opened + 1
    /\ meant' = Untouched
    /\ UNCHANGED <<admin, sent, tally>>

\* The mutant of Arrive: the list goes on being loaded.
ArriveAgain ==
    \E w \in dialog.wait :
        /\ dialog' = Settle([dialog EXCEPT !.got = @ \cup {w}])
        /\ UNCHANGED <<admin, opened, meant, sent, tally>>

\* A list arrives, or its load fails and the list stays empty.
Arrive ==
    \E w \in dialog.wait, ok \in BOOLEAN :
        /\ dialog' = IF ok THEN Settle([dialog EXCEPT !.wait = @ \ {w}, !.got = @ \cup {w}])
                     ELSE [dialog EXCEPT !.wait = @ \ {w}]
        /\ UNCHANGED <<admin, opened, meant, sent, tally>>

\* The target of a new job is not recorded: a late list replaces it.
Choose ==
    \E v \in Offered(dialog) :
        /\ dialog' = [dialog EXCEPT !.main = v]
        /\ meant' = IF dialog.form = "newtask" THEN meant ELSE [meant EXCEPT !.main = v]
        /\ UNCHANGED <<admin, opened, sent, tally>>

\* Another kind of job: the target starts over.
ChooseKind ==
    /\ dialog.form = "newtask"
    /\ \E k \in Kinds \ {dialog.kind} :
          dialog' = Settle([dialog EXCEPT !.kind = k])
    /\ meant' = Untouched
    /\ UNCHANGED <<admin, opened, sent, tally>>

\* Only the dialog of a timer has the advanced mode.
EditFields ==
    /\ dialog.form \in {"newtask", "newrepl"} \/ dialog.of \in Editable
    /\ \E s \in {x \in Edits : x.freq = "advanced" => dialog.of \in Timers} :
          dialog' = [dialog EXCEPT !.sched = s]
    /\ meant' = [meant EXCEPT !.edited = dialog.of \in Editable]
    /\ UNCHANGED <<admin, opened, sent, tally>>

\* The button, which a dialog that is busy has disabled.
Submit ==
    /\ ~dialog.busy
    /\ dialog # Closed /\ tally[opened].sent < MaxTries
    /\ \E q \in ModalHost(dialog, admin) :
          sent' = sent \cup {[id |-> opened, card |-> dialog.form \in Cards, q |-> q,
                                meant |-> meant, st |-> "out"]}
    /\ dialog' = [dialog EXCEPT !.busy = TRUE, !.err = FALSE]
    /\ tally' = [tally EXCEPT ![opened].sent = @ + 1]
    /\ UNCHANGED <<admin, opened, meant>>

\* The server refuses it, or does it, or fails to.
Serve(m) ==
    /\ m.st = "out"
    /\ \E st \in IF Accepts(m.q, admin) THEN {"ok", "refused"} ELSE {"refused"} :
          /\ sent' = (sent \ {m}) \cup {[m EXCEPT !.st = st]}
          /\ tally' = [tally EXCEPT ![m.id].served = @ + (IF st = "ok" THEN 1 ELSE 0)]
    /\ UNCHANGED <<admin, dialog, opened, meant>>

\* The network takes the request, or its answer.
Lose(m) ==
    /\ m.st # "failed"
    /\ sent' = (sent \ {m}) \cup {[m EXCEPT !.st = "failed"]}
    /\ tally' = [tally EXCEPT ![m.id].lost = @ + 1]
    /\ UNCHANGED <<admin, dialog, opened, meant>>

\* The mutant of Answer: a failure frees the button of the dialog on the page,
\* whichever it is.
AnswerFreesAny(m) ==
    /\ m.st # "out"
    /\ sent' = sent \ {m}
    /\ dialog' = IF m.st = "ok" \/ dialog = Closed THEN Closed
                 ELSE [dialog EXCEPT !.busy = FALSE, !.err = TRUE]
    /\ meant' = IF dialog' = Closed THEN Untouched ELSE meant
    /\ UNCHANGED <<admin, opened, tally>>

\* What an answer that says yes closes: a dialog's, whatever dialog there is;
\* a card's, that card; and after an import the page starts anew.
Closes(m) ==
    IF m.card THEN m.id = opened \/ m.q.call = "importBackup" ELSE dialog.form \notin Cards

\* refresh() and onClose() on success; setErr and setBusy(false) otherwise,
\* which nobody sees once the dialog is gone.
Answer(m) ==
    /\ m.st # "out"
    /\ sent' = IF m.st = "ok" /\ m.q.call = "importBackup" THEN {} ELSE sent \ {m}
    /\ dialog' = CASE m.st = "ok" /\ Closes(m) -> Closed
                   [] m.st # "ok" /\ dialog # Closed /\ m.id = opened ->
                        [dialog EXCEPT !.busy = FALSE, !.err = TRUE]
                   [] OTHER -> dialog
    /\ meant' = IF dialog' = Closed THEN Untouched ELSE meant
    /\ UNCHANGED <<admin, opened, tally>>

\* Escape, a click beside it, or its Cancel button; a busy one closes too.  The
\* view of a card is left.
closeModal ==
    /\ dialog # Closed
    /\ dialog' = Closed
    /\ meant' = Untouched
    /\ UNCHANGED <<admin, opened, sent, tally>>

Next ==
    \/ Open \/ Arrive \/ Choose \/ ChooseKind \/ EditFields \/ Submit \/ closeModal
    \/ \E m \in sent : Serve(m) \/ Lose(m) \/ Answer(m)

Spec == Init /\ [][Next]_vars

---------------------------------------------------------------------------
\* Types, and that a list that a dialog has is not being loaded any more.
TypeOK ==
    /\ admin \in BOOLEAN
    /\ dialog.form \in {None} \cup UNION elements(Forms)
    /\ dialog.wait \cap dialog.got = {}
    /\ dialog.wait \cup dialog.got \subseteq Loads(dialog.form)
    /\ dialog.sched \in SchedState
    /\ dialog.busy => ~dialog.err
    /\ opened \in 0..MaxOpens
    /\ \A m \in sent : m.id \in 1..opened /\ m.st \in {"out", "ok", "refused", "failed"}

\* One press of the button has one effect: a dialog is served at most once,
\* and once more only for each time the network failed and its user tried
\* again.
SentOnce == \A i \in 1..MaxOpens : tally[i].served <= 1 + tally[i].lost

\* A dialog that lets its user press the button sends what the server takes:
\* the name it asks to be typed is the one the server demands, a password it
\* takes is long enough, the schedule of an editor can be read, a disk comes
\* from those that are free, and what only an admin may do is offered only to
\* one.  What is sent all the same and always refused is named here:
\* a rollback and the deletion of a job, whose confirmation is another name;
\* the four dialogs that every user may open and only an admin can complete;
\* a text written freely in a form the server does not take; a retention in
\* weeks, which the select offers; a job without its time of day; the
\* compression of a dataset that has none of those offered; and a new disk
\* that is smaller than the old one, which the widened list offers.
SentIsAccepted ==
    \A m \in sent :
        \/ Accepts(m.q, admin)
        \/ m.q.call \in {"rollback", "deleteJob"}
        \/ ~admin /\ m.q.call \in {"createSnapshot", "createDataset", "createJob", "updateJob"}
        \/ m.q.typed = "unfit"
        \/ m.q.keep = "w"
        \/ m.q.text.src = "job" /\ m.q.text.hour = Odd
        \/ m.q.call = "updateDataset" /\ m.q.opt \notin Compressions
        \/ m.q.call = "replaceDisk" /\ Size[m.q.new] < Size[m.q.old]

\* What is sent is what the user left in the dialog: the target they chose,
\* although lists go on arriving after the choice, and, where they did not
\* touch it, a schedule that runs at the same minutes as the one there is.
\* Left out is the target of a new job, which a late list replaces.
SentAsMeant ==
    \A m \in sent :
        /\ m.meant.main # None /\ m.q.call # "createJob" =>
              m.meant.main \in {m.q.on, m.q.new}
        /\ m.q.text # NoText /\ m.q.on \in Editable /\ ~m.meant.edited =>
              SameTimes(m.q.text, ScheduleOf[m.q.on])
=============================================================================
