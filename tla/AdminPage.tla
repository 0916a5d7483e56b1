----------------------------- MODULE AdminPage -----------------------------
(***************************************************************************)
(* The admin page (list.js, autoload-cache-ui.html), its two b-modal       *)
(* dialogs (bootstrap-vue.js) and AutoloadCacheController.                 *)
(*                                                                         *)
(* The page is one thread; what is under way are its requests, whose       *)
(* answers arrive in any order or not at all, and the dialogs' transitions.*)
(* A nextTick in a click handler of Vue 2.5 is a task of its own, in an    *)
(* answer or at the end of a transition it is not (vue.min.js, external);  *)
(* an answer may come before that task, users and transitions are slower.  *)
(* Nobody presses a button of the list while a dialog covers it and keeps  *)
(* the focus.                                                              *)
(***************************************************************************)
EXTENDS Naturals, Sequences, Bags

CONSTANTS
    Item,        \* rows of the list: their CacheKeyTO
    Operation,   \* the operations in use
    NoField,     \* hfield = null
    EmptyField,  \* hfield = ""
    MaxPresses,  \* bound on the buttons pressed
    MaxChanges,  \* bound on the changes of the handler's map
    Nothing      \* no answer yet, no item chosen

Dialog == {"confirm", "args"}

ASSUME ItemAssumption ==
    \A i \in Item : i.hfield = EmptyField => [i EXCEPT !.hfield = NoField] \in Item
ASSUME OperationAssumption ==
    Operation \subseteq {"removeCache", "removeAutoloadTO", "resetLastLoadTime"}
ASSUME NothingAssumption == Nothing \notin Item /\ Nothing \notin BOOLEAN

Choice == [item : Item, action : Operation]

VARIABLES
    registered, \* server: the CacheKeyTOs of the auto-load map
    version,    \* how often what listAutoLoadVO shows was changed
    items,      \* app.items: the rows and their version
    args,       \* app.args: the item they belong to
    alert,      \* app.showDismissibleAlert
    current,    \* currentItem and currentAction
    requests,   \* the requests under way, a bag
    visible,    \* dialogs with is_visible
    due,        \* dialogs between doShow and its nextTick
    leaving,    \* dialogs in their leave transition
    waiting,    \* dialogs that wait for a bv::modal::hidden
    open,       \* the body's class modal-open
    pressed,    \* history: the buttons pressed in the list
    posted,     \* history: what was posted
    done,       \* history: the version the last operation left
    outdated,   \* history: an answer was lost, or older than the list shown
    asked,      \* history: the item whose arguments were last asked for
    mixed       \* history: questions for arguments overlapped, or one failed

server  == <<registered, version>>
dialogs == <<visible, due, leaving, waiting, open>>
history == <<pressed, posted, done, outdated, asked, mixed>>
pageVars == <<server, items, args, alert, current, requests, dialogs, history>>

Request(kind, choice) == [kind |-> kind, choice |-> choice, reply |-> Nothing]

Send(bag, request)   == bag (+) SetToBag({request})
Remove(bag, request) == bag (-) SetToBag({request})
UnderWay(kind) == \E r \in BagToSet(requests) : r.kind = kind

\* loadData, at the end of the script
PageInit ==
    /\ registered = Item /\ version = 0
    /\ items = [rows |-> {}, version |-> 0]
    /\ args = Nothing /\ alert = FALSE /\ current = Nothing
    /\ requests = Send(EmptyBag, Request("list", Nothing))
    /\ visible = {} /\ due = {} /\ leaving = {} /\ waiting = {} /\ open = FALSE
    /\ pressed = << >> /\ posted = << >> /\ done = 0 /\ outdated = FALSE
    /\ asked = Nothing /\ mixed = FALSE

-----------------------------------------------------------------------------
(* The dialogs *)

\* A plausible slip: the other dialog does not hear of it.
ShowUnheard(d, soon) ==
    IF d \in visible THEN UNCHANGED dialogs
    ELSE /\ leaving' = IF ~open /\ soon THEN leaving \ {d} ELSE leaving
         /\ visible' = IF ~open /\ soon THEN visible \union {d} ELSE visible
         /\ due'     = IF ~open /\ ~soon THEN due \union {d} ELSE due
         /\ waiting' = IF open THEN waiting \union {d} ELSE waiting
         /\ open'    = (open \/ soon)

\* b-modal's show: the other dialog hears of it and hides; when one was open, this
\* one waits for its end.  soon: the nextTick of doShow comes at once.
Show(d, soon) ==
    IF d \in visible THEN UNCHANGED dialogs
    ELSE /\ leaving' = (leaving \union (visible \ {d})) \ (IF ~open /\ soon THEN {d} ELSE {})
         /\ visible' = IF ~open /\ soon THEN {d} ELSE {}
         /\ due'     = IF ~open /\ ~soon THEN due \union {d} ELSE due
         /\ waiting' = IF open THEN waiting \union {d} ELSE waiting
         /\ open'    = (open \/ soon)

\* doShow's nextTick, and the enter transition it starts
Enter(d) ==
    /\ d \in due
    /\ due' = due \ {d} /\ visible' = visible \union {d}
    /\ leaving' = leaving \ {d} /\ open' = TRUE
    /\ UNCHANGED <<server, items, args, alert, current, requests, waiting,
                   history>>

\* A plausible slip: is_visible stays.
HideOnlyLeaves(d) ==
    /\ d \in visible /\ due = {}
    /\ visible' = visible /\ leaving' = leaving \union {d}
    /\ UNCHANGED <<due, waiting, open>>

Hide(d) ==
    /\ d \in visible /\ due = {}
    /\ visible' = visible \ {d} /\ leaving' = leaving \union {d}
    /\ UNCHANGED <<due, waiting, open>>

\* onAfterLeave: all who wait for bv::modal::hidden are shown.
AfterLeave(d) ==
    /\ d \in leaving /\ due = {}
    /\ visible' = visible \union waiting /\ waiting' = {}
    /\ leaving' = leaving \ (waiting \union {d})
    /\ open' = (waiting # {})
    /\ UNCHANGED <<server, items, args, alert, current, requests, due, history>>

\* Cancel, escape, a click beside the dialog, its close button, OK of argsModal
Dismiss(d) ==
    /\ Hide(d)
    /\ UNCHANGED <<server, items, args, alert, current, requests, history>>

-----------------------------------------------------------------------------
(* list.js *)

CanPress(i) == i \in items.rows /\ visible \union due = {} /\ Len(pressed) < MaxPresses

ShowModal(i, action) ==
    /\ CanPress(i)
    /\ current' = [item |-> i, action |-> action]
    /\ Show("confirm", FALSE)
    /\ pressed' = Append(pressed, current')
    /\ UNCHANGED <<server, items, args, alert, requests, posted, done,
                   outdated, asked, mixed>>

\* What the parameters of a post stand for on the server: a hfield that is null or
\* empty is not sent.
AsPosted(c) ==
    IF c.item.hfield = EmptyField THEN [c EXCEPT !.item.hfield = NoField] ELSE c

\* A plausible slip: OK works while the dialog leaves.
HandleOkAgain ==
    /\ "confirm" \in visible \union leaving /\ due = {}
    /\ visible' = visible \ {"confirm"} /\ leaving' = leaving \union {"confirm"}
    /\ UNCHANGED <<due, waiting, open>>
    /\ requests' = Send(requests, Request("post", AsPosted(current)))
    /\ posted' = Append(posted, AsPosted(current))
    /\ UNCHANGED <<server, items, args, alert, current, pressed, done, outdated,
                   asked, mixed>>

HandleOk ==
    /\ Hide("confirm")
    /\ requests' = Send(requests, Request("post", AsPosted(current)))
    /\ posted' = Append(posted, AsPosted(current))
    /\ UNCHANGED <<server, items, args, alert, current, pressed, done, outdated,
                   asked, mixed>>

ShowArgs(i) ==
    /\ CanPress(i)
    /\ requests' = Send(requests, Request("args", [item |-> i, action |-> "showArgs"]))
    /\ asked' = i
    /\ mixed' = UnderWay("args")
    /\ pressed' = Append(pressed, [item |-> i, action |-> "showArgs"])
    /\ UNCHANGED <<server, items, args, alert, current, dialogs, posted, done,
                   outdated>>

\* The answer to loadData: null when the map is empty
ShowList(r) ==
    /\ items' = r.reply
    /\ outdated' = (r.reply.version < done /\ (outdated \/ r.reply.version < items.version))
    /\ requests' = Remove(requests, r)
    /\ UNCHANGED <<server, args, alert, current, dialogs, pressed, posted,
                   done, asked, mixed>>

\* A plausible slip: the list is not loaded again.
AfterPostEnds(r) ==
    /\ requests' = Remove(requests, r)
    /\ alert' = (alert \/ ~r.reply)
    /\ UNCHANGED <<server, items, args, current, dialogs, history>>

\* The answer to a post: true, or false when the server failed
AfterPost(r) ==
    /\ IF r.reply
       THEN /\ requests' = Send(Remove(requests, r), Request("list", Nothing))
            /\ alert' = alert
       ELSE requests' = Remove(requests, r) /\ alert' = TRUE
    /\ UNCHANGED <<server, items, args, current, dialogs, history>>

\* A plausible slip: arguments already shown are kept.
ArgsArriveOnce(r) ==
    /\ args' = IF args = Nothing THEN r.choice.item ELSE args
    /\ Show("args", TRUE)
    /\ requests' = Remove(requests, r)
    /\ UNCHANGED <<server, items, alert, current, history>>

\* The answer to showArgs
ArgsArrive(r) ==
    /\ args' = r.choice.item
    /\ Show("args", TRUE)
    /\ requests' = Remove(requests, r)
    /\ UNCHANGED <<server, items, alert, current, history>>

Receive(r) ==
    /\ r.reply # Nothing
    /\ \/ r.kind = "list" /\ ShowList(r)
       \/ r.kind = "post" /\ AfterPost(r)
       \/ r.kind = "args" /\ ArgsArrive(r)

\* A request or its answer is lost: handleError writes it to the console.
HandleError(r) ==
    /\ requests' = Remove(requests, r)
    /\ outdated' = (outdated \/ r.kind # "args")
    /\ mixed' = (mixed \/ r.kind = "args")
    /\ UNCHANGED <<server, items, args, alert, current, dialogs, pressed,
                   posted, done, asked>>

-----------------------------------------------------------------------------
(* AutoloadCacheController *)

Answer(r, reply) == 
    requests' = Send(Remove(requests, r), [r EXCEPT !.reply = reply])

ListAutoLoadVO(r) ==
    /\ r.kind = "list"
    /\ Answer(r, [rows |-> registered, version |-> version])
    /\ UNCHANGED <<server, done>>

\* removeCache, removeAutoloadTO, resetLastLoadTime; each may throw, and answers false.
Operate(r) ==
    /\ r.kind = "post"
    /\ \/ Answer(r, FALSE) /\ UNCHANGED <<server, done>>
       \/ /\ Answer(r, TRUE)
          /\ registered' = IF r.choice.action = "removeAutoloadTO"
                           THEN registered \ {r.choice.item} ELSE registered
          /\ version' = IF r.choice.item \in registered /\ r.choice.action # "removeCache"
                        THEN version + 1 ELSE version
          /\ done' = version'

AnswerArgs(r) ==
    /\ r.kind = "args"
    /\ Answer(r, r.choice.item \in registered)
    /\ UNCHANGED <<server, done>>

Serve(r) ==
    /\ r.reply = Nothing
    /\ ListAutoLoadVO(r) \/ Operate(r) \/ AnswerArgs(r)
    /\ UNCHANGED <<items, args, alert, current, dialogs, pressed, posted,
                   outdated, asked, mixed>>

\* Requests of the application register items; the handler removes them.
Change(i) ==
    /\ version < MaxChanges
    /\ version' = version + 1
    /\ registered' = IF i \in registered THEN registered \ {i} ELSE registered \union {i}
    /\ UNCHANGED <<items, args, alert, current, requests, dialogs, history>>

PageNext ==
    \/ \E i \in Item : (\E a \in Operation : ShowModal(i, a)) \/ ShowArgs(i) \/ Change(i)
    \/ HandleOk
    \/ \E d \in Dialog : Enter(d) \/ Dismiss(d) \/ AfterLeave(d)
    \/ \E r \in BagToSet(requests) : Receive(r) \/ HandleError(r) \/ Serve(r)

PageSpec == PageInit /\ [][PageNext]_pageVars

\* The browser's tasks run, and transitions end.
FairPageSpec ==
    /\ PageSpec
    /\ \A d \in Dialog : WF_pageVars(Enter(d)) /\ WF_pageVars(AfterLeave(d))

-----------------------------------------------------------------------------
PageTypeOK ==
    /\ registered \subseteq Item /\ version \in Nat /\ done \in 0 .. version
    /\ items.rows \subseteq Item /\ items.version \in 0 .. version
    /\ args \in Item \union {Nothing} /\ asked \in Item \union {Nothing}
    /\ current \in Choice \union {Nothing} /\ pressed \in Seq([item : Item, action : Operation \union {"showArgs"}])
    /\ posted \in Seq(Choice)
    /\ visible \union due \union leaving \union waiting \subseteq Dialog
    /\ visible \intersect leaving = {}
    /\ IsABag(requests)
    /\ \A r \in BagToSet(requests) : r.kind \in {"list", "post", "args"}
    /\ \A x \in {alert, open, outdated, mixed} : x \in BOOLEAN

\* Every operation posted was chosen in the list, each choice is posted once at most,
\* and in the order of the choices: double clicks on OK, dialogs that come back when
\* another one closes, and choices made while the dialog is still to come post
\* nothing twice and nothing else.  (For an item whose hfield is empty the server is
\* told the item without one: list.js:119.)
PostedAsChosen ==
    \E f \in [DOMAIN posted -> DOMAIN pressed] :
        /\ \A m, n \in DOMAIN posted : m < n => f[m] < f[n]
        /\ \A n \in DOMAIN posted :
             LET c == pressed[f[n]]
             IN  posted[n] = IF c.item.hfield = EmptyField
                             THEN [c EXCEPT !.item.hfield = NoField] ELSE c

\* When nothing is under way the list shows what the user's own operations did, unless
\* an answer was lost or arrived after a newer one.
OwnChangesShow ==
    ~UnderWay("list") /\ ~UnderWay("post") => items.version >= done \/ outdated

\* The arguments on the screen are those asked for last, unless two questions were
\* under way at once (then the answer that comes last wins, in the open dialog too),
\* or one has failed: then a dialog already open, or on its way, keeps what it had.
ArgsAreThoseAskedFor ==
    "args" \in visible /\ ~UnderWay("args") => args = asked \/ mixed

\* A dialog that waits for another one to close gets its turn: the other one is
\* hidden, whatever the user does.
WaitingAppear == \A d \in Dialog : d \in waiting ~> d \in visible
=============================================================================
