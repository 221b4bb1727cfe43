------------------------------- MODULE Events -------------------------------
(***************************************************************************)
(* EventManager (crates/models/src/events/service.rs): it records events   *)
(* for users, passes them to the users' open event streams (Listener in    *)
(* crates/rest-api/src/events.rs) and mails from time to time what they    *)
(* have not read.                                                          *)
(*                                                                         *)
(* EventManager is one actor: it handles one message, or one tick of its   *)
(* timer, at a time.  A handler is cut into steps where it has written to  *)
(* the database or handed over a mail, since requests run meanwhile and    *)
(* since it may fail or the server may stop in between.                    *)
(***************************************************************************)
EXTENDS Naturals, Sequences, FiniteSets, SequencesExt

CONSTANTS
    User,         \* ids of users
    Listener,     \* WebSocket connections to GET /events
    Owner,        \* [Listener -> User]
    Targets,      \* lists of users an event is emitted for
    Capacity,     \* length of the mailbox of EventManager
    MaxEvents,    \* bound: how many events are ever recorded
    MaxFailures,  \* bound: how many rounds of mail fail
    MaxRestarts,  \* bound: how many times the server restarts
    Null

ASSUME EventsAssumption ==
    /\ User \subseteq Nat /\ IsFiniteSet(User)
    /\ Owner \in [Listener -> User]
    /\ Targets \subseteq Seq(User) /\ <<>> \notin Targets
    /\ Capacity \in Nat \ {0}
    /\ MaxEvents \in Nat /\ MaxFailures \in Nat /\ MaxRestarts \in Nat
    /\ Null \notin Listener

VARIABLES
    events,   \* the events table, in order of id and of timestamp
    mailbox,  \* messages waiting for EventManager
    job,      \* what EventManager is in the middle of
    streams,  \* EventManager::streams
    since,    \* EventManager::last_notify: events up to this one are older
    status,   \* how far each listener is
    inbox,    \* events waiting in each listener's mailbox
    sent,     \* what each listener has sent
    opened,   \* ghost: how many events there were when each was registered
    mails,    \* in how many mails each event was
    failures, \* rounds of mail that failed
    restarts

vars == <<events, mailbox, job, streams, since, status, inbox, sent, opened,
          mails, failures, restarts>>
managerVars == <<mailbox, job, streams, since>>
listenerVars == <<status, inbox, sent, opened>>
mailVars == <<mails, failures>>

Id == 1..MaxEvents
Row == [user : User, unread : BOOLEAN]
Message == [kind : {"notify"}, targets : Seq(User)]
           \cup [kind : {"register", "unregister"}, listener : Listener]
Job == [kind : {"idle"}]
       \cup [kind : {"notify"}, targets : Seq(User)]
       \cup [kind : {"round"}, now : 0..MaxEvents, users : SUBSET User,
             events : SUBSET Id]
Idle == [kind |-> "idle"]

TypeOK ==
    /\ events \in Seq(Row) /\ Len(events) <= MaxEvents
    /\ mailbox \in Seq(Message)
    /\ job \in Job
    /\ streams \in [User -> Listener \cup {Null}]
    /\ since \in 0..Len(events)
    /\ status \in [Listener -> {"new", "registering", "open", "gone"}]
    /\ inbox \in [Listener -> Seq(Id)]
    /\ sent \in [Listener -> Seq(Id)]
    /\ opened \in [Listener -> 0..Len(events)]
    /\ mails \in [Id -> Nat]
    /\ failures \in 0..MaxFailures
    /\ restarts \in 0..MaxRestarts

Init ==
    /\ events = <<>> /\ mailbox = <<>> /\ job = Idle
    /\ streams = [u \in User |-> Null]
    /\ since = 0
    /\ status = [l \in Listener |-> "new"]
    /\ inbox = [l \in Listener |-> <<>>]
    /\ sent = [l \in Listener |-> <<>>]
    /\ opened = [l \in Listener |-> 0]
    /\ mails = [i \in Id |-> 0]
    /\ failures = 0 /\ restarts = 0

-----------------------------------------------------------------------------
(* Requests *)

\* How many events the messages already sent may yet record.
Pending ==
    LET ofMessage(m) == IF m.kind = "notify" THEN Len(m.targets) ELSE 0
    IN  FoldLeft(LAMBDA n, m : n + ofMessage(m), ofMessage(job), mailbox)

\* EventManager::notify: the event is lost when the mailbox is full.
Notify(targets) ==
    /\ Len(events) + Pending + Len(targets) <= MaxEvents
    /\ mailbox' = IF Len(mailbox) < Capacity
                  THEN Append(mailbox, [kind |-> "notify", targets |-> targets])
                  ELSE mailbox
    /\ UNCHANGED <<events, job, streams, since, listenerVars, mailVars, restarts>>

\* PUT /notifications/:id.
UpdateNotification(i, unread) ==
    /\ i \in DOMAIN events
    /\ events' = [events EXCEPT ![i].unread = unread]
    /\ UNCHANGED <<managerVars, listenerVars, mailVars, restarts>>

-----------------------------------------------------------------------------
(* Listener *)

\* Listener::started: the listener waits until it is registered, and its
\* message until there is room for it.
Start(l) ==
    /\ status[l] = "new"
    /\ Len(mailbox) < Capacity
    /\ status' = [status EXCEPT ![l] = "registering"]
    /\ mailbox' = Append(mailbox, [kind |-> "register", listener |-> l])
    /\ UNCHANGED <<events, job, streams, since, inbox, sent, opened, mailVars,
                   restarts>>

\* Handler<NewEvent> for Listener.
Forward(l) ==
    /\ status[l] = "open"
    /\ inbox[l] # <<>>
    /\ sent' = [sent EXCEPT ![l] = Append(@, Head(inbox[l]))]
    /\ inbox' = [inbox EXCEPT ![l] = Tail(@)]
    /\ UNCHANGED <<events, managerVars, status, opened, mailVars, restarts>>

\* Listener::stopping.
Stop(l) ==
    /\ status[l] = "open"
    /\ status' = [status EXCEPT ![l] = "gone"]
    /\ inbox' = [inbox EXCEPT ![l] = <<>>]
    /\ mailbox' = Append(mailbox, [kind |-> "unregister", listener |-> l])
    /\ UNCHANGED <<events, job, streams, since, sent, opened, mailVars, restarts>>

-----------------------------------------------------------------------------
(* EventManager *)

Handling(kind) ==
    /\ job.kind = "idle"
    /\ mailbox # <<>> /\ Head(mailbox).kind = kind
    /\ mailbox' = Tail(mailbox)

\* Handler<RegisterListener>; with its answer the listener goes on.
Register ==
    /\ Handling("register")
    /\ LET l == Head(mailbox).listener IN
        /\ streams' = [streams EXCEPT ![Owner[l]] = l]
        /\ status' = [status EXCEPT ![l] = "open"]
        /\ opened' = [opened EXCEPT ![l] = Len(events)]
    /\ UNCHANGED <<events, job, since, inbox, sent, mailVars, restarts>>

\* Mutant: an older stream of the user that is still open takes over again.
UnregisterToOlder ==
    /\ Handling("unregister")
    /\ LET l == Head(mailbox).listener
           older == {k \in Listener \ {l} : Owner[k] = Owner[l] /\ status[k] = "open"}
       IN  \E k \in IF older = {} THEN {Null} ELSE older :
                streams' = [streams EXCEPT ![Owner[l]] = k]
    /\ UNCHANGED <<events, job, since, listenerVars, mailVars, restarts>>

\* Handler<UnregisterListener>: whichever listener the user has.
Unregister ==
    /\ Handling("unregister")
    /\ streams' = [streams EXCEPT ![Owner[Head(mailbox).listener]] = Null]
    /\ UNCHANGED <<events, job, since, listenerVars, mailVars, restarts>>

\* Handler<Notify> begins.
BeginNotify ==
    /\ Handling("notify")
    /\ job' = Head(mailbox)
    /\ UNCHANGED <<events, streams, since, listenerVars, mailVars, restarts>>

\* The listener a new event of user u is passed to.
Reached(u) == {l \in Listener : l = streams[u] /\ status[l] # "gone"}

\* do_notify: one target's event is recorded and passed to its stream.
Record ==
    /\ job.kind = "notify"
    /\ LET u == Head(job.targets)  rest == Tail(job.targets)
           id == Len(events) + 1 IN
        /\ events' = Append(events, [user |-> u, unread |-> TRUE])
        /\ inbox' = [l \in Listener |-> IF l \in Reached(u)
                                        THEN Append(inbox[l], id) ELSE inbox[l]]
        /\ job' = IF rest = <<>> THEN Idle ELSE [job EXCEPT !.targets = rest]
    /\ UNCHANGED <<mailbox, streams, since, status, sent, opened, mailVars, restarts>>

\* do_notify fails: the targets that are left get nothing.
FailNotify ==
    /\ job.kind = "notify"
    /\ job' = Idle
    /\ UNCHANGED <<events, mailbox, streams, since, listenerVars, mailVars, restarts>>

\* Mutant: events recorded since last_notify, but not the first of them.
ToMailLater == {i \in DOMAIN events : i > since + 1 /\ events[i].unread}
ToMail == {i \in DOMAIN events : i > since /\ events[i].unread}

\* send_emails reads what there is to mail.
BeginRound ==
    /\ job.kind = "idle"
    /\ job' = [kind |-> "round", now |-> Len(events), events |-> ToMail,
                users |-> {events[i].user : i \in ToMail}]
    /\ UNCHANGED <<events, mailbox, streams, since, listenerVars, mailVars, restarts>>

\* notify_user_by_email, for one user after another in order of their ids.
Mail ==
    /\ job.kind = "round"
    /\ \E u \in job.users :
        /\ \A v \in job.users : u <= v
        /\ mails' = [i \in Id |->
                IF i \in job.events /\ events[i].user = u
                THEN mails[i] + 1 ELSE mails[i]]
        /\ job' = [job EXCEPT !.users = @ \ {u}]
    /\ UNCHANGED <<events, mailbox, streams, since, listenerVars, failures, restarts>>

\* Mutant: last_notify is left as it was.
EndRoundUnnoted ==
    /\ job.kind = "round" /\ job.users = {}
    /\ job' = Idle
    /\ UNCHANGED <<events, mailbox, streams, since, listenerVars, mailVars, restarts>>

\* Every user was mailed.
EndRound ==
    /\ job.kind = "round" /\ job.users = {}
    /\ since' = job.now
    /\ job' = Idle
    /\ UNCHANGED <<events, mailbox, streams, listenerVars, mailVars, restarts>>

\* A user's mail cannot be put together: the round is given up, last_notify
\* stays.
FailRound ==
    /\ job.kind = "round" /\ job.users # {}
    /\ failures < MaxFailures
    /\ failures' = failures + 1
    /\ job' = Idle
    /\ UNCHANGED <<events, mailbox, streams, since, listenerVars, mails, restarts>>

\* The server stops and starts again; last_notify is the time of the start.
Restart ==
    /\ restarts < MaxRestarts
    /\ restarts' = restarts + 1
    /\ mailbox' = <<>> /\ job' = Idle
    /\ streams' = [u \in User |-> Null]
    /\ since' = Len(events)
    /\ status' = [l \in Listener |-> IF status[l] = "new" THEN "new" ELSE "gone"]
    /\ inbox' = [l \in Listener |-> <<>>]
    /\ UNCHANGED <<events, sent, opened, mailVars>>

Receive == Register \/ Unregister \/ BeginNotify
Work == Record \/ FailNotify \/ Mail \/ EndRound \/ FailRound

Next ==
    \/ Receive \/ Work \/ BeginRound \/ Restart
    \/ \E targets \in Targets : Notify(targets)
    \/ \E i \in Id, unread \in BOOLEAN : UpdateNotification(i, unread)
    \/ \E l \in Listener : Start(l) \/ Forward(l) \/ Stop(l)

\* The runtime runs every actor that has something to do; neither its messages
\* nor its timer can keep an actor from the other for good.
Spec == /\ Init /\ [][Next]_vars
        /\ WF_vars(Work) /\ SF_vars(Receive) /\ SF_vars(BeginRound)
        /\ \A l \in Listener : WF_vars(Forward(l))

-----------------------------------------------------------------------------
(* Properties *)

\* The events recorded for the user of listener l, and those passed to l.
Ours(l) == {i \in DOMAIN events : events[i].user = Owner[l]}
Received(l) == sent[l] \o inbox[l]
Entitled(l) ==
    \/ status[l] # "gone" /\ streams[Owner[l]] = l
    \/ /\ status[l] = "open"
       /\ \A k \in Listener \ {l} :
            Owner[k] = Owner[l] => status[k] \in {"new", "registering"}

\* What a listener is passed is a stretch of its user's events, in the order
\* they were recorded, none twice: it begins with the first event recorded after
\* the listener was registered and leaves none out.  It reaches to the newest
\* event while the listener is the registered one, and also while it is open and
\* the only one its user ever opened: nothing but the user's other connections
\* can take the events away that doc/api/events.md promises ("Each time an event
\* is emitted for the current user, a JSON object of the Event model will be
\* send on this connection").
StreamHasNoGaps ==
    \A l \in Listener :
        LET got == Received(l)
            passed == {got[k] : k \in DOMAIN got}
            due == {i \in Ours(l) : opened[l] < i}
        IN  /\ \A j, k \in DOMAIN got : j < k => got[j] < got[k]
            /\ passed \subseteq due
            /\ \A y \in passed, i \in due : i < y => i \in passed
            /\ Entitled(l) => due \subseteq passed

\* Events are mailed once, and once more at most for every round that failed.
MailedAgainOnlyAfterFailure ==
    \A i \in Id : mails[i] <= 1 + failures

\* An event recorded since last_notify that is unread between rounds is mailed
\* in the end, unless it is read first or the server restarts.
UnreadIsMailed ==
    \A i \in Id, n \in 0..MaxRestarts :
        (/\ i \in DOMAIN events /\ i > since /\ events[i].unread
         /\ job.kind = "idle" /\ restarts = n)
        ~> \/ mails[i] > 0 \/ restarts # n
           \/ i \in DOMAIN events /\ ~events[i].unread

=============================================================================
