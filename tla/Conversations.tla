--------------------------- MODULE Conversations ---------------------------
(***************************************************************************)
(* A live conversation: the Broker actor (crates/conversations/src/        *)
(* broker.rs), the Client actors that stand for WebSocket connections      *)
(* (client.rs) and the conversation's events in the database.              *)
(*                                                                         *)
(* Actors share nothing: a client sends to the broker's mailbox and hands  *)
(* its future to the runtime, which either suspends the client until the   *)
(* answer is there (wait) or lets it go on (spawn).  The broker handles    *)
(* one message at a time and passes new events to the clients' mailboxes.  *)
(***************************************************************************)
EXTENDS Naturals, Sequences, FiniteSets, SequencesExt

CONSTANTS
    Member,      \* ids of the users who are members of the conversation
    Client,      \* connections
    User,        \* [Client -> Member]: get_socket lets in members only
    Past,        \* the authors of what was said before the server started
    MaxMessages, \* bound: how many messages are ever recorded
    MaxRequests, \* bound: how many requests all remotes together ever make
    After,       \* the values of number_after clients ask for
    Wide,        \* number_after is computed modulo this (2^16)
    Limit,       \* how many events a history holds at most (64)
    Null

Reply == [kind : {"received", "invalid", "error"}]
         \cup [kind : {"history"}, first : Nat, last : Nat]

ASSUME ConversationAssumption ==
    /\ Member \subseteq Nat /\ IsFiniteSet(Member) /\ IsFiniteSet(Client)
    /\ User \in [Client -> Member]
    /\ Past \in Seq(Member) /\ Len(Past) <= MaxMessages
    /\ MaxMessages \in Nat /\ MaxRequests \in Nat
    /\ Wide \in Nat \ {0} /\ Limit \in Nat \ {0} /\ After \subseteq 0..(Wide - 1)
    /\ Null \notin Reply

VARIABLES
    log,       \* conversation_events: the author of each event, by its id
    status,    \* how far each client actor is
    mailbox,   \* the broker's mailbox
    listeners, \* the clients in the broker's entry for this conversation;
               \* the entry exists as long as there are any
    failed,    \* clients the broker found closed and is about to drop
    inbox,     \* events waiting in each client's mailbox
    requests,  \* what each remote has asked of its client, in order
    wire,      \* what each client has sent to its remote, in order
    notified,  \* what the broker told EventManager
    connected  \* ghost: how many events there were when each client was let in

vars == <<log, status, mailbox, listeners, failed, inbox, requests, wire,
          notified, connected>>

Id == 1..MaxMessages
Status == {"new", "connecting", "accepted", "open", "refused", "gone"}
Kind == {"send", "history"}
Request == [kind : Kind, required : BOOLEAN, from : Nat, after : 0..(Wide - 1),
            reply : Reply \cup {Null}, written : BOOLEAN]
Frame == [kind : {"connected", "message", "reply", "close"}, number : Nat]

TypeOK ==
    /\ log \in Seq(Member) /\ Len(log) <= MaxMessages
    /\ status \in [Client -> Status]
    /\ mailbox \in Seq([kind : {"connect", "disconnect", "request"},
                        client : Client, number : 0..MaxRequests])
    /\ listeners \subseteq Client
    /\ failed \subseteq Client
    /\ inbox \in [Client -> Seq(Id)]
    /\ requests \in [Client -> Seq(Request)]
    /\ wire \in [Client -> Seq(Frame)]
    /\ notified \subseteq [user : Member, message : Id]
    /\ connected \in [Client -> 0..Len(log)]

Init ==
    /\ log = Past
    /\ status = [c \in Client |-> "new"]
    /\ mailbox = <<>> /\ listeners = {} /\ failed = {}
    /\ inbox = [c \in Client |-> <<>>]
    /\ requests = [c \in Client |-> <<>>]
    /\ wire = [c \in Client |-> <<>>]
    /\ notified = {}
    /\ connected = [c \in Client |-> 0]

-----------------------------------------------------------------------------
(* Who is notified of a new message *)

Ascending(S) ==
    [k \in 1..Cardinality(S) |->
        CHOOSE u \in S : Cardinality({v \in S : v <= u}) = k]

\* The users of the listeners, one entry for each listener: Listeners keeps
\* its elements sorted by user.
ListeningUsers ==
    [k \in 1..Cardinality(listeners) |->
        CHOOSE u \in Member :
            /\ Cardinality({c \in listeners : User[c] < u}) < k
            /\ Cardinality({c \in listeners : User[c] <= u}) >= k]

\* Where the iteration over members stops for a listener's user u: at the
\* first from position m on that is not before u, or at the end.
StopsAt(M, m, u) ==
    CHOOSE n \in m..(Len(M) + 1) :
        /\ \A j \in m..(n - 1) : M[j] < u
        /\ n <= Len(M) => M[n] >= u

\* The first listener after l of another user, or the end.
NextUser(L, l) ==
    CHOOSE k \in l..(Len(L) + 1) :
        /\ \A j \in l..(k - 1) : L[j] = L[l]
        /\ k <= Len(L) => L[k] # L[l]

\* The double iteration of Handler<NewMessage>: l runs through the users of the
\* listeners, m through the members, both sorted.  Members before the listener's
\* user are notified; the one after them, the listener's user, is passed over.
Walk(L, M) ==
    LET from[l \in 1..(Len(L) + 1)] ==
            [m \in 1..(Len(M) + 1) |->
                IF l > Len(L) THEN {M[j] : j \in m..Len(M)}
                ELSE LET n == StopsAt(M, m, L[l])
                         next == IF n <= Len(M) THEN n + 1 ELSE n
                     IN  {M[j] : j \in m..(n - 1)} \cup from[NextUser(L, l)][next]]
    IN  from[1][1]

\* Mutant: the user of a listener is passed over once for each connection.
WalkPerListener(L, M) ==
    LET from[l \in 1..(Len(L) + 1)] ==
            [m \in 1..(Len(M) + 1) |->
                IF l > Len(L) THEN {M[j] : j \in m..Len(M)}
                ELSE LET n == StopsAt(M, m, L[l])
                         next == IF n <= Len(M) THEN n + 1 ELSE n
                     IN  {M[j] : j \in m..(n - 1)} \cup from[l + 1][next]]
    IN  from[1][1]

\* Mutant: WalkPerListener instead.
ToNotifyPerListener == WalkPerListener(ListeningUsers, Ascending(Member))
ToNotify == Walk(ListeningUsers, Ascending(Member))

-----------------------------------------------------------------------------
(* Client *)

\* The client awaits a future with wait: its Connect, or a request that asked
\* for a response.  Nothing else of it runs meanwhile.
Awaiting(c) ==
    {n \in DOMAIN requests[c] :
        requests[c][n].required /\ ~requests[c][n].written}
\* Mutant: a client goes on while it waits for a response.
SuspendedToConnect(c) == status[c] \in {"connecting", "accepted"}
Suspended(c) == status[c] \in {"connecting", "accepted"} \/ Awaiting(c) # {}

Alive(c) == status[c] \notin {"new", "gone"}
Runs(c) == Alive(c) /\ ~Suspended(c)

Send(kind, c, n) ==
    mailbox' = Append(mailbox, [kind |-> kind, client |-> c, number |-> n])

Write(c, kind, n) ==
    wire' = [wire EXCEPT ![c] = Append(@, [kind |-> kind, number |-> n])]

\* Client::started.
Start(c) ==
    /\ status[c] = "new"
    /\ status' = [status EXCEPT ![c] = "connecting"]
    /\ Send("connect", c, 0)
    /\ UNCHANGED <<log, listeners, failed, inbox, requests, wire, notified,
                   connected>>

\* The answer to Connect has come.
Greet(c) ==
    /\ status[c] = "accepted"
    /\ status' = [status EXCEPT ![c] = "open"]
    /\ Write(c, "connected", 0)
    /\ UNCHANGED <<log, mailbox, listeners, failed, inbox, requests, notified,
                   connected>>

\* Client::stopping, once the remote has closed the connection.
Stop(c) ==
    /\ Runs(c)
    /\ status' = [status EXCEPT ![c] = "gone"]
    /\ inbox' = [inbox EXCEPT ![c] = <<>>]
    /\ Send("disconnect", c, 0)
    /\ UNCHANGED <<log, listeners, failed, requests, wire, notified,
                   connected>>

\* Client::send_message and Client::get_history: the remote's request goes to
\* the broker.
Ask(c, kind, required, from, after) ==
    /\ Runs(c)
    /\ Len(requests[c]) \in 0..(MaxRequests - 1)
    /\ SumFunction([d \in Client |-> Len(requests[d])]) < MaxRequests
    /\ requests' = [requests EXCEPT ![c] = Append(@,
            [kind |-> kind, required |-> required, from |-> from,
             after |-> after, reply |-> Null, written |-> FALSE])]
    /\ Send("request", c, Len(requests[c]) + 1)
    /\ UNCHANGED <<log, status, listeners, failed, inbox, wire, notified,
                   connected>>

\* Mutant: suspending the client suspends the future it waits for.
MayAnswerRunning(c, n) == Runs(c)

\* While the client is suspended only the future it waits for is polled.
MayAnswer(c, n) == Runs(c) \/ (status[c] \in {"open", "refused"} /\ n \in Awaiting(c))

\* The broker's reply becomes a response; an error closes the connection.
Answer(c, n) ==
    /\ MayAnswer(c, n)
    /\ n \in DOMAIN requests[c]
    /\ requests[c][n].reply # Null /\ ~requests[c][n].written
    /\ requests' = [requests EXCEPT ![c][n].written = TRUE]
    /\ IF requests[c][n].reply.kind = "error" THEN Write(c, "close", n)
                                              ELSE Write(c, "reply", n)
    /\ UNCHANGED <<log, status, mailbox, listeners, failed, inbox, notified,
                   connected>>

\* Handler<Event> for Client.
Forward(c) ==
    /\ Runs(c)
    /\ inbox[c] # <<>>
    /\ Write(c, "message", Head(inbox[c]))
    /\ inbox' = [inbox EXCEPT ![c] = Tail(@)]
    /\ UNCHANGED <<log, status, mailbox, listeners, failed, requests, notified,
                   connected>>

-----------------------------------------------------------------------------
(* Broker *)

Received(kind) == mailbox # <<>> /\ Head(mailbox).kind = kind

\* Handler<Connect>; reading the conversation may fail.
Connect ==
    /\ Received("connect")
    /\ LET c == Head(mailbox).client IN
        \/ /\ listeners' = listeners \cup {c}
           /\ status' = [status EXCEPT ![c] = "accepted"]
           /\ connected' = [connected EXCEPT ![c] = Len(log)]
           /\ UNCHANGED wire
        \/ /\ listeners = {}
           /\ status' = [status EXCEPT ![c] = "refused"]
           /\ Write(c, "close", 0)
           /\ UNCHANGED <<listeners, connected>>
    /\ mailbox' = Tail(mailbox)
    /\ UNCHANGED <<log, failed, inbox, requests, notified>>

\* Mutant: every connection of the user is dropped.
WithoutUser(c) == {d \in listeners : User[d] # User[c]}
Without(c) == listeners \ {c}

\* Handler<Disconnect>.
Disconnect ==
    /\ Received("disconnect")
    /\ listeners' = Without(Head(mailbox).client)
    /\ mailbox' = Tail(mailbox)
    /\ UNCHANGED <<log, status, failed, inbox, requests, wire, notified,
                   connected>>

\* The broker's own Disconnect for a client it could not reach.
DropFailed ==
    /\ \E c \in failed : /\ listeners' = Without(c)
                         /\ failed' = failed \ {c}
    /\ UNCHANGED <<log, status, mailbox, inbox, requests, wire, notified,
                   connected>>

\* The answer reaches the client, if it is still there.
ReplyTo(c, n, reply) ==
    requests' = [requests EXCEPT ![c][n].reply = reply]

\* The request at the head of the mailbox is r, number n of client c.
Handling(c, n, kind) ==
    /\ Received("request")
    /\ Head(mailbox).client = c /\ Head(mailbox).number = n
    /\ requests[c][n].kind = kind
    /\ mailbox' = Tail(mailbox)

\* Mutant: the message reaches whoever else is connected.
ListenersExcept(c) == listeners \ {c}
ListenersFor(c) == listeners

\* Handler<NewMessage>: the message is recorded, passed to every listener, and
\* EventManager is told of every member without one.
RecordMessage(c, n) ==
    /\ Handling(c, n, "send")
    /\ listeners # {}
    /\ Len(log) < MaxMessages
    /\ LET id == Len(log) + 1 IN
        /\ log' = Append(log, User[c])
        /\ inbox' = [d \in Client |-> IF d \in ListenersFor(c) /\ Alive(d)
                                      THEN Append(inbox[d], id) ELSE inbox[d]]
        /\ failed' = failed \cup {d \in ListenersFor(c) : ~Alive(d)}
        /\ notified' = notified \cup {[user |-> u, message |-> id] : u \in ToNotify}
    /\ ReplyTo(c, n, [kind |-> "received"])
    /\ UNCHANGED <<status, listeners, wire, connected>>

\* The message is malformed.
RejectMessage(c, n) ==
    /\ Handling(c, n, "send")
    /\ listeners # {}
    /\ ReplyTo(c, n, [kind |-> "invalid"])
    /\ UNCHANGED <<log, status, listeners, failed, inbox, wire, notified,
                   connected>>

\* NotConnected, no such reference event, or an error of the database.
FailRequest(c, n) ==
    /\ \E kind \in Kind : Handling(c, n, kind)
    /\ ReplyTo(c, n, [kind |-> "error"])
    /\ UNCHANGED <<log, status, listeners, failed, inbox, wire, notified,
                   connected>>

Least(x, y) == IF x < y THEN x ELSE y

\* Mutant: the reference event is not counted in.
AfterExcluded(r) == [kind |-> "history", first |-> r.from + 1,
                     last |-> Least(Len(log), r.from + r.after)]

\* The part of a history from its reference event on.
AfterReference(r) ==
    LET limit == Least((r.after + 1) % Wide, Limit)
    IN  [kind |-> "history", first |-> r.from,
         last |-> Least(Len(log), (r.from + limit) - 1)]

\* Handler<GetHistory>.
GetHistory(c, n) ==
    /\ Handling(c, n, "history")
    /\ requests[c][n].from \in 1..Len(log)
    /\ ReplyTo(c, n, AfterReference(requests[c][n]))
    /\ UNCHANGED <<log, status, listeners, failed, inbox, wire, notified,
                   connected>>

Broker ==
    \/ Connect \/ Disconnect \/ DropFailed
    \/ \E c \in Client, n \in 1..MaxRequests :
        \/ RecordMessage(c, n) \/ RejectMessage(c, n)
        \/ FailRequest(c, n) \/ GetHistory(c, n)

ClientStep(c) == Greet(c) \/ Forward(c) \/ \E n \in 1..MaxRequests : Answer(c, n)

\* A remote asks for history from an event it may know of.
Remote(c) ==
    \/ Start(c) \/ Stop(c)
    \/ \E required \in BOOLEAN :
        \/ Ask(c, "send", required, 0, 0)
        \/ \E from \in DOMAIN log, after \in After :
                Ask(c, "history", required, from, after)

Next == Broker \/ \E c \in Client : ClientStep(c) \/ Remote(c)

\* The runtime polls the broker and every client; remotes owe nothing.
Spec == /\ Init /\ [][Next]_vars
        /\ WF_vars(Broker)
        /\ \A c \in Client : WF_vars(ClientStep(c))

-----------------------------------------------------------------------------
(* Properties *)

\* What client c has been sent and, after that, the events it has yet to send.
Due(c) == wire[c] \o [k \in DOMAIN inbox[c] |->
                        [kind |-> "message", number |-> inbox[c][k]]]

\* Where the messages are in the frames d.
Messages(d) == {k \in DOMAIN d : d[k].kind = "message"}

\* What a client is sent, each message once and in order, begins with the first
\* message recorded after the broker let it in and leaves none out; until the
\* client stops it is all that were recorded since, whatever else the client is
\* busy with.
NothingMissed ==
    \A c \in Client :
        LET d == Due(c)
            IsHeard(id) == \E k \in Messages(d) : d[k].number = id
        IN  /\ \A j, k \in Messages(d) : j < k => d[j].number < d[k].number
            /\ \A k \in Messages(d) :
                /\ connected[c] < d[k].number
                /\ \A id \in (connected[c] + 1)..d[k].number : IsHeard(id)
            /\ status[c] \in {"accepted", "open"}
               => \A id \in (connected[c] + 1)..Len(log) : IsHeard(id)

\* A client that was let in stays in the broker's list until it stops, however
\* many connections its user opens and closes.
OpenIsListening ==
    \A c \in Client : status[c] \in {"accepted", "open"} => c \in listeners

\* Each new message is notified to exactly the members without a listener
\* (the double iteration against what it computes).
AbsentAreNotified ==
    [][log' # log =>
        LET id == Len(log') IN
        \A u \in Member :
            [user |-> u, message |-> id] \in notified'
            <=> \A c \in listeners : User[c] # u]_vars

\* A response to a request that requires one is sent before any response to a
\* later request of the same client (doc/conversation.md, flag bit 2), and no
\* request is responded to twice.
ResponsesInOrder ==
    \A c \in Client : \A i, j \in DOMAIN wire[c] :
        LET f == wire[c][i]  g == wire[c][j] IN
        /\ i < j /\ f.kind \in {"reply", "close"} /\ g.kind \in {"reply", "close"}
        => /\ f.number # g.number
           /\ g.number < f.number => ~requests[c][g.number].required

\* A history as the client asked for it holds its reference event first, and
\* when it holds fewer events than it might, nothing was left out between it
\* and the live messages: a client that reconnects and asks for what it missed
\* misses nothing.
HistoryMeetsLive ==
    \A c \in Client : \A n \in DOMAIN requests[c] :
        LET h == requests[c][n].reply
            wanted == Least(requests[c][n].after + 1, Limit)
            d == Due(c)
        IN  h # Null /\ h.kind = "history" =>
                /\ h.first = requests[c][n].from /\ h.first <= h.last
                /\ (h.last + 1) - h.first < wanted /\ Messages(d) # {}
                        => \E k \in Messages(d) : d[k].number <= h.last + 1

\* Every request is answered in the end, unless the remote goes.
RequestsAnswered ==
    \A c \in Client, n \in 1..MaxRequests :
        n \in DOMAIN requests[c]
        ~> status[c] = "gone" \/ (n \in DOMAIN requests[c] /\ requests[c][n].written)
=============================================================================
