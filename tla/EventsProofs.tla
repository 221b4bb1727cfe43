---------------------------- MODULE EventsProofs ----------------------------
(***************************************************************************)
(* Proofs about Events for every number of users, listeners, events,       *)
(* failures and restarts: how often an event is mailed, and what listeners *)
(* are passed.                                                             *)
(***************************************************************************)
EXTENDS Events, TLAPS

\* The part of TypeOK the proof needs; nothing here depends on a bound.
Types ==
    /\ events \in Seq(Row)
    /\ mailbox \in Seq(Message)
    /\ job.kind = "notify" => job.targets \in Seq(User) /\ job.targets # <<>>
    /\ \A k \in DOMAIN mailbox :
            mailbox[k].kind = "notify" => mailbox[k].targets # <<>>
    /\ since \in 0..Len(events)
    /\ mails \in [Id -> Nat]
    /\ failures \in Nat

\* A round takes events since last_notify, and ends at what there was then.
RoundSound ==
    job.kind = "round" =>
        /\ job.now \in 0..Len(events) /\ since <= job.now
        /\ \A i \in job.events :
                i \in DOMAIN events /\ since < i /\ i <= job.now

\* Event i is in a mail of the round that is going on.
Taken(i) ==
    /\ job.kind = "round"
    /\ i \in job.events
    /\ events[i].user \notin job.users

\* Before the round that will be its last, an event is mailed in failed rounds
\* only: each of them may have mailed it.
CountSound ==
    \A i \in Id :
        /\ mails[i] <= 1 + failures
        /\ since < i /\ ~Taken(i) => mails[i] <= failures

IInv == Types /\ RoundSound /\ CountSound

-----------------------------------------------------------------------------
LEMMA InitInvariant == Init => IInv
BY EventsAssumption
   DEF Init, IInv, Types, RoundSound, CountSound, Taken, Idle, Row, Message, Id

\* Steps that leave the table, the job and the mails alone.
LEMMA OutsideInvariant ==
  ASSUME IInv, UNCHANGED <<events, job, since, mailVars>>,
         mailbox' \in Seq(Message),
         \A k \in DOMAIN mailbox' :
            mailbox'[k].kind = "notify" => mailbox'[k].targets # <<>>
  PROVE  IInv'
BY DEF IInv, Types, RoundSound, CountSound, Taken, mailVars

LEMMA AppendSound ==
  ASSUME Types, NEW m \in Message, m.kind = "notify" => m.targets # <<>>
  PROVE  /\ Append(mailbox, m) \in Seq(Message)
         /\ \A k \in DOMAIN Append(mailbox, m) :
                Append(mailbox, m)[k].kind = "notify"
                => Append(mailbox, m)[k].targets # <<>>
BY DEF Types

LEMMA TailSound ==
  ASSUME Types, mailbox # <<>>
  PROVE  /\ Tail(mailbox) \in Seq(Message)
         /\ \A k \in DOMAIN Tail(mailbox) :
                Tail(mailbox)[k].kind = "notify"
                => Tail(mailbox)[k].targets # <<>>
BY DEF Types

LEMMA NotifyInvariant ==
  ASSUME IInv, NEW targets \in Targets, Notify(targets)
  PROVE  IInv'
<1>1. [kind |-> "notify", targets |-> targets] \in Message /\ targets # <<>>
  BY EventsAssumption DEF Message
<1>2. CASE Len(mailbox) < Capacity
  BY <1>1, <1>2, AppendSound, OutsideInvariant DEF Notify, IInv
<1>3. CASE ~(Len(mailbox) < Capacity)
  BY <1>3, OutsideInvariant DEF Notify, IInv, Types
<1>. QED  BY <1>2, <1>3

LEMMA UpdateNotificationInvariant ==
  ASSUME IInv, NEW i \in Id, NEW unread \in BOOLEAN,
         UpdateNotification(i, unread)
  PROVE  IInv'
<1>1. /\ events' \in Seq(Row) /\ Len(events') = Len(events)
      /\ DOMAIN events' = DOMAIN events
      /\ \A j \in DOMAIN events : events'[j].user = events[j].user
  <2>1. i \in DOMAIN events /\ events \in Seq(Row)
    BY DEF UpdateNotification, IInv, Types
  <2>. DEFINE row == [events[i] EXCEPT !.unread = unread]
  <2>2. row \in Row /\ row.user = events[i].user
    <3>0. events[i] \in Row
      BY <2>1
    <3>1. events[i] \in [user : User, unread : BOOLEAN]
      BY <3>0 DEF Row
    <3>2. row \in [user : User, unread : BOOLEAN]
      BY <3>1, Zenon
    <3>3. row.user = events[i].user
      BY <3>1
    <3>. QED  BY <3>2, <3>3 DEF Row
  <2>3. events' = [events EXCEPT ![i] = row]
    BY DEF UpdateNotification
  <2>. HIDE DEF row
  <2>. QED  BY <2>1, <2>2, <2>3
<1>2. UNCHANGED <<managerVars, mailVars>>
  BY DEF UpdateNotification
<1>3. Types'
  BY <1>1, <1>2 DEF IInv, Types, managerVars, mailVars
<1>4. RoundSound'
  BY <1>1, <1>2 DEF IInv, RoundSound, managerVars
<1>5. \A j \in Id : Taken(j)' <=> Taken(j)
  BY <1>1, <1>2 DEF IInv, RoundSound, Taken, managerVars
<1>6. CountSound'
  BY <1>2, <1>5 DEF IInv, CountSound, managerVars, mailVars
<1>. QED  BY <1>3, <1>4, <1>6 DEF IInv

LEMMA ListenerInvariant ==
  ASSUME IInv, NEW l \in Listener, Start(l) \/ Forward(l) \/ Stop(l)
  PROVE  IInv'
<1>1. CASE Start(l)
  <2>1. [kind |-> "register", listener |-> l] \in Message
    BY DEF Message
  <2>. QED  BY <1>1, <2>1, AppendSound, OutsideInvariant DEF Start, IInv
<1>2. CASE Forward(l)
  BY <1>2, OutsideInvariant DEF Forward, managerVars, IInv, Types
<1>3. CASE Stop(l)
  <2>1. [kind |-> "unregister", listener |-> l] \in Message
    BY DEF Message
  <2>. QED  BY <1>3, <2>1, AppendSound, OutsideInvariant DEF Stop, IInv
<1>. QED  BY <1>1, <1>2, <1>3

LEMMA ReceiveInvariant ==
  ASSUME IInv, Receive
  PROVE  IInv'
<1>1. CASE Register
  BY <1>1, TailSound, OutsideInvariant DEF Register, Handling, IInv
<1>2. CASE Unregister
  BY <1>2, TailSound, OutsideInvariant DEF Unregister, Handling, IInv
<1>3. CASE BeginNotify
  <2>1. /\ mailbox # <<>> /\ Head(mailbox).kind = "notify"
        /\ job.kind = "idle" /\ job' = Head(mailbox)
        /\ mailbox' = Tail(mailbox)
        /\ UNCHANGED <<events, since, mailVars>>
    BY <1>3 DEF BeginNotify, Handling
  <2>2. Head(mailbox) = mailbox[1] /\ 1 \in DOMAIN mailbox
    BY <2>1 DEF IInv, Types
  <2>3. Head(mailbox).targets \in Seq(User) /\ Head(mailbox).targets # <<>>
    BY <2>1, <2>2 DEF IInv, Types, Message
  <2>4. Types'
    BY <2>1, <2>3, TailSound DEF IInv, Types, mailVars
  <2>5. RoundSound'
    BY <2>1 DEF RoundSound
  <2>6. CountSound'
    BY <2>1 DEF IInv, CountSound, Taken, mailVars
  <2>. QED  BY <2>4, <2>5, <2>6 DEF IInv
<1>. QED  BY <1>1, <1>2, <1>3 DEF Receive

LEMMA RecordInvariant ==
  ASSUME IInv, Record
  PROVE  IInv'
<1>1. PICK row \in Row : events' = Append(events, row)
  <2>1. Head(job.targets) \in User
    BY DEF IInv, Types, Record
  <2>2. [user |-> Head(job.targets), unread |-> TRUE] \in Row
    BY <2>1 DEF Row
  <2>. QED  BY <2>2 DEF Record
<1>2. job.kind = "notify" /\ UNCHANGED <<mailbox, since, mailVars>>
  BY DEF Record
<1>3. /\ job'.kind # "round"
      /\ job'.kind = "notify" => job'.targets \in Seq(User) /\ job'.targets # <<>>
  <2>1. CASE Tail(job.targets) = <<>>
    BY <2>1 DEF Record, Idle
  <2>2. CASE Tail(job.targets) # <<>>
    <3>1. Tail(job.targets) \in Seq(User)
      BY <1>2 DEF IInv, Types
    <3>2. job' = [job EXCEPT !.targets = Tail(job.targets)]
      BY <2>2 DEF Record
    <3>. QED  BY <1>2, <2>2, <3>1, <3>2
  <2>. QED  BY <2>1, <2>2
<1>4. Types'
  <2>1. events' \in Seq(Row) /\ Len(events') = Len(events) + 1
    BY <1>1 DEF IInv, Types
  <2>. QED  BY <1>2, <1>3, <2>1 DEF IInv, Types, mailVars
<1>5. RoundSound' /\ CountSound'
  BY <1>2, <1>3 DEF IInv, RoundSound, CountSound, Taken, mailVars
<1>. QED  BY <1>4, <1>5 DEF IInv

LEMMA FailNotifyInvariant ==
  ASSUME IInv, FailNotify
  PROVE  IInv'
BY DEF FailNotify, IInv, Types, RoundSound, CountSound, Taken, Idle, mailVars

LEMMA BeginRoundInvariant ==
  ASSUME IInv, BeginRound
  PROVE  IInv'
<1>1. /\ job.kind = "idle" /\ job'.kind = "round"
      /\ job'.now = Len(events) /\ job'.events = ToMail
      /\ job'.users = {events[i].user : i \in ToMail}
      /\ UNCHANGED <<events, mailbox, since, mailVars>>
  BY DEF BeginRound
<1>2. Types'
  BY <1>1 DEF IInv, Types, mailVars
<1>3. RoundSound'
  BY <1>1 DEF IInv, Types, RoundSound, ToMail
<1>4. \A i \in Id : ~Taken(i)' /\ ~Taken(i)
  BY <1>1 DEF Taken
<1>5. CountSound'
  BY <1>1, <1>4 DEF IInv, CountSound, mailVars
<1>. QED  BY <1>2, <1>3, <1>5 DEF IInv

LEMMA MailInvariant ==
  ASSUME IInv, Mail
  PROVE  IInv'
<1>1. PICK u \in job.users :
        /\ mails' = [i \in Id |-> IF i \in job.events /\ events[i].user = u
                                  THEN mails[i] + 1 ELSE mails[i]]
        /\ job' = [job EXCEPT !.users = @ \ {u}]
  BY DEF Mail
<1>2. job.kind = "round" /\ UNCHANGED <<events, mailbox, since, failures>>
  BY DEF Mail
<1>3. /\ job'.kind = job.kind /\ job'.now = job.now /\ job'.events = job.events
      /\ job'.users = job.users \ {u}
  BY <1>1
<1>4. Types'
  BY <1>1, <1>2, <1>3 DEF IInv, Types
<1>5. RoundSound'
  BY <1>2, <1>3 DEF IInv, RoundSound
<1>6. CountSound'
  <2>1. SUFFICES ASSUME NEW i \in Id
                 PROVE  /\ mails'[i] <= 1 + failures
                        /\ since < i /\ ~Taken(i)' => mails'[i] <= failures
    BY <1>2 DEF CountSound
  <2>2. mails[i] \in Nat /\ failures \in Nat
    BY DEF IInv, Types
  <2>3. CASE i \in job.events /\ events[i].user = u
    <3>1. since < i /\ ~Taken(i)
      BY <1>2, <2>3 DEF IInv, RoundSound, Taken
    <3>2. mails'[i] = mails[i] + 1 /\ mails[i] <= failures
      BY <1>1, <2>3, <3>1 DEF IInv, CountSound
    <3>3. Taken(i)'
      BY <1>2, <1>3, <2>3 DEF Taken
    <3>. QED  BY <2>2, <3>2, <3>3
  <2>4. CASE ~(i \in job.events /\ events[i].user = u)
    <3>1. mails'[i] = mails[i]
      BY <1>1, <2>4
    <3>2. Taken(i)' <=> Taken(i)
      BY <1>2, <1>3, <2>4 DEF Taken
    <3>. QED  BY <3>1, <3>2 DEF IInv, CountSound
  <2>. QED  BY <2>3, <2>4
<1>. QED  BY <1>4, <1>5, <1>6 DEF IInv

LEMMA EndRoundInvariant ==
  ASSUME IInv, EndRound
  PROVE  IInv'
<1>1. /\ job.kind = "round" /\ since' = job.now /\ job' = Idle
      /\ UNCHANGED <<events, mailbox, mailVars>>
  BY DEF EndRound
<1>2. Types' /\ RoundSound'
  BY <1>1 DEF IInv, Types, RoundSound, Idle, mailVars
<1>3. ASSUME NEW i \in Id, since' < i PROVE since < i /\ ~Taken(i)
  BY <1>1, <1>3 DEF IInv, Types, RoundSound, Taken, Id
<1>4. CountSound'
  BY <1>1, <1>3 DEF IInv, CountSound, mailVars
<1>. QED  BY <1>2, <1>4 DEF IInv

LEMMA FailRoundInvariant ==
  ASSUME IInv, FailRound
  PROVE  IInv'
<1>1. /\ job' = Idle /\ failures' = failures + 1
      /\ UNCHANGED <<events, mailbox, since, mails>>
  BY DEF FailRound
<1>2. Types' /\ RoundSound'
  BY <1>1 DEF IInv, Types, RoundSound, Idle
<1>3. CountSound'
  <2>1. ASSUME NEW i \in Id PROVE mails[i] <= failures'
    BY <1>1 DEF IInv, Types, CountSound
  <2>. QED  BY <1>1, <2>1 DEF IInv, Types, CountSound
<1>. QED  BY <1>2, <1>3 DEF IInv

LEMMA RestartInvariant ==
  ASSUME IInv, Restart
  PROVE  IInv'
<1>1. /\ mailbox' = <<>> /\ job' = Idle /\ since' = Len(events)
      /\ UNCHANGED <<events, mailVars>>
  BY DEF Restart
<1>2. Types' /\ RoundSound'
  BY <1>1 DEF IInv, Types, RoundSound, Idle, mailVars
<1>3. ASSUME NEW i \in Id, since' < i PROVE since < i /\ ~Taken(i)
  BY <1>1, <1>3 DEF IInv, Types, RoundSound, Taken, Id
<1>4. CountSound'
  BY <1>1, <1>3 DEF IInv, CountSound, mailVars
<1>. QED  BY <1>2, <1>4 DEF IInv

LEMMA NextInvariant == IInv /\ [Next]_vars => IInv'
<1>1. SUFFICES ASSUME IInv, [Next]_vars PROVE IInv'
  OBVIOUS
<1>2. CASE Receive
  BY <1>1, <1>2, ReceiveInvariant
<1>3. CASE Work
  BY <1>1, <1>3, RecordInvariant, FailNotifyInvariant, MailInvariant,
     EndRoundInvariant, FailRoundInvariant DEF Work
<1>4. CASE BeginRound
  BY <1>1, <1>4, BeginRoundInvariant
<1>5. CASE Restart
  BY <1>1, <1>5, RestartInvariant
<1>6. CASE \E targets \in Targets : Notify(targets)
  BY <1>1, <1>6, NotifyInvariant
<1>7. CASE \E i \in Id, unread \in BOOLEAN : UpdateNotification(i, unread)
  BY <1>1, <1>7, UpdateNotificationInvariant
<1>8. CASE \E l \in Listener : Start(l) \/ Forward(l) \/ Stop(l)
  BY <1>1, <1>8, ListenerInvariant
<1>9. CASE UNCHANGED vars
  BY <1>1, <1>9, OutsideInvariant DEF vars, mailVars, IInv, Types
<1>. QED  BY <1>1, <1>2, <1>3, <1>4, <1>5, <1>6, <1>7, <1>8, <1>9 DEF Next

LEMMA Invariant == Spec => []IInv
BY InitInvariant, NextInvariant, PTL DEF Spec

\* However often users mark notifications, rounds fail and the server restarts,
\* an event is in one mail, and in one more at most for each round that failed
\* (EventManager::send_emails).
THEOREM MailedOnce == Spec => []MailedAgainOnlyAfterFailure
<1>1. IInv => MailedAgainOnlyAfterFailure
  BY DEF IInv, CountSound, MailedAgainOnlyAfterFailure
<1>. QED  BY <1>1, Invariant, PTL

-----------------------------------------------------------------------------
(***************************************************************************)
(* What the listeners are passed.                                          *)
(***************************************************************************)
ListenerTypes ==
    /\ streams \in [User -> Listener \cup {Null}]
    /\ status \in [Listener -> {"new", "registering", "open", "gone"}]
    /\ inbox \in [Listener -> Seq(Nat)]
    /\ sent \in [Listener -> Seq(Nat)]
    /\ opened \in [Listener -> 0..Len(events)]

\* A listener is registered while it waits for that, once at most, and is
\* unregistered when it is gone.
MailboxSound ==
    /\ \A k \in DOMAIN mailbox : mailbox[k].kind = "register" =>
            status[mailbox[k].listener] = "registering"
    /\ \A k \in DOMAIN mailbox : mailbox[k].kind = "unregister" =>
            status[mailbox[k].listener] = "gone"
    /\ \A j, k \in DOMAIN mailbox :
            /\ mailbox[j].kind = "register" /\ mailbox[k].kind = "register"
            /\ mailbox[j].listener = mailbox[k].listener
            => j = k

Sent(l) == {sent[l][k] : k \in DOMAIN sent[l]}
Waiting(l) == {inbox[l][k] : k \in DOMAIN inbox[l]}
Passed(l) == Sent(l) \cup Waiting(l)

Ordered(l) ==
    /\ \A j, k \in DOMAIN sent[l] : j < k => sent[l][j] < sent[l][k]
    /\ \A j, k \in DOMAIN inbox[l] : j < k => inbox[l][j] < inbox[l][k]
    /\ \A x \in Sent(l), y \in Waiting(l) : x < y

\* Of its user's events since it was registered a listener was passed all up to
\* the last it was passed, and while it is the registered one all there are.
Gapless(l) ==
    /\ Passed(l) \subseteq Ours(l)
    /\ \A x \in Passed(l) : opened[l] < x
    /\ \A y \in Passed(l) : \A i \in Ours(l) :
            opened[l] < i /\ i < y => i \in Passed(l)
    /\ status[l] # "gone" /\ streams[Owner[l]] = l
        => \A i \in Ours(l) : opened[l] < i => i \in Passed(l)

\* The listener registered for a user is one of its own, and is the only one
\* that has ever been if there is none else.
Registered(l) ==
    /\ status[l] \in {"new", "registering"} => Passed(l) = {}
    /\ \A u \in User : streams[u] = l => Owner[l] = u /\ status[l] \in {"open", "gone"}
    /\ /\ status[l] = "open"
       /\ \A k \in Listener \ {l} :
            Owner[k] = Owner[l] => status[k] \in {"new", "registering"}
       => streams[Owner[l]] = l

StreamSound(l) == Ordered(l) /\ Gapless(l) /\ Registered(l)

Streaming == IInv /\ ListenerTypes /\ MailboxSound /\ \A l \in Listener : StreamSound(l)

LEMMA InitStreaming == Init => Streaming
<1> SUFFICES ASSUME Init PROVE Streaming
  OBVIOUS
<1>1. IInv
  BY InitInvariant
<1>2. ListenerTypes /\ MailboxSound
  BY DEF Init, ListenerTypes, MailboxSound
<1>3. ASSUME NEW l \in Listener PROVE StreamSound(l)
  <2>1. sent[l] = <<>> /\ inbox[l] = <<>> /\ status[l] = "new"
    BY DEF Init
  <2>2. Sent(l) = {} /\ Waiting(l) = {} /\ Passed(l) = {}
    BY <2>1 DEF Sent, Waiting, Passed
  <2>3. \A u \in User : streams[u] = Null
    BY DEF Init
  <2>4. Null # l
    BY EventsAssumption
  <2>5. streams[Owner[l]] # l
    BY <2>3, <2>4, EventsAssumption
  <2> QED BY <2>1, <2>2, <2>3, <2>4, <2>5
          DEF StreamSound, Ordered, Gapless, Registered
<1> QED BY <1>1, <1>2, <1>3 DEF Streaming

LEMMA MessageTypes ==
  ASSUME IInv
  PROVE  /\ \A k \in DOMAIN mailbox : mailbox[k] \in Message
         /\ \A k \in DOMAIN mailbox :
                mailbox[k].kind \in {"register", "unregister"} =>
                    mailbox[k].listener \in Listener
         /\ mailbox # <<>> => Head(mailbox) = mailbox[1] /\ 1 \in DOMAIN mailbox
<1>1. mailbox \in Seq(Message)
  BY DEF IInv, Types
<1>2. \A k \in DOMAIN mailbox : mailbox[k] \in Message
  BY <1>1
<1>3. mailbox # <<>> => Head(mailbox) = mailbox[1] /\ 1 \in DOMAIN mailbox
  BY <1>1
<1> QED BY <1>2, <1>3 DEF Message

\* What of the mailbox is kept stays sound while nobody's status changes that a
\* message there is about.
LEMMA MailboxTail ==
  ASSUME IInv, MailboxSound, mailbox # <<>>, mailbox' = Tail(mailbox),
         \A k \in DOMAIN mailbox : k # 1 /\ mailbox[k].kind \in {"register", "unregister"}
            => status'[mailbox[k].listener] = status[mailbox[k].listener]
  PROVE  MailboxSound'
<1>1. mailbox \in Seq(Message)
  BY DEF IInv, Types
<1>2. \A k \in DOMAIN mailbox' : k + 1 \in DOMAIN mailbox /\ mailbox'[k] = mailbox[k + 1]
                                 /\ k + 1 # 1 /\ k \in Nat
  BY <1>1
<1>3. \A j, k \in DOMAIN mailbox' : j + 1 = k + 1 => j = k
  BY <1>2
<1> QED BY <1>2, <1>3 DEF MailboxSound

LEMMA MailboxAppend ==
  ASSUME IInv, MailboxSound, NEW m \in Message, mailbox' = Append(mailbox, m),
         m.kind = "register" =>
            /\ status'[m.listener] = "registering"
            /\ status[m.listener] # "registering",
         m.kind = "unregister" => status'[m.listener] = "gone",
         \A l \in Listener : status'[l] = status[l]
            \/ (status[l] \notin {"registering", "gone"})
  PROVE  MailboxSound'
<1>1. mailbox \in Seq(Message)
  BY DEF IInv, Types
<1> DEFINE p == Len(mailbox) + 1
<1>2. /\ DOMAIN mailbox' = DOMAIN mailbox \cup {p} /\ mailbox'[p] = m
      /\ \A k \in DOMAIN mailbox : mailbox'[k] = mailbox[k]
  BY <1>1
<1> HIDE DEF p
<1>3. \A k \in DOMAIN mailbox : mailbox[k].kind \in {"register", "unregister"} =>
        /\ mailbox[k].listener \in Listener
        /\ status'[mailbox[k].listener] = status[mailbox[k].listener]
  BY MessageTypes DEF MailboxSound
<1>4. \A k \in DOMAIN mailbox' : mailbox'[k].kind = "register" =>
            status'[mailbox'[k].listener] = "registering"
  BY <1>2, <1>3 DEF MailboxSound
<1>5. \A k \in DOMAIN mailbox' : mailbox'[k].kind = "unregister" =>
            status'[mailbox'[k].listener] = "gone"
  BY <1>2, <1>3 DEF MailboxSound
<1>6. ASSUME NEW j \in DOMAIN mailbox', NEW k \in DOMAIN mailbox',
             mailbox'[j].kind = "register", mailbox'[k].kind = "register",
             mailbox'[j].listener = mailbox'[k].listener
      PROVE  j = k
  <2>1. ASSUME NEW i \in DOMAIN mailbox, mailbox[i].kind = "register",
               m.kind = "register", mailbox[i].listener = m.listener
        PROVE  FALSE
    BY <2>1 DEF MailboxSound
  <2> QED BY <1>2, <1>6, <2>1 DEF MailboxSound
<1> QED BY <1>4, <1>5, <1>6 DEF MailboxSound

\* The lists of one listener.
LEMMA ListTypes ==
  ASSUME ListenerTypes, NEW l \in Listener
  PROVE  /\ sent[l] \in Seq(Nat) /\ inbox[l] \in Seq(Nat)
         /\ DOMAIN sent[l] = 1..Len(sent[l]) /\ DOMAIN inbox[l] = 1..Len(inbox[l])
         /\ Len(sent[l]) \in Nat /\ Len(inbox[l]) \in Nat
         /\ Sent(l) \subseteq Nat /\ Waiting(l) \subseteq Nat /\ Passed(l) \subseteq Nat
         /\ status[l] \in {"new", "registering", "open", "gone"}
<1>1. /\ sent[l] \in Seq(Nat) /\ inbox[l] \in Seq(Nat)
      /\ status[l] \in {"new", "registering", "open", "gone"}
  BY DEF ListenerTypes
<1>2. \A k \in DOMAIN sent[l] : sent[l][k] \in Nat
  BY <1>1
<1>3. \A k \in DOMAIN inbox[l] : inbox[l][k] \in Nat
  BY <1>1
<1>4. Sent(l) \subseteq Nat /\ Waiting(l) \subseteq Nat
  BY <1>2, <1>3 DEF Sent, Waiting
<1> QED BY <1>1, <1>4 DEF Passed

LEMMA TailIs ==
  ASSUME NEW S, NEW s \in Seq(S), s # <<>>, NEW t, t = Tail(s)
  PROVE  /\ t \in Seq(S) /\ Head(s) = s[1] /\ 1 \in DOMAIN s
         /\ \A k \in DOMAIN t : k + 1 \in DOMAIN s /\ k + 1 > 1 /\ t[k] = s[k + 1]
         /\ \A k \in DOMAIN s : k = 1 \/ (k - 1 \in DOMAIN t /\ (k - 1) + 1 = k)
         /\ \A j, k \in DOMAIN t : j < k => j + 1 < k + 1
<1>1. t \in Seq(S) /\ Len(t) = Len(s) - 1 /\ Len(s) \in Nat /\ Len(s) > 0
  OBVIOUS
<1>2. DOMAIN t = 1..Len(t) /\ DOMAIN s = 1..Len(s) /\ Head(s) = s[1]
  BY <1>1
<1>3. \A k \in 1..Len(t) : t[k] = s[k + 1]
  OBVIOUS
<1>4. \A k \in 1..Len(t) : k + 1 \in 1..Len(s) /\ k + 1 > 1
  BY <1>1
<1>5. \A k \in 1..Len(s) : k = 1 \/ (k - 1 \in 1..Len(t) /\ (k - 1) + 1 = k)
  BY <1>1
<1> QED BY <1>1, <1>2, <1>3, <1>4, <1>5

LEMMA AppendIs ==
  ASSUME NEW s \in Seq(Nat), NEW x \in Nat, NEW t, t = Append(s, x), NEW p, p = Len(s) + 1
  PROVE  /\ t \in Seq(Nat) /\ DOMAIN t = DOMAIN s \cup {p} /\ t[p] = x /\ p \in Int
         /\ \A k \in DOMAIN s : t[k] = s[k] /\ k < p /\ k \in Int
OBVIOUS

\* A list ordered, and an element above all of it.
LEMMA AppendOrdered ==
  ASSUME NEW s \in Seq(Nat), NEW x \in Nat, NEW t, t = Append(s, x),
         \A j, k \in DOMAIN s : j < k => s[j] < s[k],
         \A k \in DOMAIN s : s[k] < x
  PROVE  /\ \A j, k \in DOMAIN t : j < k => t[j] < t[k]
         /\ {t[k] : k \in DOMAIN t} = {s[k] : k \in DOMAIN s} \cup {x}
<1> DEFINE p == Len(s) + 1
<1>1. /\ t \in Seq(Nat) /\ DOMAIN t = DOMAIN s \cup {p} /\ t[p] = x /\ p \in Int
      /\ \A k \in DOMAIN s : t[k] = s[k] /\ k < p /\ k \in Int
  BY AppendIs
<1> HIDE DEF p
<1>2. ASSUME NEW j \in DOMAIN t, NEW k \in DOMAIN t, j < k
      PROVE  t[j] < t[k]
  <2>1. j \in DOMAIN s
    <3>1. ASSUME j = p PROVE FALSE
      BY <1>1, <1>2, <3>1
    <3> QED BY <1>1, <3>1
  <2>2. CASE k = p
    BY <1>1, <2>1, <2>2
  <2>3. CASE k # p
    BY <1>1, <1>2, <2>1, <2>3
  <2> QED BY <2>2, <2>3
<1> QED BY <1>1, <1>2

\* Handler<NewEvent> for Listener sends the first waiting event.
LEMMA ForwardPasses ==
  ASSUME ListenerTypes, NEW l \in Listener, Forward(l), Ordered(l)
  PROVE  ListenerTypes' /\ Passed(l)' = Passed(l) /\ Ordered(l)'
<1> DEFINE s == inbox[l]  x == Head(s)  t == inbox'[l]
<1>1. /\ s \in Seq(Nat) /\ s # <<>> /\ t = Tail(s) /\ sent[l] \in Seq(Nat)
      /\ sent'[l] = Append(sent[l], x)
      /\ sent' = [sent EXCEPT ![l] = Append(@, x)]
      /\ inbox' = [inbox EXCEPT ![l] = Tail(@)]
      /\ UNCHANGED <<events, streams, status, opened>>
  BY DEF Forward, ListenerTypes, managerVars
<1> HIDE DEF s, t
<1>2. /\ t \in Seq(Nat) /\ x = s[1] /\ 1 \in DOMAIN s
      /\ \A k \in DOMAIN t : k + 1 \in DOMAIN s /\ k + 1 > 1 /\ t[k] = s[k + 1]
      /\ \A k \in DOMAIN s : k = 1 \/ (k - 1 \in DOMAIN t /\ (k - 1) + 1 = k)
      /\ \A j, k \in DOMAIN t : j < k => j + 1 < k + 1
  BY <1>1, TailIs
<1>3. x \in Nat
  BY <1>1, <1>2
<1> HIDE DEF x
<1>4. Waiting(l) = Waiting(l)' \cup {x} /\ \A y \in Waiting(l)' : x < y
  <2>1. Waiting(l) = {s[k] : k \in DOMAIN s} /\ Waiting(l)' = {t[k] : k \in DOMAIN t}
    BY DEF Waiting, s, t
  <2>2. {s[k] : k \in DOMAIN s} = {t[k] : k \in DOMAIN t} \cup {x}
    <3>1. ASSUME NEW k \in DOMAIN s PROVE s[k] = x \/ s[k] \in {t[i] : i \in DOMAIN t}
      <4>1. CASE k = 1
        BY <1>2, <4>1
      <4>2. CASE k - 1 \in DOMAIN t /\ (k - 1) + 1 = k
        <5>1. t[k - 1] = s[k]
          BY <1>2, <4>2
        <5> QED BY <4>2, <5>1
      <4> QED BY <1>2, <4>1, <4>2
    <3>2. ASSUME NEW k \in DOMAIN t PROVE t[k] \in {s[i] : i \in DOMAIN s}
      BY <1>2
    <3> QED BY <1>2, <3>1, <3>2
  <2>3. \A k \in DOMAIN t : x < t[k]
    BY <1>2 DEF Ordered, s
  <2> QED BY <2>1, <2>2, <2>3
<1>5. /\ \A j, k \in DOMAIN sent[l] : j < k => sent[l][j] < sent[l][k]
      /\ \A k \in DOMAIN sent[l] : sent[l][k] < x
  <2>1. \A k \in DOMAIN sent[l] : sent[l][k] \in Sent(l)
    BY DEF Sent
  <2> QED BY <1>4, <2>1 DEF Ordered
<1>6. /\ \A j, k \in DOMAIN sent'[l] : j < k => sent'[l][j] < sent'[l][k]
      /\ {sent'[l][k] : k \in DOMAIN sent'[l]} = {sent[l][k] : k \in DOMAIN sent[l]} \cup {x}
  <2> DEFINE a == sent[l]  b == sent'[l]
  <2>1. a \in Seq(Nat) /\ b = Append(a, x)
    BY <1>1
  <2>2. \A j, k \in DOMAIN a : j < k => a[j] < a[k]
    BY <1>5
  <2>3. \A k \in DOMAIN a : a[k] < x
    BY <1>5
  <2> HIDE DEF a, b
  <2>4. /\ \A j, k \in DOMAIN b : j < k => b[j] < b[k]
        /\ {b[k] : k \in DOMAIN b} = {a[k] : k \in DOMAIN a} \cup {x}
    BY <1>3, <2>1, <2>2, <2>3, AppendOrdered
  <2> QED BY <2>4 DEF a, b
<1>7. Sent(l)' = Sent(l) \cup {x}
  BY <1>6 DEF Sent
<1>8. \A j, k \in DOMAIN t : j < k => t[j] < t[k]
  BY <1>2 DEF Ordered, s
<1>9. Ordered(l)'
  BY <1>4, <1>6, <1>7, <1>8 DEF Ordered, t
<1>10. sent'[l] \in Seq(Nat) /\ inbox'[l] \in Seq(Nat)
  BY <1>1, <1>2, <1>3 DEF t
<1>11. ListenerTypes'
  <2>1. sent' \in [Listener -> Seq(Nat)] /\ inbox' \in [Listener -> Seq(Nat)]
    BY <1>1, <1>10 DEF ListenerTypes
  <2> QED BY <1>1, <2>1 DEF ListenerTypes
<1> QED BY <1>4, <1>7, <1>9, <1>11 DEF Passed

\* What was waiting for a listener is lost.
LEMMA LosingPasses ==
  ASSUME ListenerTypes, NEW l \in Listener, sent'[l] = sent[l],
         inbox'[l] = <<>> \/ inbox'[l] = inbox[l],
         DOMAIN events' = DOMAIN events,
         \A i \in DOMAIN events : events'[i].user = events[i].user,
         Ordered(l), Gapless(l), opened'[l] = opened[l],
         status'[l] = "gone" \/
            (inbox'[l] = inbox[l]
             /\ (status'[l] = status[l] \/ status[l] # "gone")
             /\ (streams'[Owner[l]] = l => streams[Owner[l]] = l))
  PROVE  Ordered(l)' /\ Gapless(l)' /\ Passed(l)' \subseteq Passed(l)
<1>1. Ours(l)' = Ours(l)
  BY DEF Ours
<1>2. Sent(l)' = Sent(l)
  BY DEF Sent
<1>3. CASE inbox'[l] = inbox[l]
  <2>1. Waiting(l)' = Waiting(l) /\ Passed(l)' = Passed(l)
    BY <1>2, <1>3 DEF Waiting, Passed
  <2> QED BY <1>1, <1>2, <1>3, <2>1 DEF Ordered, Gapless
<1>4. CASE inbox'[l] = <<>> /\ status'[l] = "gone"
  <2>1. Waiting(l)' = {} /\ Passed(l)' = Sent(l)
    BY <1>2, <1>4 DEF Waiting, Passed
  <2>2. Ordered(l)'
    BY <1>2, <1>4, <2>1 DEF Ordered
  <2>3. \A y \in Sent(l) : \A i \in Ours(l) : opened[l] < i /\ i < y => i \in Sent(l)
    <3> SUFFICES ASSUME NEW y \in Sent(l), NEW i \in Ours(l),
                        opened[l] < i, i < y
                 PROVE  i \in Sent(l)
      OBVIOUS
    <3>1. i \in Passed(l)
      BY DEF Passed, Gapless
    <3>2. i \in Waiting(l) => y < i
      BY DEF Ordered
    <3>3. i \in Nat /\ y \in Nat
      BY <3>1, ListTypes
    <3> QED BY <3>1, <3>2, <3>3 DEF Passed
  <2>4. Gapless(l)'
    BY <1>1, <1>4, <2>1, <2>3 DEF Gapless, Passed
  <2> QED BY <2>1, <2>2, <2>4 DEF Passed
<1> QED BY <1>3, <1>4

\* do_notify passes a new event to the listener registered for its user.
LEMMA RecordPasses ==
  ASSUME IInv, ListenerTypes, Record, NEW l \in Listener, StreamSound(l)
  PROVE  StreamSound(l)' /\ inbox'[l] \in Seq(Nat)
<1> DEFINE u == Head(job.targets)  id == Len(events) + 1
<1>1. /\ events' = Append(events, [user |-> u, unread |-> TRUE])
      /\ inbox'[l] = IF l \in Reached(u) THEN Append(inbox[l], id) ELSE inbox[l]
      /\ UNCHANGED <<streams, status, sent, opened>>
  BY DEF Record
<1>2. u \in User
  BY DEF IInv, Types, Record
<1>3. events \in Seq(Row) /\ Len(events) \in Nat
  BY DEF IInv, Types
<1>4. /\ DOMAIN events' = DOMAIN events \cup {id} /\ events'[id].user = u
      /\ \A i \in DOMAIN events : events'[i] = events[i] /\ i < id /\ i \in Nat
      /\ id \in Nat
  <2>1. [user |-> u, unread |-> TRUE] \in Row
    BY <1>2 DEF Row
  <2> QED BY <1>1, <1>3, <2>1
<1> HIDE DEF u, id
<1>5. Ours(l)' = IF Owner[l] = u THEN Ours(l) \cup {id} ELSE Ours(l)
  BY <1>4 DEF Ours
<1>6. Sent(l)' = Sent(l)
  BY <1>1 DEF Sent
<1>7. /\ \A x \in Passed(l) : x < id
      /\ Ours(l) \subseteq Nat /\ Passed(l) \subseteq Nat
      /\ opened[l] \in Nat /\ opened[l] < id
  <2>1. opened[l] \in 0..Len(events)
    BY DEF ListenerTypes
  <2> QED BY <1>3, <1>4, <2>1 DEF StreamSound, Gapless, Ours, id
<1>8. CASE l \in Reached(u)
  <2>1. l = streams[u] /\ status[l] # "gone" /\ Owner[l] = u /\ status[l] = "open"
    BY <1>2, <1>8 DEF Reached, StreamSound, Registered
  <2>2. inbox'[l] = Append(inbox[l], id) /\ inbox[l] \in Seq(Nat)
    BY <1>1, <1>8, ListTypes
  <2>3. /\ \A j, k \in DOMAIN inbox[l] : j < k => inbox[l][j] < inbox[l][k]
        /\ \A k \in DOMAIN inbox[l] : inbox[l][k] < id
    BY <1>7 DEF StreamSound, Ordered, Passed, Waiting
  <2>4. /\ \A j, k \in DOMAIN inbox'[l] : j < k => inbox'[l][j] < inbox'[l][k]
        /\ {inbox'[l][k] : k \in DOMAIN inbox'[l]}
            = {inbox[l][k] : k \in DOMAIN inbox[l]} \cup {id}
    <3> DEFINE a == inbox[l]  b == inbox'[l]
    <3>1. a \in Seq(Nat) /\ b = Append(a, id)
      BY <2>2
    <3>2. \A j, k \in DOMAIN a : j < k => a[j] < a[k]
      BY <2>3
    <3>3. \A k \in DOMAIN a : a[k] < id
      BY <2>3
    <3>0. id \in Nat
      BY <1>4
    <3> HIDE DEF a, b
    <3>4. /\ \A j, k \in DOMAIN b : j < k => b[j] < b[k]
          /\ {b[k] : k \in DOMAIN b} = {a[k] : k \in DOMAIN a} \cup {id}
      <4> DEFINE x == id
      <4>1. x \in Nat /\ b = Append(a, x) /\ \A k \in DOMAIN a : a[k] < x
        BY <3>0, <3>1, <3>3
      <4> HIDE DEF x
      <4>2. /\ \A j, k \in DOMAIN b : j < k => b[j] < b[k]
            /\ {b[k] : k \in DOMAIN b} = {a[k] : k \in DOMAIN a} \cup {x}
        BY <3>1, <3>2, <4>1, AppendOrdered
      <4> QED BY <4>2 DEF x
    <3> QED BY <3>4 DEF a, b
  <2>5. Waiting(l)' = Waiting(l) \cup {id} /\ Passed(l)' = Passed(l) \cup {id}
    BY <1>6, <2>4 DEF Waiting, Passed
  <2>6. Ordered(l)'
    BY <1>1, <1>6, <1>7, <2>4, <2>5 DEF StreamSound, Ordered, Passed
  <2>7. \A i \in Ours(l)' : opened[l] < i => i \in Passed(l)'
    BY <1>5, <2>1, <2>5 DEF StreamSound, Gapless
  <2>8. \A x \in Passed(l)' : opened[l] < x
    BY <1>7, <2>5 DEF StreamSound, Gapless
  <2>9. Passed(l)' \subseteq Ours(l)'
    BY <1>5, <2>1, <2>5 DEF StreamSound, Gapless
  <2>10. Gapless(l)'
    BY <1>1, <2>7, <2>8, <2>9 DEF Gapless
  <2>11. Registered(l)'
    BY <1>1, <2>1 DEF StreamSound, Registered
  <2> QED BY <1>4, <2>2, <2>6, <2>10, <2>11, AppendIs DEF StreamSound
<1>9. CASE l \notin Reached(u)
  <2>1. Waiting(l)' = Waiting(l) /\ Passed(l)' = Passed(l) /\ inbox'[l] = inbox[l]
    BY <1>1, <1>6, <1>9 DEF Waiting, Passed
  <2>2. Ordered(l)'
    BY <1>1, <1>6, <2>1 DEF StreamSound, Ordered
  <2>3. ~(status[l] # "gone" /\ streams[Owner[l]] = l) \/ Owner[l] # u
    BY <1>9 DEF Reached
  <2>4. \A y \in Passed(l) : \A i \in Ours(l)' :
            opened[l] < i /\ i < y => i \in Passed(l)
    <3> SUFFICES ASSUME NEW y \in Passed(l), NEW i \in Ours(l)',
                        opened[l] < i, i < y
                 PROVE  i \in Passed(l)
      OBVIOUS
    <3>1. i # id
      <4> SUFFICES ASSUME i = id PROVE FALSE
        OBVIOUS
      <4>1. y < id /\ y \in Nat
        BY <1>7
      <4> QED BY <1>4, <4>1
    <3> QED BY <1>5, <3>1 DEF StreamSound, Gapless
  <2>5. Passed(l) \subseteq Ours(l)'
    BY <1>5 DEF StreamSound, Gapless
  <2>6. Gapless(l)'
    BY <1>1, <1>5, <2>1, <2>3, <2>4, <2>5 DEF StreamSound, Gapless
  <2>7. Registered(l)'
    BY <1>1, <2>1 DEF StreamSound, Registered
  <2> QED BY <2>1, <2>2, <2>6, <2>7, ListTypes DEF StreamSound
<1> QED BY <1>8, <1>9

\* Steps that leave the listeners and whose the events are alone.
LEMMA ListenersKept ==
  ASSUME Streaming, UNCHANGED <<streams, status, inbox, sent, opened>>,
         Len(events') = Len(events),
         DOMAIN events' = DOMAIN events,
         \A i \in DOMAIN events : events'[i].user = events[i].user
  PROVE  ListenerTypes' /\ \A l \in Listener : StreamSound(l)'
<1>1. ListenerTypes'
  BY DEF Streaming, ListenerTypes
<1>2. ASSUME NEW l \in Listener PROVE StreamSound(l)'
  <2>1. ListenerTypes /\ Ordered(l) /\ Gapless(l) /\ Registered(l)
    BY DEF Streaming, StreamSound
  <2>2. sent'[l] = sent[l] /\ inbox'[l] = inbox[l] /\ status'[l] = status[l]
        /\ streams'[Owner[l]] = streams[Owner[l]] /\ opened'[l] = opened[l]
    OBVIOUS
  <2>3. Ordered(l)' /\ Gapless(l)'
    BY <2>1, <2>2, LosingPasses
  <2>4. Passed(l)' = Passed(l)
    BY DEF Passed, Sent, Waiting
  <2>5. Registered(l)'
    BY <2>1, <2>4 DEF Registered
  <2> QED BY <2>3, <2>5 DEF StreamSound
<1> QED BY <1>1, <1>2

LEMMA MailboxKept ==
  ASSUME MailboxSound, UNCHANGED <<mailbox, status>>
  PROVE  MailboxSound'
BY DEF MailboxSound

LEMMA NotifyStreams ==
  ASSUME Streaming, NEW targets \in Targets, Notify(targets)
  PROVE  MailboxSound' /\ ListenerTypes' /\ \A l \in Listener : StreamSound(l)'
<1>1. UNCHANGED <<events, streams, status, inbox, sent, opened>>
  BY DEF Notify, listenerVars
<1>2. ListenerTypes' /\ \A l \in Listener : StreamSound(l)'
  BY <1>1, ListenersKept
<1>3. CASE Len(mailbox) < Capacity
  <2> DEFINE m == [kind |-> "notify", targets |-> targets]
  <2>1. m \in Message /\ m.kind = "notify"
    BY EventsAssumption DEF Message
  <2>2. mailbox' = Append(mailbox, m)
    BY <1>3 DEF Notify
  <2> HIDE DEF m
  <2>3. IInv /\ MailboxSound
    BY DEF Streaming
  <2>4. MailboxSound'
    BY <1>1, <2>1, <2>2, <2>3, MailboxAppend
  <2> QED BY <1>2, <2>4
<1>4. CASE ~(Len(mailbox) < Capacity)
  BY <1>1, <1>2, <1>4, MailboxKept DEF Notify, Streaming
<1> QED BY <1>3, <1>4

LEMMA UpdateStreams ==
  ASSUME Streaming, NEW i \in Id, NEW unread \in BOOLEAN, UpdateNotification(i, unread)
  PROVE  MailboxSound' /\ ListenerTypes' /\ \A l \in Listener : StreamSound(l)'
<1>1. UNCHANGED <<mailbox, streams, status, inbox, sent, opened>>
  BY DEF UpdateNotification, managerVars, listenerVars
<1>2. DOMAIN events' = DOMAIN events /\ Len(events') = Len(events)
  <2>1. events \in Seq(Row)
    BY DEF Streaming, IInv, Types
  <2> QED BY <2>1 DEF UpdateNotification
<1>3. \A j \in DOMAIN events : events'[j].user = events[j].user
  <2>1. i \in DOMAIN events /\ events \in Seq(Row)
    BY DEF UpdateNotification, Streaming, IInv, Types
  <2> DEFINE row == [events[i] EXCEPT !.unread = unread]
  <2>2. row.user = events[i].user
    <3>1. events[i] \in Row
      BY <2>1
    <3>2. events[i] \in [user : User, unread : BOOLEAN]
      BY <3>1 DEF Row
    <3> QED BY <3>2
  <2>3. events' = [events EXCEPT ![i] = row]
    BY DEF UpdateNotification
  <2> HIDE DEF row
  <2> QED BY <2>1, <2>2, <2>3
<1> QED BY <1>1, <1>2, <1>3, ListenersKept, MailboxKept DEF Streaming

\* What a step of one listener, or about one, leaves of the others.
LEMMA OthersKept ==
  ASSUME Streaming, NEW l \in Listener, NEW h \in Listener \ {l}, events' = events,
         \A k \in Listener \ {h} :
            /\ sent'[k] = sent[k] /\ inbox'[k] = inbox[k]
            /\ status'[k] = status[k] /\ opened'[k] = opened[k],
         \A u \in User : streams'[u] = l => streams[u] = l,
         Owner[l] = Owner[h] /\ status'[h] \in {"new", "registering"}
            => status[h] \in {"new", "registering"},
         \/ streams'[Owner[l]] = streams[Owner[l]]
         \/ Owner[l] = Owner[h] /\ status'[h] \notin {"new", "registering"}
  PROVE  StreamSound(l)'
<1>1. ListenerTypes /\ Ordered(l) /\ Gapless(l) /\ Registered(l) /\ Owner[l] \in User
  BY EventsAssumption DEF Streaming, StreamSound
<1>2. /\ sent'[l] = sent[l] /\ inbox'[l] = inbox[l] /\ status'[l] = status[l]
      /\ opened'[l] = opened[l]
  OBVIOUS
<1>3. streams'[Owner[l]] = l => streams[Owner[l]] = l
  BY <1>1
<1>4. Ordered(l)' /\ Gapless(l)'
  BY <1>1, <1>2, <1>3, LosingPasses
<1>5. Passed(l)' = Passed(l)
  BY <1>2 DEF Passed, Sent, Waiting
<1>6. ASSUME status'[l] = "open",
             \A k \in Listener \ {l} :
                Owner[k] = Owner[l] => status'[k] \in {"new", "registering"}
      PROVE  streams'[Owner[l]] = l
  <2>1. \A k \in Listener \ {l} :
            Owner[k] = Owner[l] => status[k] \in {"new", "registering"}
    BY <1>6
  <2>2. streams[Owner[l]] = l
    BY <1>1, <1>2, <1>6, <2>1 DEF Registered
  <2>3. ~(Owner[l] = Owner[h] /\ status'[h] \notin {"new", "registering"})
    BY <1>6
  <2> QED BY <2>2, <2>3
<1>7. Registered(l)'
  BY <1>1, <1>2, <1>5, <1>6 DEF Registered
<1> QED BY <1>4, <1>7 DEF StreamSound

LEMMA StartStreams ==
  ASSUME Streaming, NEW l \in Listener, Start(l)
  PROVE  MailboxSound' /\ ListenerTypes' /\ \A k \in Listener : StreamSound(k)'
<1>1. /\ status[l] = "new" /\ status' = [status EXCEPT ![l] = "registering"]
      /\ mailbox' = Append(mailbox, [kind |-> "register", listener |-> l])
      /\ UNCHANGED <<events, streams, inbox, sent, opened>>
  BY DEF Start
<1>2. ListenerTypes /\ IInv /\ MailboxSound
  BY DEF Streaming
<1>3. status'[l] = "registering" /\ \A k \in Listener \ {l} : status'[k] = status[k]
  BY <1>1, <1>2 DEF ListenerTypes
<1>4. ListenerTypes'
  BY <1>1, <1>2 DEF ListenerTypes
<1>5. MailboxSound'
  <2> DEFINE m == [kind |-> "register", listener |-> l]
  <2>1. m \in Message /\ m.kind = "register" /\ m.listener = l
    BY DEF Message
  <2>2. mailbox' = Append(mailbox, m)
    BY <1>1
  <2> HIDE DEF m
  <2>3. \A k \in Listener : status'[k] = status[k]
            \/ status[k] \notin {"registering", "gone"}
    BY <1>1, <1>3
  <2> QED BY <1>1, <1>2, <1>3, <2>1, <2>2, <2>3, MailboxAppend
<1>6. StreamSound(l)'
  <2>1. Ordered(l) /\ Gapless(l) /\ Registered(l) /\ Passed(l) = {}
    BY <1>1 DEF Streaming, StreamSound, Registered
  <2>2. sent'[l] = sent[l] /\ inbox'[l] = inbox[l]
    BY <1>1
  <2>3. Ordered(l)' /\ Gapless(l)'
    BY <1>1, <1>2, <2>1, <2>2, LosingPasses
  <2>4. Passed(l)' = {}
    BY <2>1, <2>2 DEF Passed, Sent, Waiting
  <2>5. \A u \in User : streams[u] # l
    BY <1>1, <2>1 DEF Registered
  <2>6. Registered(l)'
    BY <1>1, <1>3, <2>4, <2>5 DEF Registered
  <2> QED BY <2>3, <2>6 DEF StreamSound
<1>7. ASSUME NEW k \in Listener \ {l} PROVE StreamSound(k)'
  BY <1>1, <1>3, <1>7, OthersKept
<1> QED BY <1>4, <1>5, <1>6, <1>7

LEMMA ForwardStreams ==
  ASSUME Streaming, NEW l \in Listener, Forward(l)
  PROVE  MailboxSound' /\ ListenerTypes' /\ \A k \in Listener : StreamSound(k)'
<1>1. /\ status[l] = "open"
      /\ sent' = [sent EXCEPT ![l] = Append(@, Head(inbox[l]))]
      /\ inbox' = [inbox EXCEPT ![l] = Tail(@)]
      /\ UNCHANGED <<events, mailbox, streams, status, opened>>
  BY DEF Forward, managerVars
<1>2. ListenerTypes /\ Ordered(l) /\ Gapless(l) /\ Registered(l)
  BY DEF Streaming, StreamSound
<1>3. ListenerTypes' /\ Passed(l)' = Passed(l) /\ Ordered(l)'
  BY <1>2, ForwardPasses
<1>4. Gapless(l)' /\ Registered(l)'
  BY <1>1, <1>2, <1>3 DEF Gapless, Registered, Ours
<1>5. \A k \in Listener \ {l} : sent'[k] = sent[k] /\ inbox'[k] = inbox[k]
  BY <1>1, <1>2 DEF ListenerTypes
<1>6. ASSUME NEW k \in Listener \ {l} PROVE StreamSound(k)'
  BY <1>1, <1>5, <1>6, OthersKept
<1> QED BY <1>1, <1>3, <1>4, <1>6, MailboxKept DEF Streaming, StreamSound

LEMMA StopStreams ==
  ASSUME Streaming, NEW l \in Listener, Stop(l)
  PROVE  MailboxSound' /\ ListenerTypes' /\ \A k \in Listener : StreamSound(k)'
<1>1. /\ status[l] = "open" /\ status' = [status EXCEPT ![l] = "gone"]
      /\ inbox' = [inbox EXCEPT ![l] = <<>>]
      /\ mailbox' = Append(mailbox, [kind |-> "unregister", listener |-> l])
      /\ UNCHANGED <<events, streams, sent, opened>>
  BY DEF Stop
<1>2. ListenerTypes /\ IInv /\ MailboxSound
  BY DEF Streaming
<1>3. /\ status'[l] = "gone" /\ inbox'[l] = <<>>
      /\ \A k \in Listener \ {l} : status'[k] = status[k] /\ inbox'[k] = inbox[k]
  BY <1>1, <1>2 DEF ListenerTypes
<1>4. ListenerTypes'
  <2>1. <<>> \in Seq(Nat)
    OBVIOUS
  <2>2. inbox' \in [Listener -> Seq(Nat)]
    BY <1>1, <1>2, <2>1 DEF ListenerTypes
  <2> QED BY <1>1, <1>2, <2>2 DEF ListenerTypes
<1>5. MailboxSound'
  <2> DEFINE m == [kind |-> "unregister", listener |-> l]
  <2>1. m \in Message /\ m.kind = "unregister" /\ m.listener = l
    BY DEF Message
  <2>2. mailbox' = Append(mailbox, m)
    BY <1>1
  <2> HIDE DEF m
  <2>3. \A k \in Listener : status'[k] = status[k]
            \/ status[k] \notin {"registering", "gone"}
    BY <1>1, <1>3
  <2> QED BY <1>1, <1>2, <1>3, <2>1, <2>2, <2>3, MailboxAppend
<1>6. StreamSound(l)'
  <2>1. Ordered(l) /\ Gapless(l) /\ Registered(l)
    BY DEF Streaming, StreamSound
  <2>2. sent'[l] = sent[l]
    BY <1>1
  <2>3. Ordered(l)' /\ Gapless(l)'
    BY <1>1, <1>2, <1>3, <2>1, <2>2, LosingPasses
  <2>4. Registered(l)'
    BY <1>1, <1>3, <2>1 DEF Registered
  <2> QED BY <2>3, <2>4 DEF StreamSound
<1>7. ASSUME NEW k \in Listener \ {l} PROVE StreamSound(k)'
  BY <1>1, <1>3, <1>7, OthersKept
<1> QED BY <1>4, <1>5, <1>6, <1>7

LEMMA RegisterStreams ==
  ASSUME Streaming, Register
  PROVE  MailboxSound' /\ ListenerTypes' /\ \A k \in Listener : StreamSound(k)'
<1>1. ListenerTypes /\ IInv /\ MailboxSound
  BY DEF Streaming
<1>2. /\ Head(mailbox) = mailbox[1] /\ 1 \in DOMAIN mailbox
      /\ mailbox[1].kind = "register" /\ mailbox[1].listener \in Listener
  BY <1>1, MessageTypes DEF Register, Handling
<1>3. PICK h \in Listener : h = mailbox[1].listener
  BY <1>2
<1>4. /\ mailbox # <<>> /\ mailbox' = Tail(mailbox)
      /\ streams' = [streams EXCEPT ![Owner[h]] = h]
      /\ status' = [status EXCEPT ![h] = "open"]
      /\ opened' = [opened EXCEPT ![h] = Len(events)]
      /\ UNCHANGED <<events, inbox, sent>>
  BY <1>2, <1>3 DEF Register, Handling
<1>5. status[h] = "registering"
  BY <1>1, <1>2, <1>3 DEF MailboxSound
<1>6. /\ status'[h] = "open" /\ streams'[Owner[h]] = h /\ Owner[h] \in User
      /\ \A k \in Listener \ {h} : status'[k] = status[k] /\ opened'[k] = opened[k]
      /\ \A u \in User \ {Owner[h]} : streams'[u] = streams[u]
      /\ opened'[h] = Len(events)
  BY <1>4, <1>1, <1>3, EventsAssumption DEF ListenerTypes
<1>7. ListenerTypes'
  <2>1. Len(events) \in 0..Len(events)
    BY <1>1 DEF IInv, Types
  <2> QED BY <1>4, <1>1, <1>3, <2>1 DEF ListenerTypes
<1>8. MailboxSound'
  <2>1. ASSUME NEW k \in DOMAIN mailbox, k # 1,
               mailbox[k].kind \in {"register", "unregister"}
        PROVE  status'[mailbox[k].listener] = status[mailbox[k].listener]
    <3>1. mailbox[k].listener \in Listener
      BY <1>1, <2>1, MessageTypes
    <3>2. mailbox[k].listener # h
      BY <1>1, <1>2, <1>3, <1>5, <2>1 DEF MailboxSound
    <3> QED BY <1>6, <3>1, <3>2
  <2> QED BY <1>4, <1>1, <2>1, MailboxTail
<1>9. StreamSound(h)'
  <2>1. Ordered(h) /\ Gapless(h) /\ Registered(h)
    BY <1>3 DEF Streaming, StreamSound
  <2>2. Passed(h) = {}
    BY <1>5, <2>1 DEF Registered
  <2>3. sent'[h] = sent[h] /\ inbox'[h] = inbox[h]
    BY <1>4
  <2>4. Ordered(h)' /\ Gapless(h)'
    <3>1. Sent(h)' = Sent(h) /\ Waiting(h)' = Waiting(h) /\ Passed(h)' = {}
      BY <2>2, <2>3 DEF Sent, Waiting, Passed
    <3>2. Ordered(h)'
      BY <2>1, <2>3, <3>1 DEF Ordered
    <3>3. \A i \in Ours(h)' : ~(opened'[h] < i)
      BY <1>1, <1>4, <1>6 DEF Ours, IInv, Types
    <3> QED BY <3>1, <3>2, <3>3 DEF Gapless
  <2>5. \A u \in User : streams[u] # h
    BY <1>5, <2>1 DEF Registered
  <2>6. \A u \in User : streams'[u] = h => u = Owner[h]
    BY <1>6, <2>5
  <2>7. Registered(h)'
    BY <1>6, <2>6 DEF Registered
  <2> QED BY <2>4, <2>7 DEF StreamSound
<1>10. ASSUME NEW k \in Listener \ {h} PROVE StreamSound(k)'
  <2>1. \A u \in User : streams'[u] = k => streams[u] = k
    BY <1>6, <1>10
  <2>2. \/ streams'[Owner[k]] = streams[Owner[k]]
        \/ Owner[k] = Owner[h] /\ status'[h] \notin {"new", "registering"}
    BY <1>6, EventsAssumption
  <2>3. ~(status'[h] \in {"new", "registering"})
    BY <1>6
  <2>4. k \in Listener /\ h \in Listener \ {k}
    BY <1>3, <1>10
  <2> QED BY <1>4, <1>6, <2>1, <2>2, <2>3, <2>4, OthersKept
<1> QED BY <1>7, <1>8, <1>9, <1>10

LEMMA UnregisterStreams ==
  ASSUME Streaming, Unregister
  PROVE  MailboxSound' /\ ListenerTypes' /\ \A k \in Listener : StreamSound(k)'
<1>1. ListenerTypes /\ IInv /\ MailboxSound
  BY DEF Streaming
<1>2. /\ Head(mailbox) = mailbox[1] /\ 1 \in DOMAIN mailbox
      /\ mailbox[1].kind = "unregister" /\ mailbox[1].listener \in Listener
  BY <1>1, MessageTypes DEF Unregister, Handling
<1>3. PICK h \in Listener : h = mailbox[1].listener
  BY <1>2
<1>4. /\ mailbox # <<>> /\ mailbox' = Tail(mailbox)
      /\ streams' = [streams EXCEPT ![Owner[h]] = Null]
      /\ UNCHANGED <<events, status, inbox, sent, opened>>
  BY <1>2, <1>3 DEF Unregister, Handling, listenerVars
<1>5. status[h] = "gone"
  BY <1>1, <1>2, <1>3 DEF MailboxSound
<1>6. /\ streams'[Owner[h]] = Null
      /\ \A u \in User \ {Owner[h]} : streams'[u] = streams[u]
  BY <1>1, <1>4, EventsAssumption DEF ListenerTypes
<1>7. ListenerTypes'
  BY <1>1, <1>4 DEF ListenerTypes
<1>8. MailboxSound'
  BY <1>1, <1>4, MailboxTail
<1>9. ASSUME NEW k \in Listener PROVE StreamSound(k)'
  <2>1. Ordered(k) /\ Gapless(k) /\ Registered(k)
    BY DEF Streaming, StreamSound
  <2>2. \A u \in User : streams'[u] = k => streams[u] = k
    BY <1>6, EventsAssumption
  <2>3. sent'[k] = sent[k] /\ inbox'[k] = inbox[k] /\ status'[k] = status[k]
        /\ events' = events /\ opened'[k] = opened[k]
    BY <1>4
  <2>4. Ordered(k)' /\ Gapless(k)'
    BY <1>1, <2>1, <2>2, <2>3, EventsAssumption, LosingPasses
  <2>5. Passed(k)' = Passed(k)
    BY <2>3 DEF Passed, Sent, Waiting
  <2>6. ASSUME status[k] = "open",
               \A j \in Listener \ {k} :
                  Owner[j] = Owner[k] => status[j] \in {"new", "registering"}
        PROVE  streams'[Owner[k]] = k
    <3>1. Owner[k] # Owner[h]
      BY <1>5, <2>6
    <3>2. streams[Owner[k]] = k
      BY <2>1, <2>6 DEF Registered
    <3> QED BY <1>6, <3>1, <3>2, EventsAssumption
  <2>7. Registered(k)'
    BY <1>4, <2>1, <2>2, <2>5, <2>6 DEF Registered
  <2> QED BY <2>4, <2>7 DEF StreamSound
<1> QED BY <1>7, <1>8, <1>9

LEMMA RestartStreams ==
  ASSUME Streaming, Restart
  PROVE  MailboxSound' /\ ListenerTypes' /\ \A k \in Listener : StreamSound(k)'
<1>1. /\ mailbox' = <<>>
      /\ streams' = [u \in User |-> Null]
      /\ status' = [l \in Listener |-> IF status[l] = "new" THEN "new" ELSE "gone"]
      /\ inbox' = [l \in Listener |-> <<>>]
      /\ UNCHANGED <<events, sent, opened>>
  BY DEF Restart
<1>2. ListenerTypes
  BY DEF Streaming
<1>3. MailboxSound'
  BY <1>1 DEF MailboxSound
<1>4. ListenerTypes'
  <2>1. <<>> \in Seq(Nat)
    OBVIOUS
  <2> QED BY <1>1, <1>2, <2>1 DEF ListenerTypes
<1>5. ASSUME NEW k \in Listener PROVE StreamSound(k)'
  <2>1. Ordered(k) /\ Gapless(k) /\ Registered(k)
    BY DEF Streaming, StreamSound
  <2>2. \A u \in User : streams'[u] # k
    BY <1>1, EventsAssumption
  <2>3. /\ sent'[k] = sent[k] /\ inbox'[k] = <<>> /\ events' = events
        /\ opened'[k] = opened[k]
        /\ status'[k] = IF status[k] = "new" THEN "new" ELSE "gone"
    BY <1>1
  <2>4. CASE status[k] = "new"
    <3>1. Passed(k) = {} /\ Sent(k) = {} /\ Waiting(k) = {}
      BY <2>1, <2>4 DEF Registered, Passed
    <3>2. inbox[k] = <<>>
      <4>1. inbox[k] \in Seq(Nat)
        BY <1>2, ListTypes
      <4>2. 1 \notin DOMAIN inbox[k]
        BY <3>1 DEF Waiting
      <4> QED BY <4>1, <4>2
    <3>3. status'[k] = "new" /\ inbox'[k] = inbox[k]
      BY <2>3, <2>4, <3>2
    <3>4. streams'[Owner[k]] # k
      BY <2>2, EventsAssumption
    <3>5. Ordered(k)' /\ Gapless(k)'
      BY <1>2, <2>1, <2>3, <2>4, <3>3, <3>4, LosingPasses
    <3>6. Passed(k)' = {}
      BY <2>3, <3>1, <3>3 DEF Passed, Sent, Waiting
    <3>7. Registered(k)'
      BY <2>2, <3>3, <3>6 DEF Registered
    <3> QED BY <3>5, <3>7 DEF StreamSound
  <2>5. CASE status[k] # "new"
    <3>1. status'[k] = "gone"
      BY <2>3, <2>5
    <3>2. Ordered(k)' /\ Gapless(k)'
      BY <1>2, <2>1, <2>3, <3>1, LosingPasses
    <3>3. Registered(k)'
      BY <2>2, <3>1 DEF Registered
    <3> QED BY <3>2, <3>3 DEF StreamSound
  <2> QED BY <2>4, <2>5
<1> QED BY <1>3, <1>4, <1>5

LEMMA RecordStreams ==
  ASSUME Streaming, Record
  PROVE  MailboxSound' /\ ListenerTypes' /\ \A k \in Listener : StreamSound(k)'
<1>1. ListenerTypes /\ IInv /\ MailboxSound /\ \A k \in Listener : StreamSound(k)
  BY DEF Streaming
<1>2. UNCHANGED <<mailbox, streams, status, sent, opened>>
  BY DEF Record
<1>3. \A k \in Listener : StreamSound(k)' /\ inbox'[k] \in Seq(Nat)
  BY <1>1, RecordPasses
<1>4. inbox' \in [Listener -> Seq(Nat)]
  <2>1. inbox' = [k \in Listener |-> inbox'[k]]
    BY DEF Record
  <2> QED BY <1>3, <2>1
<1>5. \A i \in 0..Len(events) : i \in 0..Len(events')
  <2>1. Len(events') = Len(events) + 1 /\ Len(events) \in Nat
    BY <1>1 DEF Record, IInv, Types
  <2> QED BY <2>1
<1>6. ListenerTypes'
  BY <1>1, <1>2, <1>4, <1>5 DEF ListenerTypes
<1> QED BY <1>1, <1>2, <1>3, <1>6, MailboxKept

LEMMA BeginNotifyStreams ==
  ASSUME Streaming, BeginNotify
  PROVE  MailboxSound' /\ ListenerTypes' /\ \A k \in Listener : StreamSound(k)'
<1>1. /\ UNCHANGED <<events, streams, status, inbox, sent, opened>>
      /\ mailbox # <<>> /\ mailbox' = Tail(mailbox)
  BY DEF BeginNotify, Handling, listenerVars
<1>2. MailboxSound'
  BY <1>1, MailboxTail DEF Streaming
<1> QED BY <1>1, <1>2, ListenersKept

LEMMA NextStreams == Streaming /\ [Next]_vars => Streaming'
<1>1. SUFFICES ASSUME Streaming, [Next]_vars
               PROVE  MailboxSound' /\ ListenerTypes' /\ \A k \in Listener : StreamSound(k)'
  BY NextInvariant DEF Streaming
<1>2. CASE Receive
  BY <1>1, <1>2, RegisterStreams, UnregisterStreams, BeginNotifyStreams DEF Receive
<1>3. CASE FailNotify \/ Mail \/ EndRound \/ FailRound \/ BeginRound \/ UNCHANGED vars
  <2>1. UNCHANGED <<events, mailbox, streams, status, inbox, sent, opened>>
    BY <1>3 DEF FailNotify, Mail, EndRound, FailRound, BeginRound, vars, listenerVars
  <2> QED BY <1>1, <2>1, ListenersKept, MailboxKept DEF Streaming
<1>4. CASE Record
  BY <1>1, <1>4, RecordStreams
<1>5. CASE Restart
  BY <1>1, <1>5, RestartStreams
<1>6. CASE \E targets \in Targets : Notify(targets)
  BY <1>1, <1>6, NotifyStreams
<1>7. CASE \E i \in Id, unread \in BOOLEAN : UpdateNotification(i, unread)
  BY <1>1, <1>7, UpdateStreams
<1>8. CASE \E l \in Listener : Start(l) \/ Forward(l) \/ Stop(l)
  BY <1>1, <1>8, StartStreams, ForwardStreams, StopStreams
<1> QED BY <1>1, <1>2, <1>3, <1>4, <1>5, <1>6, <1>7, <1>8 DEF Next, Work

\* What a listener was passed, as one list.
LEMMA ReceivedOrdered ==
  ASSUME ListenerTypes, NEW l \in Listener, Ordered(l), NEW u, u = Received(l)
  PROVE  /\ \A j, k \in DOMAIN u : j < k => u[j] < u[k]
         /\ {u[k] : k \in DOMAIN u} = Passed(l)
<1> DEFINE s == sent[l]  t == inbox[l]
<1>1. s \in Seq(Nat) /\ t \in Seq(Nat) /\ u = s \o t
  BY ListTypes DEF Received
<1>2. \A j, k \in DOMAIN s : j < k => s[j] < s[k]
  BY DEF Ordered
<1>3. \A j, k \in DOMAIN t : j < k => t[j] < t[k]
  BY DEF Ordered
<1>4. Sent(l) = {s[k] : k \in DOMAIN s} /\ Waiting(l) = {t[k] : k \in DOMAIN t}
  BY DEF Sent, Waiting
<1>5. \A j \in DOMAIN s : \A k \in DOMAIN t : s[j] < t[k]
  <2>1. \A j \in DOMAIN s : s[j] \in Sent(l)
    BY DEF Sent
  <2>2. \A k \in DOMAIN t : t[k] \in Waiting(l)
    BY DEF Waiting
  <2> QED BY <2>1, <2>2 DEF Ordered
<1> HIDE DEF s, t
<1> DEFINE a == Len(s)  b == Len(t)
<1>6. a \in Nat /\ b \in Nat /\ DOMAIN s = 1..a /\ DOMAIN t = 1..b
      /\ u \in Seq(Nat) /\ Len(u) = a + b
  BY <1>1
<1>7. DOMAIN u = 1..(a + b)
  BY <1>6
<1>8. \A k \in 1..a : u[k] = s[k]
  BY <1>6, <1>1
<1>9. ASSUME NEW k \in 1..b PROVE u[a + k] = t[k]
  <2>1. a + k \in 1..(a + b) /\ ~(a + k <= a) /\ (a + k) - a = k
    BY <1>6
  <2> QED BY <1>6, <1>1, <2>1
<1> HIDE DEF a, b
<1>10. /\ \A k \in DOMAIN u : /\ k \in Int
                               /\ \/ k \in 1..a
                                  \/ k - a \in 1..b /\ k = a + (k - a) /\ k > a
       /\ \A k \in 1..a : k \in DOMAIN u /\ k <= a
       /\ \A k \in 1..b : a + k \in DOMAIN u
  BY <1>6, <1>7, SMTT(30)
<1>11. \A k \in DOMAIN u : k \in 1..a \/ u[k] = t[k - a]
  BY <1>9, <1>10
<1>12. ASSUME NEW j \in DOMAIN u, NEW k \in DOMAIN u, j < k
      PROVE  u[j] < u[k]
  <2>1. CASE j \in 1..a /\ k \in 1..a
    BY <1>6, <1>8, <1>12, <1>2, <2>1
  <2>2. CASE j \in 1..a /\ k \notin 1..a
    BY <1>6, <1>8, <1>10, <1>11, <1>5, <2>2
  <2>3. CASE j \notin 1..a
    <3>1. k \notin 1..a
      BY <1>10, <1>12, <1>6, <2>3
    <3>2. j - a \in 1..b /\ k - a \in 1..b /\ j - a < k - a
      BY <1>6, <1>10, <1>12, <2>3, <3>1
    <3>3. t[j - a] < t[k - a]
      BY <1>6, <1>3, <3>2
    <3> QED BY <1>11, <2>3, <3>1, <3>3
  <2> QED BY <2>1, <2>2, <2>3
<1>13. {u[k] : k \in DOMAIN u} = {s[k] : k \in DOMAIN s} \cup {t[k] : k \in DOMAIN t}
  <2>1. ASSUME NEW k \in DOMAIN u
        PROVE  u[k] \in {s[i] : i \in DOMAIN s} \cup {t[i] : i \in DOMAIN t}
    BY <1>6, <1>8, <1>10, <1>11
  <2>2. ASSUME NEW k \in DOMAIN s PROVE s[k] \in {u[i] : i \in DOMAIN u}
    BY <1>6, <1>8, <1>10
  <2>3. ASSUME NEW k \in DOMAIN t PROVE t[k] \in {u[i] : i \in DOMAIN u}
    <3>1. k \in 1..b
      BY <1>6
    <3>2. u[a + k] = t[k]
      BY <1>9, <3>1
    <3>3. a + k \in DOMAIN u
      BY <1>6, <1>7, <3>1
    <3> QED BY <3>2, <3>3
  <2> QED BY <2>1, <2>2, <2>3
<1> QED BY <1>12, <1>13, <1>4 DEF Passed

\* Whatever the order of registrations, notifications and ends of connections,
\* and over restarts, what a listener is passed are its user's events since it
\* was registered, in their order with none left out, and all of them while it
\* is the one registered or the only one its user opened
\* (Handler<RegisterListener>, do_notify and Listener of
\* rest-api/src/events.rs).
THEOREM StreamsHaveNoGaps == Spec => []StreamHasNoGaps
<1>1. Streaming => StreamHasNoGaps
  <2> SUFFICES ASSUME Streaming, NEW l \in Listener
               PROVE  LET got == Received(l)
                          passed == {got[k] : k \in DOMAIN got}
                          due == {i \in Ours(l) : opened[l] < i}
                      IN  /\ \A j, k \in DOMAIN got : j < k => got[j] < got[k]
                          /\ passed \subseteq due
                          /\ \A y \in passed, i \in due : i < y => i \in passed
                          /\ Entitled(l) => due \subseteq passed
    BY DEF StreamHasNoGaps
  <2> DEFINE got == Received(l)  passed == {got[k] : k \in DOMAIN got}
  <2>1. ListenerTypes /\ Ordered(l) /\ Gapless(l) /\ Registered(l)
    BY DEF Streaming, StreamSound
  <2>2. /\ \A j, k \in DOMAIN got : j < k => got[j] < got[k]
        /\ {got[k] : k \in DOMAIN got} = Sent(l) \cup Waiting(l)
    BY <2>1, ReceivedOrdered DEF Passed
  <2>3. passed = Passed(l)
    BY <2>2 DEF Passed
  <2>4. Entitled(l) => status[l] # "gone" /\ streams[Owner[l]] = l
    BY <2>1 DEF Entitled, Registered
  <2> QED BY <2>1, <2>2, <2>3, <2>4 DEF Gapless
<1> QED BY <1>1, InitStreaming, NextStreams, PTL DEF Spec
=============================================================================
