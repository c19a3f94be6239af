----------------------------- MODULE ChatSession -----------------------------
(***************************************************************************)
(* One conversation of the web workspace with the assistant's server: the  *)
(* browser's messages, its stored copy, the streams that answer them, the  *)
(* durable turns, the server's bounded memory of them, and the votes.      *)
(*                                                                         *)
(* The browser (workspace.jsx) has at most one stream open and retries the *)
(* last message with the payload it stored.  The server (routes.py) works  *)
(* on a stream whether or not somebody listens, appends the exchange to    *)
(* the store and to the memory under one lock, and sends the final event   *)
(* afterwards.  Either side may stop at any point.                         *)
(***************************************************************************)
EXTENDS Naturals, Sequences, FiniteSets

CONSTANTS
  Opinions,       \* what a vote can say (helpful, unhelpful)
  Window,         \* exchanges the memory keeps of a conversation (max_turns)
  MaxQuestions,   \* bound: questions the user asks
  MaxAttempts,    \* bound: requests for an answer, retries included
  MaxIncidents    \* bound: votes, restarts of the server and reloads of the page

ASSUME WindowAssumption == Window \in Nat \ {0}

ASSUME OpinionsAssumption == "none" \notin Opinions /\ "pending" \notin Opinions

ASSUME BoundsAssumption ==
  /\ MaxQuestions \in Nat
  /\ MaxAttempts \in Nat
  /\ MaxIncidents \in Nat

VARIABLES
  messages,   \* the assistant's messages of the conversation, one per question
  backendId,  \* the server's name of the conversation, as the browser knows it
  busy,       \* the attempt whose stream is open, None if there is none
  saved,      \* the copy of messages and backendId that IndexedDB holds
  attempts,   \* the requests for an answer, in the order they were sent
  store,      \* durable exchanges of each conversation, oldest first
  loaded,     \* conversations the memory has loaded (_loaded)
  turns,      \* the memory's exchanges of each conversation (_turns)
  votes,      \* the votes sent, in order
  faults      \* restarts and reloads so far

browser == <<messages, backendId, busy, saved>>
memory == <<loaded, turns>>
vars == <<messages, backendId, busy, saved, attempts, store, loaded, turns, votes, faults>>

-----------------------------------------------------------------------------

None == 0

\* An attempt without a conversation opens a new one, named after itself.
Conversations == 1..MaxAttempts

\* A cancelled message is a failed one: both can be retried, and nothing else
\* is done with either.
Message == [status : {"streaming", "done", "failed"},
            payload : Conversations \cup {None},  \* conversation_id of requestPayload
            answer : 0..MaxAttempts,              \* the attempt that answered, or None
            feedback : Opinions \cup {"none", "pending"}]

Attempt == [message : 1..MaxQuestions,
            payload : Conversations \cup {None},
            conversation : Conversations \cup {None},
            history : Seq(1..MaxAttempts),        \* answers the run works with
            pc : {"sent", "running", "stored", "ended"},
            events : Seq({"run_started", "run_completed", "run_failed"})]

Exchange == [answer : 1..MaxAttempts, opinion : Opinions \cup {"none"}]

Vote == [message : 1..MaxQuestions, answer : 1..MaxAttempts, opinion : Opinions,
         before : Opinions \cup {"none"},
         pc : {"sent", "recorded", "accepted", "ended"},
         heard : {"waiting", "yes", "no"}]

TypeOK ==
  /\ messages \in Seq(Message) /\ Len(messages) <= MaxQuestions
  /\ backendId \in Conversations \cup {None}
  /\ busy \in 0..Len(attempts)
  /\ saved \in [messages : Seq(Message), backendId : Conversations \cup {None}]
  /\ Len(saved.messages) <= MaxQuestions
  /\ attempts \in Seq(Attempt) /\ Len(attempts) <= MaxAttempts
  /\ store \in [Conversations -> Seq(Exchange)]
  /\ loaded \subseteq Conversations
  /\ turns \in [Conversations -> Seq(Exchange)]
  /\ votes \in Seq(Vote) /\ Len(votes) + faults <= MaxIncidents
  /\ faults \in 0..MaxIncidents

\* Bound: a vote, a restart or a reload may still happen.
IncidentLeft == Len(votes) + faults < MaxIncidents

\* The conversation an answered message was answered in.
ConversationOf(message) == attempts[message.answer].conversation

-----------------------------------------------------------------------------
(* The server's memory *)

\* A fault: a load that reads the store from its beginning.
RecentOldest(exchanges) ==
  IF Len(exchanges) <= Window THEN exchanges ELSE SubSeq(exchanges, 1, Window)

\* The newest exchanges, as many as the memory keeps.
Recent(exchanges) ==
  IF Len(exchanges) <= Window
    THEN exchanges
    ELSE SubSeq(exchanges, Len(exchanges) - Window + 1, Len(exchanges))

\* A fault: what happens to be in the memory, without loading it.
RememberedLoaded(c) == turns[c]

\* What the memory holds of a conversation once it is loaded.
Remembered(c) == IF c \in loaded THEN turns[c] ELSE Recent(store[c])

\* The memory after c was loaded and holds these exchanges.
Remember(c, exchanges) ==
  /\ loaded' = loaded \cup {c}
  /\ turns' = [turns EXCEPT ![c] = exchanges]

\* A fault: a vote is recorded and the memory left as it was.
RereadNothing(c) == UNCHANGED memory

\* The memory after the turns of c were dropped and read again, or the
\* reading failed.
Reread(c) == Remember(c, Recent(store[c]))

Forget(c) ==
  /\ loaded' = loaded \ {c}
  /\ turns' = [turns EXCEPT ![c] = <<>>]

-----------------------------------------------------------------------------

Init ==
  /\ messages = <<>>
  /\ backendId = None
  /\ busy = None
  /\ saved = [messages |-> <<>>, backendId |-> None]
  /\ attempts = <<>>
  /\ store = [c \in Conversations |-> <<>>]
  /\ loaded = {}
  /\ turns = [c \in Conversations |-> <<>>]
  /\ votes = <<>>
  /\ faults = 0

-----------------------------------------------------------------------------
(* The browser *)

\* Open a stream for message k with the conversation of the payload.
Open(k, conversation) ==
  /\ Len(attempts) < MaxAttempts
  /\ attempts' = Append(attempts,
       [message |-> k, payload |-> conversation, conversation |-> None,
        history |-> <<>>, pc |-> "sent", events |-> <<>>])
  /\ busy' = Len(attempts) + 1
  /\ UNCHANGED <<backendId, saved, store, memory, votes, faults>>

\* The user asks a new question.
Ask ==
  /\ busy = None
  /\ Len(messages) < MaxQuestions
  /\ messages' = Append(messages,
       [status |-> "streaming", payload |-> backendId, answer |-> None,
        feedback |-> "none"])
  /\ Open(Len(messages) + 1, backendId)

\* A fault: any failed message can be retried.
CanRetryAny(k) == messages[k].status = "failed"

\* Only the last message can be retried, once it failed or was cancelled.
CanRetry(k) == k = Len(messages) /\ messages[k].status = "failed"

\* A retry sends the payload the message was first sent with.
Retry(k) ==
  /\ busy = None
  /\ CanRetry(k)
  /\ messages' = [messages EXCEPT ![k].status = "streaming", ![k].answer = None]
  /\ Open(k, messages[k].payload)

\* The next event of the open stream.
Arrives(event) ==
  /\ busy # None
  /\ attempts[busy].events # <<>>
  /\ Head(attempts[busy].events) = event
  /\ attempts' = [attempts EXCEPT ![busy].events = Tail(@)]

ReceiveStarted ==
  /\ Arrives("run_started")
  /\ backendId' = attempts[busy].conversation
  /\ UNCHANGED <<messages, busy, saved, store, memory, votes, faults>>

ReceiveCompleted ==
  /\ Arrives("run_completed")
  /\ backendId' = attempts[busy].conversation
  /\ messages' = [messages EXCEPT ![attempts[busy].message] =
                    [@ EXCEPT !.status = "done", !.answer = busy]]
  /\ busy' = None
  /\ UNCHANGED <<saved, store, memory, votes, faults>>

ReceiveFailed ==
  /\ Arrives("run_failed")
  /\ messages' = [messages EXCEPT ![attempts[busy].message].status = "failed"]
  /\ busy' = None
  /\ UNCHANGED <<backendId, saved, store, memory, votes, faults>>

\* The user stops the answer, or the stream breaks, ends early, or is given up
\* after three minutes; what is still on its way is not read any more.
StopReading ==
  /\ busy # None
  /\ messages' = [messages EXCEPT ![attempts[busy].message].status = "failed"]
  /\ attempts' = [attempts EXCEPT ![busy].events = <<>>]
  /\ busy' = None
  /\ UNCHANGED <<backendId, saved, store, memory, votes, faults>>

\* A save of the conversation commits.  Every change starts one; how late it
\* commits matters to a later reload only.
Save ==
  /\ IncidentLeft
  /\ saved' = [messages |-> messages, backendId |-> backendId]
  /\ UNCHANGED <<messages, backendId, busy, attempts, store, memory, votes, faults>>

\* The message as the page shows it after a reload.
Restored(message) ==
  [message EXCEPT
     !.status = IF @ = "streaming" THEN "failed" ELSE @,
     !.feedback = IF @ = "pending" THEN "none" ELSE @]

\* A reload closes the stream and the pending votes and shows the saved copy.
Reload ==
  /\ IncidentLeft
  /\ faults' = faults + 1
  /\ messages' = [k \in DOMAIN saved.messages |-> Restored(saved.messages[k])]
  /\ backendId' = saved.backendId
  /\ busy' = None
  /\ attempts' = [i \in DOMAIN attempts |-> [attempts[i] EXCEPT !.events = <<>>]]
  /\ votes' = [v \in DOMAIN votes |->
       [votes[v] EXCEPT !.heard = IF @ = "waiting" THEN "no" ELSE @]]
  /\ UNCHANGED <<saved, store, memory>>

-----------------------------------------------------------------------------
(* The stream of attempt i on the server *)

\* The events of attempt i with one more, if the browser still reads them.
Sent(i, event) ==
  IF busy = i THEN Append(attempts[i].events, event) ELSE <<>>

\* prepare_request names the conversation and reads its history; the first
\* event of the stream names it too.
Begin(i) ==
  /\ attempts[i].pc = "sent"
  /\ LET conversation == IF attempts[i].payload # None THEN attempts[i].payload ELSE i
         exchanges == Remembered(conversation)
     IN /\ attempts' = [attempts EXCEPT ![i] =
             [@ EXCEPT !.pc = "running",
                       !.conversation = conversation,
                       !.history = [n \in DOMAIN exchanges |-> exchanges[n].answer],
                       !.events = Sent(i, "run_started")]]
        /\ Remember(conversation, exchanges)
  /\ UNCHANGED <<browser, store, votes, faults>>

\* The stream ends without an answer: an exception the stream reports, one it
\* does not (also before the first event), or a disconnect that is noticed.
Stopped(i, events) ==
  /\ attempts' = [attempts EXCEPT ![i] =
       [@ EXCEPT !.pc = "ended", !.history = <<>>, !.events = events]]
  /\ UNCHANGED <<browser, store, memory, votes, faults>>

Fail(i) ==
  /\ attempts[i].pc = "running"
  /\ Stopped(i, Sent(i, "run_failed"))

BreakOff(i) ==
  /\ attempts[i].pc \in {"sent", "running"}
  /\ Stopped(i, attempts[i].events)

NoticeDisconnect(i) ==
  /\ attempts[i].pc = "running"
  /\ busy # i
  /\ Stopped(i, attempts[i].events)

\* append_exchange: the exchange is stored and remembered under one lock,
\* whether or not the browser still listens.
Finish(i) ==
  /\ attempts[i].pc = "running"
  /\ LET c == attempts[i].conversation
         exchange == [answer |-> i, opinion |-> "none"]
     IN /\ store' = [store EXCEPT ![c] = Append(@, exchange)]
        /\ Remember(c, Recent(Append(Remembered(c), exchange)))
  /\ attempts' = [attempts EXCEPT ![i] = [@ EXCEPT !.pc = "stored", !.history = <<>>]]
  /\ UNCHANGED <<browser, votes, faults>>

\* A fault: the final event is sent before the exchange was stored.
DeliverEarly(i) ==
  /\ attempts[i].pc = "running"
  /\ attempts' = [attempts EXCEPT ![i] =
       [@ EXCEPT !.pc = "ended", !.events = Sent(i, "run_completed")]]
  /\ UNCHANGED <<browser, store, memory, votes, faults>>

\* The final event is sent after the exchange was stored.
Deliver(i) ==
  /\ attempts[i].pc = "stored"
  /\ attempts' = [attempts EXCEPT ![i] =
       [@ EXCEPT !.pc = "ended", !.events = Sent(i, "run_completed")]]
  /\ UNCHANGED <<browser, store, memory, votes, faults>>

\* The server restarts: streams and votes under way end, the memory is empty.
Crash ==
  /\ IncidentLeft
  /\ faults' = faults + 1
  /\ attempts' = [i \in DOMAIN attempts |->
       [attempts[i] EXCEPT !.pc = IF @ = "sent" THEN @ ELSE "ended", !.history = <<>>]]
  /\ votes' = [v \in DOMAIN votes |->
       [votes[v] EXCEPT !.pc = IF @ = "recorded" THEN "ended" ELSE @]]
  /\ loaded' = {}
  /\ turns' = [c \in Conversations |-> <<>>]
  /\ UNCHANGED <<browser, store>>

-----------------------------------------------------------------------------
(* Votes *)

\* A fault: a vote is sent while another one is pending.
CanVoteAgain(k) == messages[k].status = "done"

\* No vote is sent while another one of the message is pending.
CanVote(k) ==
  /\ messages[k].status = "done"
  /\ messages[k].feedback # "pending"

\* The user votes on an answered message, or sends the vote again with a comment.
SendVote(k) ==
  /\ IncidentLeft
  /\ CanVote(k)
  /\ \E opinion \in Opinions :
       votes' = Append(votes,
         [message |-> k, answer |-> messages[k].answer, opinion |-> opinion,
          before |-> messages[k].feedback, pc |-> "sent", heard |-> "waiting"])
  /\ messages' = [messages EXCEPT ![k].feedback = "pending"]
  /\ UNCHANGED <<backendId, busy, saved, attempts, store, memory, faults>>

\* record_answer_feedback writes the vote to the stored answer.
RecordVote(v) ==
  /\ votes[v].pc = "sent"
  /\ LET c == attempts[votes[v].answer].conversation
     IN store' = [store EXCEPT ![c] = [n \in DOMAIN @ |->
          IF @[n].answer = votes[v].answer
            THEN [@[n] EXCEPT !.opinion = votes[v].opinion] ELSE @[n]]]
  /\ votes' = [votes EXCEPT ![v].pc = "recorded"]
  /\ UNCHANGED <<browser, attempts, memory, faults>>

\* The memory of the conversation is read again and the vote accepted, or the
\* reading fails and the request with it.
RefreshAndAccept(v) ==
  /\ votes[v].pc = "recorded"
  /\ LET c == attempts[votes[v].answer].conversation
     IN \/ Reread(c) /\ votes' = [votes EXCEPT ![v].pc = "accepted"]
        \/ Forget(c) /\ votes' = [votes EXCEPT ![v].pc = "ended"]
  /\ UNCHANGED <<browser, attempts, store, faults>>

\* The page shows the vote as saved.
ReceiveVote(v) ==
  /\ votes[v].pc = "accepted"
  /\ votes[v].heard = "waiting"
  /\ messages' = [messages EXCEPT ![votes[v].message].feedback = votes[v].opinion]
  /\ votes' = [votes EXCEPT ![v].heard = "yes"]
  /\ UNCHANGED <<backendId, busy, saved, attempts, store, memory, faults>>

\* The vote failed, or was given up after ten seconds: the vote shown before it
\* is shown again.
GiveUpVote(v) ==
  /\ votes[v].heard = "waiting"
  /\ messages' = [messages EXCEPT ![votes[v].message].feedback = votes[v].before]
  /\ votes' = [votes EXCEPT ![v].heard = "no"]
  /\ UNCHANGED <<backendId, busy, saved, attempts, store, memory, faults>>

-----------------------------------------------------------------------------

Receive == ReceiveStarted \/ ReceiveCompleted \/ ReceiveFailed \/ StopReading

Stream(i) ==
  \/ Begin(i) \/ Fail(i) \/ BreakOff(i) \/ NoticeDisconnect(i)
  \/ Finish(i) \/ Deliver(i)

HandleVote(v) ==
  RecordVote(v) \/ RefreshAndAccept(v) \/ ReceiveVote(v) \/ GiveUpVote(v)

Next ==
  \/ Ask \/ Receive \/ Save \/ Reload \/ Crash
  \/ \E k \in DOMAIN messages : Retry(k) \/ SendVote(k)
  \/ \E i \in DOMAIN attempts : Stream(i)
  \/ \E v \in DOMAIN votes : HandleVote(v)

Spec == Init /\ [][Next]_vars

-----------------------------------------------------------------------------
(* Properties *)

Answered == {k \in DOMAIN messages : messages[k].status = "done"}

\* An answer the page shows as complete is in the store of the conversation it
\* was given in, exactly once, whatever was retried, lost or restarted since:
\* chat_stream appends the exchange before it sends the final event.
AnswerDurable ==
  \A k \in Answered :
    /\ attempts[messages[k].answer].message = k
    /\ Cardinality({n \in DOMAIN store[ConversationOf(messages[k])] :
         store[ConversationOf(messages[k])][n].answer = messages[k].answer}) = 1

\* All the answers shown in the page's conversation belong to one conversation
\* of the server, the one the next question continues, although a retry sends
\* an older payload: workspace.jsx offers a retry of the last message only.
OneConversation ==
  \A k \in Answered : ConversationOf(messages[k]) = backendId

\* Every answer the page shows is kept once, in the one conversation that goes on.
AnswersKept == AnswerDurable /\ OneConversation

\* The run that answers a question was given every earlier answer on the page,
\* unless it was given as many newer ones as the memory keeps: also after a
\* restart, when the memory is loaded from the store, and on a retry.
SeesEarlierAnswers ==
  busy # None /\ attempts[busy].pc = "running" =>
    \A k \in Answered :
      LET given == {attempts[busy].history[n] : n \in DOMAIN attempts[busy].history}
          stored == store[ConversationOf(messages[k])]
          newer == {stored[n].answer : n \in
                      {n \in DOMAIN stored :
                         \E m \in 1..(n - 1) : stored[m].answer = messages[k].answer}}
      IN messages[k].answer \in given \/ Cardinality(given \cap newer) = Window

\* What the memory has loaded of a conversation is what it would load now, but
\* for the moment between the record of a vote and the refresh that follows:
\* exchanges and votes of concurrent requests never leave it behind the store.
MemoryFollowsStore ==
  \A c \in loaded :
    \/ turns[c] = Recent(store[c])
    \/ \E v \in DOMAIN votes :
         votes[v].pc = "recorded" /\ attempts[votes[v].answer].conversation = c

\* A vote the page shows was heard as saved for that answer, and the store holds the
\* last vote heard as saved, or one the page had to give up: never a vote heard earlier.
\* A vote given up after ten seconds or by a reload may still be written, and overtake.
ShownVoteStored ==
  \A k \in Answered :
    LET mine == {v \in DOMAIN votes : votes[v].answer = messages[k].answer}
        heard == {v \in mine : votes[v].heard = "yes"}
        last == {v \in heard : \A w \in heard : w <= v}
        givenUp == {v \in mine : votes[v].heard # "yes" /\ votes[v].pc # "sent"}
        stored == {store[ConversationOf(messages[k])][n] :
                     n \in DOMAIN store[ConversationOf(messages[k])]}
    IN messages[k].feedback \in Opinions =>
         /\ \E v \in heard : votes[v].opinion = messages[k].feedback
         /\ \E v \in last \cup givenUp :
              [answer |-> messages[k].answer, opinion |-> votes[v].opinion] \in stored

\* The run of attempt i and the answers the page shows, as a durable conversation has them.
RunOf(i) ==
  IF i \notin DOMAIN attempts \/ attempts[i].pc = "sent" THEN [state |-> "idle"]
  ELSE IF attempts[i].pc = "running"
    THEN [state |-> "working", conversation |-> attempts[i].conversation,
          given |-> attempts[i].history]
    ELSE [state |-> "over"]
RunsOf == [i \in 1..MaxAttempts |-> RunOf(i)]
Shown == {messages[k].answer : k \in Answered}

Durable == INSTANCE DurableConversation WITH
  Answers <- 1..MaxAttempts, kept <- store, runs <- RunsOf, shown <- Shown

\* The session is a durable conversation: to a run the memory is the store, whichever
\* requests, votes and restarts it went through, an answer is stored once or not at all,
\* a vote reaches one stored answer, and the page shows stored answers of one conversation.
ConversationDurable == Durable!Spec

\* A request, also a retry, is sent for the conversation the page is in: the
\* server's name of it was learnt from the first event of an earlier attempt.
RetryInSameConversation ==
  busy # None /\ attempts[busy].pc = "sent" => attempts[busy].payload = backendId

=============================================================================
