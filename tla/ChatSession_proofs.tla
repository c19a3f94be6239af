------------------------- MODULE ChatSession_proofs -------------------------
(***************************************************************************)
(* Proofs about ChatSession, for any opinions, memory and bounds: an answer*)
(* shown as complete is stored once, in the conversation that goes on; the *)
(* memory keeps up with the store; the vote shown is the one stored; a run *)
(* is given the earlier answers of its page; and the session implements    *)
(* DurableConversation.                                                    *)
(***************************************************************************)
EXTENDS ChatSession, FiniteSetTheorems, TLAPS

-----------------------------------------------------------------------------
(* The inductive invariant.  Its parts take the attempts, the store and the*)
(* page as arguments: the page may be the one shown or the one saved.      *)

\* Exactly one of the exchanges answers attempt i.
Once(exchanges, i) ==
  \E n \in DOMAIN exchanges :
    \A m \in DOMAIN exchanges : exchanges[m].answer = i <=> m = n

\* Attempt i was answered for good: its exchange is stored and nothing of it
\* changes any more.
Settled(a, s, i) ==
  /\ i \in DOMAIN a
  /\ a[i].pc = "ended"
  /\ a[i].conversation \in Conversations
  /\ Once(s[a[i].conversation], i)

\* What is settled stays so.
Goes(a, s, b, t) ==
  \A i : Settled(a, s, i) =>
    /\ Settled(b, t, i)
    /\ b[i].message = a[i].message
    /\ b[i].conversation = a[i].conversation

\* A run has a conversation, the one of its payload if that names one.
AttemptsNamed(a) ==
  \A i \in DOMAIN a :
    /\ a[i].pc \in {"running", "stored"} => a[i].conversation \in Conversations
    /\ a[i].events # <<>> => a[i].conversation \in Conversations
    /\ a[i].pc = "sent" => a[i].conversation = None /\ a[i].events = <<>>
    /\ a[i].conversation # None /\ a[i].payload # None => a[i].conversation = a[i].payload

\* A final event follows its stored exchange.
EventsSound(a, s) ==
  \A i \in DOMAIN a : \A n \in DOMAIN a[i].events :
    a[i].events[n] = "run_completed" => Settled(a, s, i)

\* An exchange is stored by a run, in its conversation, once.
StoreSound(a, s) ==
  /\ \A i \in DOMAIN a : a[i].pc = "stored" => Once(s[a[i].conversation], i)
  /\ \A c \in Conversations : \A n \in DOMAIN s[c] :
       /\ s[c][n].answer \in DOMAIN a
       /\ a[s[c][n].answer].pc \notin {"sent", "running"}

\* The complete answers of a page are settled, in the conversation of the page,
\* and every later question was asked in it.
PageSound(page, id, a, s) ==
  \A k \in DOMAIN page : page[k].status = "done" =>
    /\ Settled(a, s, page[k].answer)
    /\ a[page[k].answer].message = k
    /\ a[page[k].answer].conversation = id
    /\ \A j \in DOMAIN page : k < j => page[j].payload = id

\* The open stream answers the last message.
BusyLast ==
  busy # None =>
    /\ attempts[busy].message = Len(messages)
    /\ messages # <<>>
    /\ messages[Len(messages)].status = "streaming"
    /\ messages[Len(messages)].payload = attempts[busy].payload

\* A vote is about a settled answer.
VotesSound(w, a, s) == \A v \in DOMAIN w : Settled(a, s, w[v].answer)

IInv ==
  /\ TypeOK
  /\ AttemptsNamed(attempts)
  /\ EventsSound(attempts, store)
  /\ StoreSound(attempts, store)
  /\ PageSound(messages, backendId, attempts, store)
  /\ PageSound(saved.messages, saved.backendId, attempts, store)
  /\ BusyLast
  /\ VotesSound(votes, attempts, store)

-----------------------------------------------------------------------------
(* Sequences *)

\* One element of a sequence is replaced by another.
LEMMA SeqExcept ==
  ASSUME NEW S, NEW s \in Seq(S), NEW k \in DOMAIN s, NEW x \in S
  PROVE  /\ [s EXCEPT ![k] = x] \in Seq(S)
         /\ Len([s EXCEPT ![k] = x]) = Len(s)
         /\ DOMAIN [s EXCEPT ![k] = x] = DOMAIN s
BY SMT

\* A function like a sequence, with values in S.
LEMMA SeqMap ==
  ASSUME NEW T, NEW S, NEW s \in Seq(T), NEW g,
         g = [n \in DOMAIN s |-> g[n]], \A n \in DOMAIN s : g[n] \in S
  PROVE  g \in Seq(S) /\ Len(g) = Len(s) /\ DOMAIN g = DOMAIN s
<1>1. DOMAIN s = 1..Len(s) /\ Len(s) \in Nat
  OBVIOUS
<1>2. g \in [1..Len(s) -> S]
  BY <1>1, Zenon
<1> QED BY <1>1, <1>2, SMT

\* The newest exchanges are exchanges.
LEMMA RecentType ==
  ASSUME NEW S, NEW s \in Seq(S)
  PROVE  Recent(s) \in Seq(S)
BY WindowAssumption, SMT DEF Recent

\* The newest after one more are those of the newest and that one.
LEMMA RecentAppend ==
  ASSUME NEW S, NEW s \in Seq(S), NEW e \in S
  PROVE  Recent(Append(Recent(s), e)) = Recent(Append(s, e))
<1> DEFINE r == Recent(s)
           x == Recent(Append(r, e))
           y == Recent(Append(s, e))
<1>1. CASE Len(s) <= Window
  BY <1>1 DEF Recent
<1>2. CASE Len(s) > Window
  <2>1. r \in Seq(S) /\ Len(r) = Window /\ \A n \in 1..Window : r[n] = s[Len(s) - Window + n]
    BY <1>2, WindowAssumption, SMT DEF Recent
  <2>2. /\ x \in Seq(S) /\ Len(x) = Window
        /\ \A n \in 1..Window : x[n] = Append(r, e)[n + 1]
    BY <2>1, WindowAssumption, SMT DEF Recent
  <2>3. /\ y \in Seq(S) /\ Len(y) = Window
        /\ \A n \in 1..Window : y[n] = Append(s, e)[Len(s) + 1 - Window + n]
    BY <1>2, WindowAssumption, SMT DEF Recent
  <2>4. \A n \in 1..Window : x[n] = y[n]
    <3> SUFFICES ASSUME NEW n \in 1..Window PROVE x[n] = y[n]
      OBVIOUS
    <3>1. CASE n = Window
      <4>1. Append(r, e)[Window + 1] = e
        <5>1. ASSUME NEW z \in Seq(S) PROVE Append(z, e)[Len(z) + 1] = e
          BY SMT
        <5> QED BY <5>1, <2>1
      <4>2. Append(s, e)[Len(s) + 1] = e
        BY SMT
      <4>3. Len(s) + 1 - Window + n = Len(s) + 1
        BY <3>1, WindowAssumption, SMT
      <4> HIDE DEF r, x, y
      <4> QED BY <3>1, <4>1, <4>2, <4>3, <2>2, <2>3
    <3>2. CASE n < Window
      <4>1. Append(r, e)[n + 1] = s[Len(s) - Window + (n + 1)]
        BY <2>1, <3>2, WindowAssumption, SMT
      <4>2. /\ Append(s, e)[Len(s) + 1 - Window + n] = s[Len(s) + 1 - Window + n]
            /\ Len(s) - Window + (n + 1) = Len(s) + 1 - Window + n
        BY <1>2, <3>2, WindowAssumption, SMT
      <4> HIDE DEF r, x, y
      <4> QED BY <4>1, <4>2, <2>2, <2>3
    <3> QED BY <3>1, <3>2, WindowAssumption
  <2>5. x = y
    <3> HIDE DEF r, x, y
    <3>1. x \in [1..Window -> S] /\ y \in [1..Window -> S]
      BY <2>2, <2>3, SMT
    <3>2. \A f, g \in [1..Window -> S] : (\A n \in 1..Window : f[n] = g[n]) => f = g
      <4> SUFFICES ASSUME NEW f \in [1..Window -> S], NEW g \in [1..Window -> S],
                          \A n \in 1..Window : f[n] = g[n]
                   PROVE  f = g
        OBVIOUS
      <4>1. f = [n \in 1..Window |-> f[n]] /\ g = [n \in 1..Window |-> g[n]]
        OBVIOUS
      <4> QED BY <4>1, Zenon
    <3> QED BY <3>1, <3>2, <2>4
  <2> QED BY <2>5
<1> QED BY <1>1, <1>2, WindowAssumption

-----------------------------------------------------------------------------
(* Settled answers *)

\* A page stays sound while what is settled stays so.
LEMMA PageGoes ==
  ASSUME NEW a, NEW s, NEW b, NEW t, NEW page, NEW id,
         Goes(a, s, b, t), PageSound(page, id, a, s)
  PROVE  PageSound(page, id, b, t)
BY DEF Goes, PageSound

\* Attempt i of a changes, and was not settled: the others stay as they are.
LEMMA OneGoes ==
  ASSUME NEW a, NEW s, NEW b, NEW i, ~Settled(a, s, i),
         DOMAIN a \subseteq DOMAIN b, \A j \in DOMAIN a \ {i} : b[j] = a[j]
  PROVE  Goes(a, s, b, s)
BY DEF Goes, Settled

\* Attempts change in what says nothing of their answer.
LEMMA SameGoes ==
  ASSUME NEW a, NEW s, NEW b, DOMAIN a \subseteq DOMAIN b,
         \A j \in DOMAIN a :
           /\ b[j].conversation = a[j].conversation
           /\ b[j].message = a[j].message
           /\ a[j].pc = "ended" => b[j].pc = "ended"
  PROVE  Goes(a, s, b, s)
BY DEF Goes, Settled

\* A new exchange of another attempt leaves attempt i answered once.
LEMMA OnceAppend ==
  ASSUME NEW S, NEW exchanges \in Seq(S), NEW e \in S, NEW i, e.answer # i,
         Once(exchanges, i)
  PROVE  Once(Append(exchanges, e), i)
<1>1. PICK n \in DOMAIN exchanges : \A m \in DOMAIN exchanges : exchanges[m].answer = i <=> m = n
  BY DEF Once
<1>2. \A m \in DOMAIN Append(exchanges, e) :
        (Append(exchanges, e)[m]).answer = i <=> m = n
  BY <1>1, SMT
<1>3. n \in DOMAIN Append(exchanges, e)
  BY SMT
<1> QED BY <1>2, <1>3 DEF Once

\* The first exchange of attempt i answers it once.
LEMMA OnceNew ==
  ASSUME NEW S, NEW exchanges \in Seq(S), NEW e \in S, NEW i, e.answer = i,
         \A n \in DOMAIN exchanges : exchanges[n].answer # i
  PROVE  Once(Append(exchanges, e), i)
<1> DEFINE n == Len(exchanges) + 1
<1>1. \A m \in DOMAIN Append(exchanges, e) :
        (Append(exchanges, e)[m]).answer = i <=> m = n
  BY SMT
<1>2. n \in DOMAIN Append(exchanges, e)
  BY SMT
<1> QED BY <1>1, <1>2 DEF Once

\* Exchanges that keep their answers keep who was answered once.
LEMMA OnceKept ==
  ASSUME NEW s, NEW t, NEW i, DOMAIN t = DOMAIN s, \A n \in DOMAIN s : t[n].answer = s[n].answer,
         Once(s, i)
  PROVE  Once(t, i)
BY DEF Once

-----------------------------------------------------------------------------
(* Types *)

\* The places and elements of a bounded sequence.
LEMMA BoundedElements ==
  ASSUME NEW S, NEW s \in Seq(S), NEW N \in Nat, Len(s) <= N
  PROVE  \A k \in DOMAIN s : s[k] \in S /\ k \in 1..N
BY SMT

\* What TypeOK says of single messages, attempts and votes.
LEMMA Elements ==
  ASSUME TypeOK
  PROVE  /\ \A k \in DOMAIN messages : messages[k] \in Message /\ k \in 1..MaxQuestions
         /\ \A i \in DOMAIN attempts : attempts[i] \in Attempt /\ i \in 1..MaxAttempts
         /\ \A v \in DOMAIN votes : votes[v] \in Vote
         /\ \A c \in Conversations : store[c] \in Seq(Exchange) /\ turns[c] \in Seq(Exchange)
         /\ saved.messages \in Seq(Message) /\ saved.backendId \in Conversations \cup {None}
         /\ busy # None => busy \in DOMAIN attempts
<1>1. \A k \in DOMAIN messages : messages[k] \in Message /\ k \in 1..MaxQuestions
  <2>1. messages \in Seq(Message) /\ Len(messages) <= MaxQuestions
    BY DEF TypeOK
  <2> QED BY <2>1, BoundsAssumption, BoundedElements
<1>2. \A i \in DOMAIN attempts : attempts[i] \in Attempt /\ i \in 1..MaxAttempts
  <2>1. attempts \in Seq(Attempt) /\ Len(attempts) <= MaxAttempts
    BY DEF TypeOK
  <2> QED BY <2>1, BoundsAssumption, BoundedElements
<1>3. \A v \in DOMAIN votes : votes[v] \in Vote
  <2>1. votes \in Seq(Vote)
    BY DEF TypeOK
  <2> QED BY <2>1, SMT
<1>4. \A c \in Conversations : store[c] \in Seq(Exchange) /\ turns[c] \in Seq(Exchange)
  BY DEF TypeOK
<1>5. saved.messages \in Seq(Message) /\ saved.backendId \in Conversations \cup {None}
  BY DEF TypeOK
<1>6. busy # None => busy \in DOMAIN attempts
  BY SMT DEF TypeOK, None
<1> QED BY <1>1, <1>2, <1>3, <1>4, <1>5, <1>6

\* Messages, attempts and votes with a field changed.
LEMMA MessageWith ==
  \A m \in Message :
    /\ \A st \in {"streaming", "done", "failed"} : [m EXCEPT !.status = st] \in Message
    /\ \A st \in {"streaming", "done", "failed"} : \A an \in 0..MaxAttempts :
         [m EXCEPT !.status = st, !.answer = an] \in Message
    /\ \A op \in Opinions \cup {"none", "pending"} : [m EXCEPT !.feedback = op] \in Message
BY DEF Message

EventSeq == Seq({"run_started", "run_completed", "run_failed"})

LEMMA AttemptRead ==
  \A x \in Attempt : \A ev \in EventSeq : [x EXCEPT !.events = ev] \in Attempt
BY DEF Attempt, EventSeq

LEMMA AttemptBegun ==
  \A x \in Attempt : \A c \in Conversations : \A h \in Seq(1..MaxAttempts) : \A ev \in EventSeq :
    [x EXCEPT !.pc = "running", !.conversation = c, !.history = h, !.events = ev] \in Attempt
BY DEF Attempt, EventSeq

LEMMA AttemptStopped ==
  \A x \in Attempt : \A ev \in EventSeq :
    [x EXCEPT !.pc = "ended", !.history = <<>>, !.events = ev] \in Attempt
<1>1. <<>> \in Seq(1..MaxAttempts)
  BY SMT
<1> QED BY <1>1 DEF Attempt, EventSeq

LEMMA AttemptStored ==
  \A x \in Attempt : [x EXCEPT !.pc = "stored", !.history = <<>>] \in Attempt
<1>1. <<>> \in Seq(1..MaxAttempts)
  BY SMT
<1> QED BY <1>1 DEF Attempt

LEMMA AttemptDelivered ==
  \A x \in Attempt : \A ev \in EventSeq : [x EXCEPT !.pc = "ended", !.events = ev] \in Attempt
BY DEF Attempt, EventSeq

LEMMA AttemptCrashed ==
  \A x \in Attempt :
    [x EXCEPT !.pc = IF @ = "sent" THEN @ ELSE "ended", !.history = <<>>] \in Attempt
<1>1. <<>> \in Seq(1..MaxAttempts)
  BY SMT
<1> QED BY <1>1 DEF Attempt

LEMMA VoteWith ==
  \A w \in Vote :
    /\ \A pc \in {"sent", "recorded", "accepted", "ended"} : [w EXCEPT !.pc = pc] \in Vote
    /\ \A heard \in {"waiting", "yes", "no"} : [w EXCEPT !.heard = heard] \in Vote
BY DEF Vote

\* A message of the page changes.
LEMMA MessageChanged ==
  ASSUME TypeOK, NEW k \in DOMAIN messages, NEW m \in Message,
         messages' = [messages EXCEPT ![k] = m]
  PROVE  messages' \in Seq(Message) /\ Len(messages') = Len(messages) /\ DOMAIN messages' = DOMAIN messages
<1>1. messages \in Seq(Message)
  BY DEF TypeOK
<1>2. /\ [messages EXCEPT ![k] = m] \in Seq(Message)
      /\ Len([messages EXCEPT ![k] = m]) = Len(messages)
      /\ DOMAIN [messages EXCEPT ![k] = m] = DOMAIN messages
  BY <1>1, SeqExcept
<1> QED BY <1>2

\* An attempt changes.
LEMMA AttemptChanged ==
  ASSUME TypeOK, NEW i \in DOMAIN attempts, NEW x \in Attempt,
         attempts' = [attempts EXCEPT ![i] = x]
  PROVE  attempts' \in Seq(Attempt) /\ Len(attempts') = Len(attempts) /\ DOMAIN attempts' = DOMAIN attempts
<1>1. attempts \in Seq(Attempt)
  BY DEF TypeOK
<1>2. /\ [attempts EXCEPT ![i] = x] \in Seq(Attempt)
      /\ Len([attempts EXCEPT ![i] = x]) = Len(attempts)
      /\ DOMAIN [attempts EXCEPT ![i] = x] = DOMAIN attempts
  BY <1>1, SeqExcept
<1> QED BY <1>2

\* A vote changes.
LEMMA VoteChanged ==
  ASSUME TypeOK, NEW v \in DOMAIN votes, NEW x \in Vote,
         votes' = [votes EXCEPT ![v] = x]
  PROVE  votes' \in Seq(Vote) /\ Len(votes') = Len(votes) /\ DOMAIN votes' = DOMAIN votes
<1>1. votes \in Seq(Vote)
  BY DEF TypeOK
<1>2. /\ [votes EXCEPT ![v] = x] \in Seq(Vote)
      /\ Len([votes EXCEPT ![v] = x]) = Len(votes)
      /\ DOMAIN [votes EXCEPT ![v] = x] = DOMAIN votes
  BY <1>1, SeqExcept
<1> QED BY <1>2

\* The memory of one conversation is written.
LEMMA RememberType ==
  ASSUME TypeOK, NEW c \in Conversations, NEW exchanges \in Seq(Exchange),
         Remember(c, exchanges)
  PROVE  loaded' \subseteq Conversations /\ turns' \in [Conversations -> Seq(Exchange)]
BY DEF TypeOK, Remember

LEMMA RememberedType ==
  ASSUME TypeOK, NEW c \in Conversations
  PROVE  Remembered(c) \in Seq(Exchange)
BY RecentType, Elements DEF Remembered

LEMMA EventsType ==
  ASSUME TypeOK, NEW i \in DOMAIN attempts, NEW event \in {"run_started", "run_completed", "run_failed"}
  PROVE  Sent(i, event) \in Seq({"run_started", "run_completed", "run_failed"})
<1>1. attempts[i].events \in Seq({"run_started", "run_completed", "run_failed"})
  BY Elements DEF Attempt
<1> QED BY <1>1, SMT DEF Sent

LEMMA InitType == Init => TypeOK
BY BoundsAssumption, SMT DEF Init, TypeOK, Conversations, None

\* Opening a stream.
LEMMA OpenType ==
  ASSUME TypeOK, NEW k \in 1..MaxQuestions, NEW c \in Conversations \cup {None}, Open(k, c),
         messages' \in Seq(Message), Len(messages') <= MaxQuestions
  PROVE  TypeOK'
<1> DEFINE x == [message |-> k, payload |-> c, conversation |-> None,
                 history |-> <<>>, pc |-> "sent", events |-> <<>>]
<1>1. x \in Attempt
  BY SMT DEF Attempt, None
<1>2. attempts' \in Seq(Attempt) /\ Len(attempts') = Len(attempts) + 1 /\ Len(attempts') <= MaxAttempts
  BY <1>1, BoundsAssumption, SMT DEF Open, TypeOK
<1>3. busy' \in 0..Len(attempts')
  <2>1. Len(attempts) \in Nat /\ busy' = Len(attempts) + 1
    BY SMT DEF TypeOK, Open
  <2> QED BY <1>2, <2>1, SMT
<1> QED BY <1>2, <1>3 DEF Open, TypeOK, memory

LEMMA AskType ==
  ASSUME TypeOK, Ask PROVE TypeOK'
<1> DEFINE m == [status |-> "streaming", payload |-> backendId, answer |-> None, feedback |-> "none"]
<1>1. m \in Message
  BY BoundsAssumption, SMT DEF TypeOK, Message, None
<1>2. messages' \in Seq(Message) /\ Len(messages') <= MaxQuestions
  BY <1>1, BoundsAssumption, SMT DEF Ask, TypeOK
<1>3. Len(messages) + 1 \in 1..MaxQuestions
  BY BoundsAssumption, SMT DEF Ask, TypeOK
<1>4. backendId \in Conversations \cup {None}
  BY DEF TypeOK
<1> QED BY <1>2, <1>3, <1>4, OpenType DEF Ask

LEMMA RetryType ==
  ASSUME TypeOK, NEW k \in DOMAIN messages, Retry(k) PROVE TypeOK'
<1> DEFINE m == [messages[k] EXCEPT !.status = "streaming", !.answer = None]
<1>1. m \in Message /\ messages[k].payload \in Conversations \cup {None} /\ k \in 1..MaxQuestions
  <2>1. messages[k] \in Message /\ k \in 1..MaxQuestions
    BY Elements
  <2>2. None \in 0..MaxAttempts
    BY BoundsAssumption DEF None
  <2>3. m \in Message
    BY <2>1, <2>2, MessageWith
  <2> QED BY <2>1, <2>3 DEF Message
<1>2. messages' = [messages EXCEPT ![k] = m]
  BY DEF Retry
<1>3. messages' \in Seq(Message) /\ Len(messages') = Len(messages)
  BY <1>1, <1>2, MessageChanged
<1> QED BY <1>1, <1>3, OpenType DEF Retry, TypeOK

\* The next event is taken off the stream.
LEMMA ArrivesType ==
  ASSUME TypeOK, NEW event, Arrives(event)
  PROVE  /\ busy \in DOMAIN attempts /\ attempts[busy] \in Attempt
         /\ attempts' \in Seq(Attempt) /\ Len(attempts') = Len(attempts)
         /\ DOMAIN attempts' = DOMAIN attempts
<1> DEFINE x == [attempts[busy] EXCEPT !.events = Tail(attempts[busy].events)]
<1>1. busy \in DOMAIN attempts /\ attempts[busy] \in Attempt /\ attempts[busy].events # <<>>
  BY Elements DEF Arrives
<1>2. Tail(attempts[busy].events) \in EventSeq
  <2>1. attempts[busy].events \in EventSeq
    BY <1>1 DEF Attempt, EventSeq
  <2> QED BY <1>1, <2>1, SMT DEF EventSeq
<1>3. x \in Attempt
  BY <1>1, <1>2, AttemptRead
<1>4. attempts' = [attempts EXCEPT ![busy] = x]
  BY DEF Arrives
<1> QED BY <1>1, <1>3, <1>4, AttemptChanged

LEMMA StartedType ==
  ASSUME TypeOK, AttemptsNamed(attempts), ReceiveStarted
  PROVE  TypeOK'
<1>1. /\ busy \in DOMAIN attempts /\ attempts' \in Seq(Attempt) /\ Len(attempts') = Len(attempts)
  BY ArrivesType DEF ReceiveStarted
<1>2. attempts[busy].conversation \in Conversations
  BY <1>1 DEF ReceiveStarted, Arrives, AttemptsNamed
<1> QED BY <1>1, <1>2 DEF ReceiveStarted, TypeOK, memory

\* The message the open stream answers changes its status.
LEMMA AnsweredType ==
  ASSUME TypeOK, BusyLast, busy # None, NEW m \in Message,
         messages' = [messages EXCEPT ![attempts[busy].message] = m]
  PROVE  messages' \in Seq(Message) /\ Len(messages') = Len(messages) /\ DOMAIN messages' = DOMAIN messages
<1>1. attempts[busy].message \in DOMAIN messages
  BY SMT DEF BusyLast, TypeOK
<1> QED BY <1>1, MessageChanged

LEMMA CompletedType ==
  ASSUME TypeOK, AttemptsNamed(attempts), BusyLast, ReceiveCompleted
  PROVE  TypeOK'
<1> DEFINE k == attempts[busy].message
           m == [messages[k] EXCEPT !.status = "done", !.answer = busy]
<1>1. /\ busy \in DOMAIN attempts /\ attempts' \in Seq(Attempt) /\ Len(attempts') = Len(attempts)
  BY ArrivesType DEF ReceiveCompleted
<1>2. attempts[busy].conversation \in Conversations
  BY <1>1 DEF ReceiveCompleted, Arrives, AttemptsNamed
<1>3. k \in DOMAIN messages
  BY SMT DEF BusyLast, TypeOK, ReceiveCompleted, Arrives
<1>4. m \in Message
  <2>1. messages[k] \in Message /\ busy \in 0..MaxAttempts
    BY <1>1, <1>3, Elements, BoundsAssumption
  <2> QED BY <2>1, MessageWith
<1>5. messages' \in Seq(Message) /\ Len(messages') = Len(messages)
  BY <1>3, <1>4, MessageChanged DEF ReceiveCompleted
<1>6. None \in 0..Len(attempts')
  BY <1>1, SMT DEF None, TypeOK
<1> QED BY <1>1, <1>2, <1>5, <1>6 DEF ReceiveCompleted, TypeOK, memory

\* The last message fails.
LEMMA FailedMessage ==
  ASSUME TypeOK, BusyLast, busy # None,
         messages' = [messages EXCEPT ![attempts[busy].message].status = "failed"]
  PROVE  messages' \in Seq(Message) /\ Len(messages') = Len(messages) /\ DOMAIN messages' = DOMAIN messages
<1> DEFINE k == attempts[busy].message
           m == [messages[k] EXCEPT !.status = "failed"]
<1>1. k \in DOMAIN messages
  BY SMT DEF BusyLast, TypeOK
<1>2. m \in Message
  BY <1>1, Elements, MessageWith
<1> QED BY <1>1, <1>2, MessageChanged

LEMMA FailedType ==
  ASSUME TypeOK, BusyLast, ReceiveFailed
  PROVE  TypeOK'
<1>1. /\ busy # None /\ attempts' \in Seq(Attempt) /\ Len(attempts') = Len(attempts)
  BY ArrivesType DEF ReceiveFailed, Arrives
<1>2. messages' \in Seq(Message) /\ Len(messages') = Len(messages)
  BY <1>1, FailedMessage DEF ReceiveFailed
<1>3. None \in 0..Len(attempts')
  BY <1>1, SMT DEF None, TypeOK
<1> QED BY <1>1, <1>2, <1>3 DEF ReceiveFailed, TypeOK, memory

LEMMA StopType ==
  ASSUME TypeOK, BusyLast, StopReading
  PROVE  TypeOK'
<1> DEFINE x == [attempts[busy] EXCEPT !.events = <<>>]
<1>1. busy \in DOMAIN attempts /\ attempts[busy] \in Attempt
  BY Elements DEF StopReading
<1>2. x \in Attempt
  <2>1. <<>> \in EventSeq
    BY SMT DEF EventSeq
  <2> QED BY <1>1, <2>1, AttemptRead
<1>3. attempts' \in Seq(Attempt) /\ Len(attempts') = Len(attempts)
  BY <1>1, <1>2, AttemptChanged DEF StopReading
<1>4. messages' \in Seq(Message) /\ Len(messages') = Len(messages)
  BY FailedMessage DEF StopReading
<1>5. None \in 0..Len(attempts')
  BY <1>3, SMT DEF None, TypeOK
<1> QED BY <1>3, <1>4, <1>5 DEF StopReading, TypeOK, memory

LEMMA SaveType ==
  ASSUME TypeOK, Save
  PROVE  TypeOK'
BY DEF Save, TypeOK, memory

LEMMA ReloadType ==
  ASSUME TypeOK, Reload
  PROVE  TypeOK'
<1>1. messages' \in Seq(Message) /\ Len(messages') = Len(saved.messages)
  <2>1. saved.messages \in Seq(Message)
    BY Elements
  <2>2. \A k \in DOMAIN saved.messages : Restored(saved.messages[k]) \in Message
    <3> SUFFICES ASSUME NEW m \in Message PROVE Restored(m) \in Message
      BY <2>1, SMT
    <3>1. m.status \in {"streaming", "done", "failed"} /\ m.feedback \in Opinions \cup {"none", "pending"}
      BY DEF Message
    <3> QED BY <3>1 DEF Restored, Message
  <2>3. /\ messages' = [k \in DOMAIN saved.messages |-> messages'[k]]
        /\ \A k \in DOMAIN saved.messages : messages'[k] \in Message
    BY <2>2 DEF Reload
  <2> QED BY <2>1, <2>3, SeqMap
<1>2. attempts' \in Seq(Attempt) /\ Len(attempts') = Len(attempts)
  <2>1. \A i \in DOMAIN attempts : [attempts[i] EXCEPT !.events = <<>>] \in Attempt
    <3>1. <<>> \in EventSeq
      BY SMT DEF EventSeq
    <3> QED BY <3>1, Elements, AttemptRead
  <2>2. /\ attempts' = [i \in DOMAIN attempts |-> attempts'[i]]
        /\ \A i \in DOMAIN attempts : attempts'[i] \in Attempt
    BY <2>1 DEF Reload
  <2> QED BY <2>2, SeqMap DEF TypeOK
<1>3. votes' \in Seq(Vote) /\ Len(votes') = Len(votes)
  <2>1. \A v \in DOMAIN votes :
          [votes[v] EXCEPT !.heard = IF @ = "waiting" THEN "no" ELSE @] \in Vote
    <3> SUFFICES ASSUME NEW w \in Vote
                 PROVE  [w EXCEPT !.heard = IF @ = "waiting" THEN "no" ELSE @] \in Vote
      BY Elements
    <3> QED BY DEF Vote
  <2>2. /\ votes' = [v \in DOMAIN votes |-> votes'[v]]
        /\ \A v \in DOMAIN votes : votes'[v] \in Vote
    BY <2>1 DEF Reload
  <2> QED BY <2>2, SeqMap DEF TypeOK
<1>4. None \in 0..Len(attempts')
  BY <1>2, SMT DEF None, TypeOK
<1>5. Len(saved.messages) <= MaxQuestions
  BY DEF TypeOK
<1>6. faults' \in 0..MaxIncidents /\ Len(votes') + faults' <= MaxIncidents
  <2>1. faults' = faults + 1 /\ Len(votes) + faults < MaxIncidents /\ faults \in 0..MaxIncidents
    BY DEF Reload, IncidentLeft, TypeOK
  <2>2. Len(votes) \in Nat
    BY SMT DEF TypeOK
  <2> QED BY <1>3, <2>1, <2>2, BoundsAssumption, SMT
<1> QED BY <1>1, <1>2, <1>3, <1>4, <1>5, <1>6 DEF Reload, TypeOK, memory

\* An attempt that changes on the server keeps the types.
LEMMA StreamType ==
  ASSUME TypeOK, NEW i \in DOMAIN attempts, NEW x \in Attempt,
         attempts' = [attempts EXCEPT ![i] = x],
         UNCHANGED <<browser, votes, faults>>,
         store' \in [Conversations -> Seq(Exchange)],
         loaded' \subseteq Conversations, turns' \in [Conversations -> Seq(Exchange)]
  PROVE  TypeOK'
<1>1. attempts' \in Seq(Attempt) /\ Len(attempts') = Len(attempts)
  BY AttemptChanged
<1> QED BY <1>1 DEF TypeOK, browser

LEMMA MemoryType ==
  ASSUME TypeOK
  PROVE  /\ store \in [Conversations -> Seq(Exchange)]
         /\ loaded \subseteq Conversations /\ turns \in [Conversations -> Seq(Exchange)]
BY DEF TypeOK

\* The conversation a stream is given.
LEMMA BeginsIn ==
  ASSUME TypeOK, NEW i \in DOMAIN attempts
  PROVE  (IF attempts[i].payload # None THEN attempts[i].payload ELSE i) \in Conversations
BY Elements DEF Attempt, Conversations

\* The answers of a list of exchanges.
LEMMA HistoryType ==
  ASSUME NEW s \in Seq(Exchange)
  PROVE  [n \in DOMAIN s |-> s[n].answer] \in Seq(1..MaxAttempts)
<1> DEFINE h == [n \in DOMAIN s |-> s[n].answer]
<1>1. \A n \in DOMAIN s : s[n] \in Exchange
  BY SMT
<1>2. \A n \in DOMAIN s : h[n] \in 1..MaxAttempts
  BY <1>1 DEF Exchange
<1>3. h = [n \in DOMAIN s |-> h[n]]
  OBVIOUS
<1> HIDE DEF h
<1>4. h \in Seq(1..MaxAttempts)
  BY <1>2, <1>3, SeqMap
<1> QED BY <1>4 DEF h

LEMMA BeginType ==
  ASSUME TypeOK, NEW i \in DOMAIN attempts, Begin(i)
  PROVE  TypeOK'
<1> DEFINE c == IF attempts[i].payload # None THEN attempts[i].payload ELSE i
           exchanges == Remembered(c)
           h == [n \in DOMAIN exchanges |-> exchanges[n].answer]
           x == [attempts[i] EXCEPT !.pc = "running", !.conversation = c, !.history = h,
                                    !.events = Sent(i, "run_started")]
<1>1. c \in Conversations
  BY BeginsIn
<1>2. exchanges \in Seq(Exchange)
  BY <1>1, RememberedType
<1>3. h \in Seq(1..MaxAttempts)
  <2> HIDE DEF exchanges
  <2> QED BY <1>2, HistoryType
<1>4. Sent(i, "run_started") \in EventSeq
  BY EventsType DEF EventSeq
<1>5. x \in Attempt
  BY <1>1, <1>3, <1>4, Elements, AttemptBegun
<1>6. attempts' = [attempts EXCEPT ![i] = x] /\ Remember(c, exchanges) /\ UNCHANGED <<browser, store, votes, faults>>
  BY DEF Begin
<1>7. loaded' \subseteq Conversations /\ turns' \in [Conversations -> Seq(Exchange)]
  BY <1>1, <1>2, <1>6, RememberType
<1> QED BY <1>5, <1>6, <1>7, StreamType, MemoryType

LEMMA StoppedType ==
  ASSUME TypeOK, NEW i \in DOMAIN attempts, NEW events \in EventSeq, Stopped(i, events)
  PROVE  TypeOK'
<1> DEFINE x == [attempts[i] EXCEPT !.pc = "ended", !.history = <<>>, !.events = events]
<1>1. x \in Attempt
  BY Elements, AttemptStopped
<1>2. attempts' = [attempts EXCEPT ![i] = x] /\ UNCHANGED <<browser, store, memory, votes, faults>>
  BY DEF Stopped
<1> QED BY <1>1, <1>2, StreamType, MemoryType DEF memory

LEMMA EndsType ==
  ASSUME TypeOK, NEW i \in DOMAIN attempts, Fail(i) \/ BreakOff(i) \/ NoticeDisconnect(i)
  PROVE  TypeOK'
<1>1. Sent(i, "run_failed") \in EventSeq
  BY EventsType DEF EventSeq
<1>2. attempts[i].events \in EventSeq
  BY Elements DEF Attempt, EventSeq
<1> QED BY <1>1, <1>2, StoppedType DEF Fail, BreakOff, NoticeDisconnect

LEMMA FinishType ==
  ASSUME TypeOK, AttemptsNamed(attempts), NEW i \in DOMAIN attempts, Finish(i)
  PROVE  TypeOK'
<1> DEFINE c == attempts[i].conversation
           e == [answer |-> i, opinion |-> "none"]
           x == [attempts[i] EXCEPT !.pc = "stored", !.history = <<>>]
<1>1. c \in Conversations
  BY DEF Finish, AttemptsNamed
<1>2. e \in Exchange
  BY Elements DEF Exchange
<1>3. store' \in [Conversations -> Seq(Exchange)]
  <2>1. store[c] \in Seq(Exchange)
    BY <1>1, Elements
  <2>2. Append(store[c], e) \in Seq(Exchange)
    BY <1>2, <2>1, SMT
  <2>3. store' = [store EXCEPT ![c] = Append(store[c], e)]
    BY DEF Finish
  <2> QED BY <2>2, <2>3, MemoryType
<1>4. Recent(Append(Remembered(c), e)) \in Seq(Exchange)
  <2>1. Append(Remembered(c), e) \in Seq(Exchange)
    <3>1. Remembered(c) \in Seq(Exchange)
      BY <1>1, RememberedType
    <3> QED BY <1>2, <3>1, SMT
  <2> QED BY <2>1, RecentType
<1>5. loaded' \subseteq Conversations /\ turns' \in [Conversations -> Seq(Exchange)]
  BY <1>1, <1>4, RememberType DEF Finish
<1>6. x \in Attempt
  BY Elements, AttemptStored
<1> QED BY <1>3, <1>5, <1>6, StreamType DEF Finish

LEMMA DeliverType ==
  ASSUME TypeOK, NEW i \in DOMAIN attempts, Deliver(i)
  PROVE  TypeOK'
<1> DEFINE x == [attempts[i] EXCEPT !.pc = "ended", !.events = Sent(i, "run_completed")]
<1>1. x \in Attempt
  <2>1. Sent(i, "run_completed") \in EventSeq
    BY EventsType DEF EventSeq
  <2> QED BY <2>1, Elements, AttemptDelivered
<1> QED BY <1>1, StreamType, MemoryType DEF Deliver, memory

LEMMA CrashType ==
  ASSUME TypeOK, Crash
  PROVE  TypeOK'
<1>1. attempts' \in Seq(Attempt) /\ Len(attempts') = Len(attempts)
  <2>1. /\ attempts' = [i \in DOMAIN attempts |-> attempts'[i]]
        /\ \A i \in DOMAIN attempts : attempts'[i] \in Attempt
    BY Elements, AttemptCrashed DEF Crash
  <2> QED BY <2>1, SeqMap DEF TypeOK
<1>2. votes' \in Seq(Vote) /\ Len(votes') = Len(votes)
  <2>1. \A w \in Vote : [w EXCEPT !.pc = IF @ = "recorded" THEN "ended" ELSE @] \in Vote
    BY DEF Vote
  <2>2. /\ votes' = [v \in DOMAIN votes |-> votes'[v]]
        /\ \A v \in DOMAIN votes : votes'[v] \in Vote
    BY <2>1, Elements DEF Crash
  <2> QED BY <2>2, SeqMap DEF TypeOK
<1>3. faults' \in 0..MaxIncidents /\ Len(votes') + faults' <= MaxIncidents
  <2>1. faults' = faults + 1 /\ Len(votes) + faults < MaxIncidents /\ faults \in 0..MaxIncidents
    BY DEF Crash, IncidentLeft, TypeOK
  <2>2. Len(votes) \in Nat
    BY SMT DEF TypeOK
  <2> QED BY <1>2, <2>1, <2>2, BoundsAssumption, SMT
<1>4. loaded' \subseteq Conversations /\ turns' \in [Conversations -> Seq(Exchange)]
  <2>1. <<>> \in Seq(Exchange)
    BY SMT
  <2> QED BY <2>1 DEF Crash
<1> QED BY <1>1, <1>2, <1>3, <1>4 DEF Crash, TypeOK, browser

\* A vote that changes, with the memory and the page as they are or typed.
LEMMA HandledType ==
  ASSUME TypeOK, NEW v \in DOMAIN votes, NEW w \in Vote,
         votes' = [votes EXCEPT ![v] = w],
         UNCHANGED <<backendId, busy, saved, attempts, faults>>,
         messages' \in Seq(Message), Len(messages') = Len(messages),
         store' \in [Conversations -> Seq(Exchange)],
         loaded' \subseteq Conversations, turns' \in [Conversations -> Seq(Exchange)]
  PROVE  TypeOK'
<1>1. votes' \in Seq(Vote) /\ Len(votes') = Len(votes)
  BY VoteChanged
<1> QED BY <1>1 DEF TypeOK

LEMMA PageType ==
  ASSUME TypeOK
  PROVE  messages \in Seq(Message)
BY DEF TypeOK

LEMMA SendVoteType ==
  ASSUME IInv, NEW k \in DOMAIN messages, SendVote(k)
  PROVE  TypeOK'
<1> USE DEF IInv
<1> DEFINE m == [messages[k] EXCEPT !.feedback = "pending"]
<1>1. messages[k] \in Message /\ k \in 1..MaxQuestions
  BY Elements
<1>2. PICK opinion \in Opinions : votes' = Append(votes,
         [message |-> k, answer |-> messages[k].answer, opinion |-> opinion,
          before |-> messages[k].feedback, pc |-> "sent", heard |-> "waiting"])
  BY DEF SendVote
<1> DEFINE w == [message |-> k, answer |-> messages[k].answer, opinion |-> opinion,
                 before |-> messages[k].feedback, pc |-> "sent", heard |-> "waiting"]
<1>3. messages[k].answer \in 1..MaxAttempts
  BY Elements DEF SendVote, CanVote, PageSound, Settled
<1>4. messages[k].feedback \in Opinions \cup {"none"}
  BY <1>1 DEF SendVote, CanVote, Message
<1>5. w \in Vote
  BY <1>1, <1>3, <1>4 DEF Vote
<1>6. Len(votes) + faults < MaxIncidents /\ votes \in Seq(Vote) /\ faults \in 0..MaxIncidents
  BY DEF SendVote, IncidentLeft, TypeOK
<1>7. votes' \in Seq(Vote) /\ Len(votes') + faults <= MaxIncidents
  <2>1. votes' = Append(votes, w)
    BY <1>2
  <2> HIDE DEF w
  <2> QED BY <1>5, <1>6, <2>1, BoundsAssumption, SMT
<1>8. m \in Message
  BY <1>1, MessageWith
<1>9. messages' \in Seq(Message) /\ Len(messages') = Len(messages)
  BY <1>8, MessageChanged DEF SendVote
<1> QED BY <1>7, <1>9 DEF SendVote, TypeOK, memory

\* The exchanges with an opinion on the answer of attempt i.
Voted(exchanges, i, opinion) ==
  [n \in DOMAIN exchanges |->
     IF exchanges[n].answer = i THEN [exchanges[n] EXCEPT !.opinion = opinion] ELSE exchanges[n]]

LEMMA VotedType ==
  ASSUME NEW s \in Seq(Exchange), NEW i, NEW opinion \in Opinions
  PROVE  /\ Voted(s, i, opinion) \in Seq(Exchange)
         /\ DOMAIN Voted(s, i, opinion) = DOMAIN s
         /\ \A n \in DOMAIN s : Voted(s, i, opinion)[n].answer = s[n].answer
<1> DEFINE r == Voted(s, i, opinion)
<1>1. \A n \in DOMAIN s : s[n] \in Exchange
  BY SMT
<1>2. \A e \in Exchange : [e EXCEPT !.opinion = opinion] \in Exchange
  BY DEF Exchange
<1>3. \A e \in Exchange : [e EXCEPT !.opinion = opinion].answer = e.answer
  BY DEF Exchange
<1>4. \A n \in DOMAIN s : r[n] \in Exchange /\ r[n].answer = s[n].answer
  BY <1>1, <1>2, <1>3 DEF Voted
<1>5. r = [n \in DOMAIN s |-> r[n]]
  BY DEF Voted
<1> HIDE DEF r
<1>6. r \in Seq(Exchange) /\ DOMAIN r = DOMAIN s
  BY <1>4, <1>5, SeqMap
<1> QED BY <1>4, <1>6 DEF r

LEMMA RecordType ==
  ASSUME IInv, NEW v \in DOMAIN votes, RecordVote(v)
  PROVE  TypeOK'
<1> USE DEF IInv
<1> DEFINE c == attempts[votes[v].answer].conversation
           w == [votes[v] EXCEPT !.pc = "recorded"]
           r == Voted(store[c], votes[v].answer, votes[v].opinion)
<1>1. c \in Conversations
  BY DEF VotesSound, Settled
<1>2. w \in Vote /\ votes[v].opinion \in Opinions
  <2>1. votes[v] \in Vote
    BY Elements
  <2>2. \A u \in Vote : u.opinion \in Opinions
    BY DEF Vote
  <2> QED BY <2>1, <2>2, VoteWith
<1>3. r \in Seq(Exchange)
  BY <1>1, <1>2, Elements, VotedType
<1>4. store' = [store EXCEPT ![c] = r]
  BY DEF RecordVote, Voted
<1>5. store' \in [Conversations -> Seq(Exchange)]
  <2> HIDE DEF r
  <2> QED BY <1>3, <1>4, MemoryType
<1> QED BY <1>2, <1>5, HandledType, MemoryType, PageType DEF RecordVote, browser, memory

LEMMA RefreshType ==
  ASSUME IInv, NEW v \in DOMAIN votes, RefreshAndAccept(v)
  PROVE  TypeOK'
<1> USE DEF IInv
<1> DEFINE c == attempts[votes[v].answer].conversation
<1>1. c \in Conversations
  BY DEF VotesSound, Settled
<1>2. PICK pc \in {"accepted", "ended"} : votes' = [votes EXCEPT ![v].pc = pc]
  BY DEF RefreshAndAccept
<1> DEFINE w == [votes[v] EXCEPT !.pc = pc]
<1>3. w \in Vote
  BY Elements, VoteWith
<1>4. loaded' \subseteq Conversations /\ turns' \in [Conversations -> Seq(Exchange)]
  <2>1. Recent(store[c]) \in Seq(Exchange)
    BY <1>1, Elements, RecentType
  <2>2. CASE Reread(c)
    BY <1>1, <2>1, <2>2, RememberType DEF Reread
  <2>3. CASE Forget(c)
    <3>1. <<>> \in Seq(Exchange)
      BY SMT
    <3>2. loaded \subseteq Conversations /\ turns \in [Conversations -> Seq(Exchange)]
      BY MemoryType
    <3>3. loaded' = loaded \ {c} /\ turns' = [turns EXCEPT ![c] = <<>>]
      BY <2>3 DEF Forget
    <3> QED BY <3>1, <3>2, <3>3
  <2> QED BY <2>2, <2>3 DEF RefreshAndAccept
<1> QED BY <1>2, <1>3, <1>4, HandledType, MemoryType, PageType DEF RefreshAndAccept, browser

\* The vote the page shows for message k changes, if it has a message k.
LEMMA ShownType ==
  ASSUME TypeOK, NEW k, NEW opinion \in Opinions \cup {"none", "pending"},
         messages' = [messages EXCEPT ![k].feedback = opinion]
  PROVE  /\ messages' \in Seq(Message) /\ Len(messages') = Len(messages)
         /\ DOMAIN messages' = DOMAIN messages
         /\ \A j \in DOMAIN messages :
              /\ messages'[j].status = messages[j].status
              /\ messages'[j].answer = messages[j].answer
              /\ messages'[j].payload = messages[j].payload
<1> DEFINE m == [messages[k] EXCEPT !.feedback = opinion]
<1>1. CASE k \in DOMAIN messages
  <2>1. messages[k] \in Message
    BY <1>1, Elements
  <2>2. m \in Message
    BY <2>1, MessageWith
  <2>3. m.status = messages[k].status /\ m.answer = messages[k].answer /\ m.payload = messages[k].payload
    BY <2>1 DEF Message
  <2>4. messages' = [messages EXCEPT ![k] = m]
    OBVIOUS
  <2>5. /\ messages' \in Seq(Message) /\ Len(messages') = Len(messages)
        /\ DOMAIN messages' = DOMAIN messages
    BY <1>1, <2>2, <2>4, MessageChanged
  <2>6. \A j \in DOMAIN messages : messages'[j] = IF j = k THEN m ELSE messages[j]
    BY <2>4
  <2> HIDE DEF m
  <2> QED BY <2>3, <2>5, <2>6
<1>2. CASE k \notin DOMAIN messages
  <2>1. messages = [j \in DOMAIN messages |-> messages[j]]
    BY PageType, SMT
  <2>2. messages' = messages
    BY <1>2, <2>1
  <2> QED BY <2>2, PageType
<1> QED BY <1>1, <1>2

LEMMA ReceiveVoteType ==
  ASSUME TypeOK, NEW v \in DOMAIN votes, ReceiveVote(v) \/ GiveUpVote(v)
  PROVE  TypeOK'
<1>1. /\ votes[v] \in Vote
      /\ votes[v].opinion \in Opinions \cup {"none", "pending"}
      /\ votes[v].before \in Opinions \cup {"none", "pending"}
  BY Elements DEF Vote
<1>2. PICK heard \in {"yes", "no"} : votes' = [votes EXCEPT ![v].heard = heard]
  BY DEF ReceiveVote, GiveUpVote
<1> DEFINE w == [votes[v] EXCEPT !.heard = heard]
<1>3. w \in Vote
  BY <1>1, VoteWith
<1>4. messages' \in Seq(Message) /\ Len(messages') = Len(messages)
  BY <1>1, ShownType DEF ReceiveVote, GiveUpVote
<1> QED BY <1>2, <1>3, <1>4, HandledType, MemoryType DEF ReceiveVote, GiveUpVote, memory

-----------------------------------------------------------------------------
(* The steps *)

LEMMA VotesGo ==
  ASSUME NEW a, NEW s, NEW b, NEW t, NEW w, NEW z, Goes(a, s, b, t), VotesSound(w, a, s),
         DOMAIN z = DOMAIN w, \A v \in DOMAIN w : z[v].answer = w[v].answer
  PROVE  VotesSound(z, b, t)
BY DEF Goes, VotesSound

\* The saved page and the votes stay sound while what is settled stays so.
LEMMA Together ==
  ASSUME IInv, TypeOK', AttemptsNamed(attempts'), EventsSound(attempts', store'),
         StoreSound(attempts', store'), Goes(attempts, store, attempts', store'),
         PageSound(messages', backendId', attempts', store'), BusyLast',
         saved' = saved, VotesSound(votes', attempts', store')
  PROVE  IInv'
<1>1. PageSound(saved.messages, saved.backendId, attempts', store')
  BY PageGoes DEF IInv
<1> QED BY <1>1 DEF IInv

\* Attempts that lose events the browser has read or will not read.
LEMMA ReadKeeps ==
  ASSUME IInv, NEW b, DOMAIN b = DOMAIN attempts,
         \A j \in DOMAIN attempts :
           /\ b[j].pc = attempts[j].pc /\ b[j].conversation = attempts[j].conversation
           /\ b[j].message = attempts[j].message /\ b[j].payload = attempts[j].payload
           /\ attempts[j].events = <<>> => b[j].events = <<>>
           /\ \A n \in DOMAIN b[j].events : \E m \in DOMAIN attempts[j].events :
                b[j].events[n] = attempts[j].events[m]
  PROVE  /\ AttemptsNamed(b) /\ EventsSound(b, store) /\ StoreSound(b, store)
         /\ Goes(attempts, store, b, store)
<1>1. Goes(attempts, store, b, store)
  BY SameGoes
<1>2. AttemptsNamed(b)
  BY DEF IInv, AttemptsNamed
<1>3. EventsSound(b, store)
  BY <1>1 DEF IInv, EventsSound, Goes
<1>4. StoreSound(b, store)
  BY DEF IInv, StoreSound
<1> QED BY <1>1, <1>2, <1>3, <1>4

LEMMA ArrivesKeeps ==
  ASSUME IInv, NEW event, Arrives(event)
  PROVE  /\ AttemptsNamed(attempts') /\ EventsSound(attempts', store) /\ StoreSound(attempts', store)
         /\ Goes(attempts, store, attempts', store)
         /\ attempts'[busy].conversation = attempts[busy].conversation
         /\ attempts'[busy].message = attempts[busy].message
         /\ attempts'[busy].payload = attempts[busy].payload
<1> DEFINE x == [attempts[busy] EXCEPT !.events = Tail(attempts[busy].events)]
<1>1. /\ busy \in DOMAIN attempts /\ attempts[busy] \in Attempt /\ attempts[busy].events # <<>>
      /\ DOMAIN attempts' = DOMAIN attempts
  BY ArrivesType DEF Arrives, IInv
<1>2. attempts' = [attempts EXCEPT ![busy] = x]
  BY DEF Arrives
<1>3. /\ x.pc = attempts[busy].pc /\ x.conversation = attempts[busy].conversation
      /\ x.message = attempts[busy].message /\ x.payload = attempts[busy].payload
      /\ x.events = Tail(attempts[busy].events)
  BY <1>1 DEF Attempt
<1>4. \A n \in DOMAIN x.events : \E m \in DOMAIN attempts[busy].events :
        x.events[n] = attempts[busy].events[m]
  <2>1. attempts[busy].events \in EventSeq
    BY <1>1 DEF Attempt, EventSeq
  <2>2. ASSUME NEW s \in EventSeq, s # <<>>
        PROVE  \A n \in DOMAIN Tail(s) : n + 1 \in DOMAIN s /\ Tail(s)[n] = s[n + 1]
    BY SMT DEF EventSeq
  <2> HIDE DEF x
  <2> QED BY <1>1, <1>3, <2>1, <2>2
<1>5. \A j \in DOMAIN attempts : attempts'[j] = IF j = busy THEN x ELSE attempts[j]
  BY <1>2
<1> HIDE DEF x
<1>6. \A j \in DOMAIN attempts :
        /\ attempts'[j].pc = attempts[j].pc /\ attempts'[j].conversation = attempts[j].conversation
        /\ attempts'[j].message = attempts[j].message /\ attempts'[j].payload = attempts[j].payload
        /\ attempts[j].events = <<>> => attempts'[j].events = <<>>
        /\ \A n \in DOMAIN attempts'[j].events : \E m \in DOMAIN attempts[j].events :
             attempts'[j].events[n] = attempts[j].events[m]
  <2> SUFFICES ASSUME NEW j \in DOMAIN attempts
               PROVE  /\ attempts'[j].pc = attempts[j].pc /\ attempts'[j].conversation = attempts[j].conversation
                      /\ attempts'[j].message = attempts[j].message /\ attempts'[j].payload = attempts[j].payload
                      /\ attempts[j].events = <<>> => attempts'[j].events = <<>>
                      /\ \A n \in DOMAIN attempts'[j].events : \E m \in DOMAIN attempts[j].events :
                           attempts'[j].events[n] = attempts[j].events[m]
    OBVIOUS
  <2>1. CASE j = busy
    <3>1. attempts'[j] = x /\ attempts[j] = attempts[busy]
      BY <2>1, <1>5
    <3>2. attempts[j].events # <<>>
      BY <3>1, <1>1
    <3>3. /\ x.pc = attempts[j].pc /\ x.conversation = attempts[j].conversation
          /\ x.message = attempts[j].message /\ x.payload = attempts[j].payload
      BY <3>1, <1>3
    <3>4. \A n \in DOMAIN x.events : \E m \in DOMAIN attempts[j].events : x.events[n] = attempts[j].events[m]
      BY <3>1, <1>4
    <3> QED BY <3>1, <3>2, <3>3, <3>4
  <2>2. CASE j # busy
    BY <2>2, <1>5
  <2> QED BY <2>1, <2>2
<1>7. /\ AttemptsNamed(attempts') /\ EventsSound(attempts', store) /\ StoreSound(attempts', store)
      /\ Goes(attempts, store, attempts', store)
  BY <1>1, <1>6, ReadKeeps
<1> QED BY <1>1, <1>6, <1>7

\* The conversation of the open stream, when the page has an answer already:
\* the one of the page.
LEMMA BusyHere ==
  ASSUME IInv, busy \in DOMAIN attempts, NEW k \in DOMAIN messages, messages[k].status = "done",
         attempts[busy].conversation \in Conversations
  PROVE  /\ k < Len(messages)
         /\ attempts[busy].conversation = backendId
<1>1. busy # None
  BY SMT DEF IInv, TypeOK, None
<1>2. Len(messages) \in DOMAIN messages /\ k \in 1..Len(messages) /\ Len(messages) \in Nat
  <2>1. messages \in Seq(Message)
    BY PageType DEF IInv
  <2>2. Len(messages) \in Nat /\ DOMAIN messages = 1..Len(messages)
    BY <2>1, SMT
  <2>3. k \in 1..Len(messages)
    BY <2>2
  <2> QED BY <2>2, <2>3, SMT
<1>3. k # Len(messages)
  BY <1>1 DEF IInv, BusyLast
<1>4. k < Len(messages)
  BY <1>2, <1>3, SMT
<1>5. messages[Len(messages)].payload = backendId /\ backendId \in Conversations
  BY <1>2, <1>4 DEF IInv, PageSound, Settled
<1>6. attempts[busy].payload = backendId
  BY <1>1, <1>5 DEF IInv, BusyLast
<1>7. None \notin Conversations
  BY SMT DEF None, Conversations
<1> QED BY <1>4, <1>5, <1>6, <1>7 DEF IInv, AttemptsNamed

LEMMA StartedKeeps ==
  ASSUME IInv, ReceiveStarted
  PROVE  IInv'
<1>1. TypeOK'
  BY StartedType DEF IInv
<1>2. /\ AttemptsNamed(attempts') /\ EventsSound(attempts', store) /\ StoreSound(attempts', store)
      /\ Goes(attempts, store, attempts', store)
      /\ attempts'[busy].message = attempts[busy].message
      /\ attempts'[busy].payload = attempts[busy].payload
  BY ArrivesKeeps DEF ReceiveStarted
<1>3. busy \in DOMAIN attempts /\ attempts[busy].conversation \in Conversations
  BY ArrivesType DEF ReceiveStarted, Arrives, IInv, AttemptsNamed
<1>4. PageSound(messages, backendId', attempts', store)
  <2>1. CASE \E k \in DOMAIN messages : messages[k].status = "done"
    <3>1. backendId' = backendId
      BY <2>1, <1>3, BusyHere DEF ReceiveStarted
    <3>2. PageSound(messages, backendId, attempts', store)
      BY <1>2, PageGoes DEF IInv
    <3> QED BY <3>1, <3>2
  <2>2. CASE \A k \in DOMAIN messages : messages[k].status # "done"
    BY <2>2 DEF PageSound
  <2> QED BY <2>1, <2>2
<1>5. BusyLast'
  BY <1>2 DEF ReceiveStarted, BusyLast, IInv
<1>6. VotesSound(votes, attempts', store)
  BY <1>2, VotesGo DEF IInv
<1> QED BY <1>1, <1>2, <1>4, <1>5, <1>6, Together DEF ReceiveStarted

LEMMA CompletedKeeps ==
  ASSUME IInv, ReceiveCompleted
  PROVE  IInv'
<1> DEFINE last == attempts[busy].message
           m == [messages[last] EXCEPT !.status = "done", !.answer = busy]
<1>1. TypeOK'
  BY CompletedType DEF IInv
<1>2. /\ AttemptsNamed(attempts') /\ EventsSound(attempts', store) /\ StoreSound(attempts', store)
      /\ Goes(attempts, store, attempts', store)
  BY ArrivesKeeps DEF ReceiveCompleted
<1>3. /\ busy # None /\ busy \in DOMAIN attempts /\ attempts[busy].conversation \in Conversations
  BY ArrivesType DEF ReceiveCompleted, Arrives, IInv, AttemptsNamed
<1>4. last = Len(messages) /\ last \in DOMAIN messages /\ DOMAIN messages = 1..Len(messages) /\ Len(messages) \in Nat
  BY <1>3, SMT DEF IInv, BusyLast, TypeOK
<1>5. Settled(attempts, store, busy)
  <2>1. attempts[busy].events \in EventSeq /\ attempts[busy].events # <<>>
    BY <1>3, Elements DEF Attempt, EventSeq, IInv, ReceiveCompleted, Arrives
  <2>2. 1 \in DOMAIN attempts[busy].events /\ attempts[busy].events[1] = Head(attempts[busy].events)
    BY <2>1, SMT DEF EventSeq
  <2> QED BY <1>3, <2>2 DEF ReceiveCompleted, Arrives, IInv, EventsSound
<1>6. /\ Settled(attempts', store, busy)
      /\ attempts'[busy].message = last
      /\ attempts'[busy].conversation = backendId'
  BY <1>2, <1>5 DEF Goes, ReceiveCompleted
<1>7. messages[last] \in Message
  BY <1>4, Elements DEF IInv
<1>8. m.status = "done" /\ m.answer = busy /\ m.payload = messages[last].payload
  BY <1>7 DEF Message
<1>9. /\ DOMAIN messages' = DOMAIN messages
      /\ \A k \in DOMAIN messages : messages'[k] = IF k = last THEN m ELSE messages[k]
  BY DEF ReceiveCompleted
<1>10. \A k \in DOMAIN messages : k # last => k < last
  BY <1>4, SMT
<1>11. ASSUME NEW k \in DOMAIN messages, messages'[k].status = "done"
       PROVE  /\ Settled(attempts', store, messages'[k].answer)
              /\ attempts'[messages'[k].answer].message = k
              /\ attempts'[messages'[k].answer].conversation = backendId'
              /\ \A j \in DOMAIN messages : k < j => messages'[j].payload = backendId'
  <2> HIDE DEF m
  <2>1. CASE k = last
    <3>1. \A j \in DOMAIN messages : ~(last < j)
      BY <1>4, SMT
    <3> QED BY <2>1, <3>1, <1>6, <1>8, <1>9
  <2>2. CASE k # last
    <3>1. messages'[k] = messages[k] /\ messages[k].status = "done"
      BY <2>2, <1>9, <1>11
    <3>2. backendId' = backendId
      BY <3>1, <1>3, BusyHere DEF ReceiveCompleted
    <3>3. PageSound(messages, backendId, attempts', store)
      BY <1>2, PageGoes DEF IInv
    <3>4. \A j \in DOMAIN messages : messages'[j].payload = messages[j].payload
      BY <1>8, <1>9
    <3> QED BY <3>1, <3>2, <3>3, <3>4 DEF PageSound
  <2> QED BY <2>1, <2>2
<1>12. PageSound(messages', backendId', attempts', store)
  BY <1>9, <1>11 DEF PageSound
<1>13. BusyLast'
  BY DEF ReceiveCompleted, BusyLast
<1>14. VotesSound(votes, attempts', store)
  BY <1>2, VotesGo DEF IInv
<1> QED BY <1>1, <1>2, <1>12, <1>13, <1>14, Together DEF ReceiveCompleted

\* A page that shows the same or fewer complete answers is as sound.
LEMMA PageLess ==
  ASSUME NEW a, NEW s, NEW page, NEW id, NEW less, PageSound(page, id, a, s),
         DOMAIN less = DOMAIN page,
         \A k \in DOMAIN page :
           /\ less[k].payload = page[k].payload
           /\ less[k].status = "done" => page[k].status = "done" /\ less[k].answer = page[k].answer
  PROVE  PageSound(less, id, a, s)
BY DEF PageSound

\* The message of the open stream fails.
LEMMA FailedPage ==
  ASSUME IInv, busy # None,
         messages' = [messages EXCEPT ![attempts[busy].message].status = "failed"]
  PROVE  PageSound(messages', backendId, attempts, store)
<1> DEFINE last == attempts[busy].message
           m == [messages[last] EXCEPT !.status = "failed"]
<1>1. last \in DOMAIN messages
  BY SMT DEF IInv, BusyLast, TypeOK
<1>2. messages[last] \in Message
  BY <1>1, Elements DEF IInv
<1>3. m.status = "failed" /\ m.payload = messages[last].payload
  BY <1>2 DEF Message
<1>4. /\ DOMAIN messages' = DOMAIN messages
      /\ \A k \in DOMAIN messages : messages'[k] = IF k = last THEN m ELSE messages[k]
  OBVIOUS
<1>5. \A k \in DOMAIN messages :
        /\ messages'[k].payload = messages[k].payload
        /\ messages'[k].status = "done" => messages[k].status = "done" /\ messages'[k].answer = messages[k].answer
  <2> HIDE DEF m
  <2> QED BY <1>3, <1>4
<1> QED BY <1>4, <1>5, PageLess DEF IInv

LEMMA FailedKeeps ==
  ASSUME IInv, ReceiveFailed
  PROVE  IInv'
<1>1. TypeOK'
  BY FailedType DEF IInv
<1>2. /\ AttemptsNamed(attempts') /\ EventsSound(attempts', store) /\ StoreSound(attempts', store)
      /\ Goes(attempts, store, attempts', store)
  BY ArrivesKeeps DEF ReceiveFailed
<1>3. PageSound(messages', backendId, attempts', store)
  BY <1>2, FailedPage, PageGoes DEF ReceiveFailed, Arrives
<1>4. BusyLast'
  BY DEF ReceiveFailed, BusyLast
<1>5. VotesSound(votes, attempts', store)
  BY <1>2, VotesGo DEF IInv
<1> QED BY <1>1, <1>2, <1>3, <1>4, <1>5, Together DEF ReceiveFailed

LEMMA StopKeeps ==
  ASSUME IInv, StopReading
  PROVE  IInv'
<1> DEFINE x == [attempts[busy] EXCEPT !.events = <<>>]
<1>1. TypeOK'
  BY StopType DEF IInv
<1>2. busy # None /\ busy \in DOMAIN attempts /\ attempts[busy] \in Attempt
  BY Elements DEF IInv, StopReading
<1>3. /\ x.pc = attempts[busy].pc /\ x.conversation = attempts[busy].conversation
      /\ x.message = attempts[busy].message /\ x.payload = attempts[busy].payload
      /\ x.events = <<>>
  BY <1>2 DEF Attempt
<1>4. /\ DOMAIN attempts' = DOMAIN attempts
      /\ \A j \in DOMAIN attempts : attempts'[j] = IF j = busy THEN x ELSE attempts[j]
  BY DEF StopReading
<1>5. DOMAIN <<>> = {}
  BY SMT
<1>6. ASSUME NEW j \in DOMAIN attempts
      PROVE  /\ attempts'[j].pc = attempts[j].pc /\ attempts'[j].conversation = attempts[j].conversation
             /\ attempts'[j].message = attempts[j].message /\ attempts'[j].payload = attempts[j].payload
             /\ attempts[j].events = <<>> => attempts'[j].events = <<>>
             /\ \A n \in DOMAIN attempts'[j].events : \E k \in DOMAIN attempts[j].events :
                  attempts'[j].events[n] = attempts[j].events[k]
  <2> HIDE DEF x
  <2>1. CASE j = busy
    <3>1. attempts'[j] = x /\ attempts[j] = attempts[busy]
      BY <2>1, <1>4
    <3> QED BY <3>1, <1>3, <1>5
  <2>2. CASE j # busy
    BY <2>2, <1>4
  <2> QED BY <2>1, <2>2
<1>7. /\ AttemptsNamed(attempts') /\ EventsSound(attempts', store) /\ StoreSound(attempts', store)
      /\ Goes(attempts, store, attempts', store)
  <2> HIDE DEF x
  <2> QED BY <1>4, <1>6, ReadKeeps
<1>8. PageSound(messages', backendId, attempts', store)
  BY <1>2, <1>7, FailedPage, PageGoes DEF StopReading
<1>9. BusyLast'
  BY DEF StopReading, BusyLast
<1>10. VotesSound(votes, attempts', store)
  BY <1>7, VotesGo DEF IInv
<1> QED BY <1>1, <1>7, <1>8, <1>9, <1>10, Together DEF StopReading

LEMMA SaveKeeps ==
  ASSUME IInv, Save
  PROVE  IInv'
<1>1. TypeOK'
  BY SaveType DEF IInv
<1>2. saved'.messages = messages /\ saved'.backendId = backendId
  BY DEF Save
<1>3. BusyLast'
  BY DEF Save, BusyLast, IInv
<1> QED BY <1>1, <1>2, <1>3 DEF Save, IInv

LEMMA ReloadKeeps ==
  ASSUME IInv, Reload
  PROVE  IInv'
<1>1. TypeOK'
  BY ReloadType DEF IInv
<1>2. DOMAIN <<>> = {}
  BY SMT
<1>3. /\ DOMAIN attempts' = DOMAIN attempts
      /\ \A j \in DOMAIN attempts :
           /\ attempts'[j].pc = attempts[j].pc /\ attempts'[j].conversation = attempts[j].conversation
           /\ attempts'[j].message = attempts[j].message /\ attempts'[j].payload = attempts[j].payload
           /\ attempts'[j].events = <<>>
  <2>1. \A x \in Attempt :
          /\ [x EXCEPT !.events = <<>>].pc = x.pc
          /\ [x EXCEPT !.events = <<>>].conversation = x.conversation
          /\ [x EXCEPT !.events = <<>>].message = x.message
          /\ [x EXCEPT !.events = <<>>].payload = x.payload
          /\ [x EXCEPT !.events = <<>>].events = <<>>
    BY DEF Attempt
  <2> QED BY <2>1, Elements DEF Reload, IInv
<1>4. /\ AttemptsNamed(attempts') /\ EventsSound(attempts', store) /\ StoreSound(attempts', store)
      /\ Goes(attempts, store, attempts', store)
  BY <1>2, <1>3, ReadKeeps
<1>5. /\ DOMAIN messages' = DOMAIN saved.messages
      /\ \A k \in DOMAIN saved.messages :
           /\ messages'[k].payload = saved.messages[k].payload
           /\ messages'[k].status = "done" =>
                saved.messages[k].status = "done" /\ messages'[k].answer = saved.messages[k].answer
  <2>1. \A k \in DOMAIN saved.messages : saved.messages[k] \in Message
    BY Elements, SMT DEF IInv
  <2>2. \A m \in Message :
          /\ Restored(m).payload = m.payload /\ Restored(m).answer = m.answer
          /\ Restored(m).status = "done" => m.status = "done"
    BY DEF Restored, Message
  <2> QED BY <2>1, <2>2 DEF Reload
<1>6. PageSound(messages', saved.backendId, attempts, store)
  BY <1>5, PageLess DEF IInv
<1>7. PageSound(messages', backendId', attempts', store)
  BY <1>4, <1>6, PageGoes DEF Reload
<1>8. BusyLast'
  BY DEF Reload, BusyLast
<1>9. /\ DOMAIN votes' = DOMAIN votes
      /\ \A v \in DOMAIN votes : votes'[v].answer = votes[v].answer
  <2>1. \A w \in Vote : [w EXCEPT !.heard = IF @ = "waiting" THEN "no" ELSE @].answer = w.answer
    BY DEF Vote
  <2> QED BY <2>1, Elements DEF Reload, IInv
<1>10. VotesSound(votes', attempts', store)
  BY <1>4, <1>9, VotesGo DEF IInv
<1> QED BY <1>1, <1>4, <1>7, <1>8, <1>10, Together DEF Reload

\* What an attempt under way may become, the store as it is: one that runs in
\* a conversation, or one that is over.
Moves(i, x) ==
  /\ x.message = attempts[i].message /\ x.payload = attempts[i].payload
  /\ \/ x.pc = "ended"
     \/ x.pc = "running" /\ attempts[i].pc = "sent" /\ x.conversation \in Conversations
  /\ x.events # <<>> => x.conversation \in Conversations
  /\ x.conversation # None /\ x.payload # None => x.conversation = x.payload
  /\ \A n \in DOMAIN x.events : x.events[n] = "run_completed" =>
       x.pc = "ended" /\ x.conversation \in Conversations /\ Once(store[x.conversation], i)

LEMMA MovesKeeps ==
  ASSUME IInv, TypeOK', NEW i \in DOMAIN attempts, NEW x, Moves(i, x), attempts[i].pc # "ended",
         attempts' = [attempts EXCEPT ![i] = x], UNCHANGED <<browser, store, votes>>
  PROVE  IInv'
<1>1. /\ DOMAIN attempts' = DOMAIN attempts
      /\ attempts'[i] = x
      /\ \A j \in DOMAIN attempts \ {i} : attempts'[j] = attempts[j]
  OBVIOUS
<1>2. Goes(attempts, store, attempts', store)
  BY <1>1, OneGoes DEF Settled
<1>3. AttemptsNamed(attempts')
  <2> SUFFICES ASSUME NEW j \in DOMAIN attempts
               PROVE  /\ attempts'[j].pc \in {"running", "stored"} => attempts'[j].conversation \in Conversations
                      /\ attempts'[j].events # <<>> => attempts'[j].conversation \in Conversations
                      /\ attempts'[j].pc = "sent" => attempts'[j].conversation = None /\ attempts'[j].events = <<>>
                      /\ attempts'[j].conversation # None /\ attempts'[j].payload # None =>
                           attempts'[j].conversation = attempts'[j].payload
    BY <1>1 DEF AttemptsNamed
  <2>1. CASE j = i
    BY <2>1, <1>1 DEF Moves
  <2>2. CASE j # i
    BY <2>2, <1>1 DEF IInv, AttemptsNamed
  <2> QED BY <2>1, <2>2
<1>4. EventsSound(attempts', store)
  <2> SUFFICES ASSUME NEW j \in DOMAIN attempts, NEW n \in DOMAIN attempts'[j].events,
                      attempts'[j].events[n] = "run_completed"
               PROVE  Settled(attempts', store, j)
    BY <1>1 DEF EventsSound
  <2>1. CASE j = i
    BY <2>1, <1>1 DEF Moves, Settled
  <2>2. CASE j # i
    BY <2>2, <1>1, <1>2 DEF IInv, EventsSound, Goes
  <2> QED BY <2>1, <2>2
<1>5. StoreSound(attempts', store)
  <2>1. ASSUME NEW j \in DOMAIN attempts, attempts'[j].pc = "stored"
        PROVE  Once(store[attempts'[j].conversation], j)
    <3>1. j # i
      BY <2>1, <1>1 DEF Moves
    <3> QED BY <2>1, <3>1, <1>1 DEF IInv, StoreSound
  <2>2. ASSUME NEW c \in Conversations, NEW n \in DOMAIN store[c]
        PROVE  /\ store[c][n].answer \in DOMAIN attempts
               /\ attempts'[store[c][n].answer].pc \notin {"sent", "running"}
    <3>1. store[c][n].answer \in DOMAIN attempts /\ attempts[store[c][n].answer].pc \notin {"sent", "running"}
      BY DEF IInv, StoreSound
    <3>2. CASE store[c][n].answer = i
      BY <3>1, <3>2, <1>1 DEF Moves
    <3>3. CASE store[c][n].answer # i
      BY <3>1, <3>3, <1>1
    <3> QED BY <3>1, <3>2, <3>3
  <2> QED BY <2>1, <2>2, <1>1 DEF StoreSound
<1>6. PageSound(messages, backendId, attempts', store)
  BY <1>2, PageGoes DEF IInv
<1>7. BusyLast'
  <2> SUFFICES ASSUME busy # None PROVE BusyLast'
    BY DEF BusyLast, browser
  <2>1. busy \in DOMAIN attempts
    BY Elements DEF IInv
  <2>2. attempts'[busy].message = attempts[busy].message /\ attempts'[busy].payload = attempts[busy].payload
    BY <2>1, <1>1 DEF Moves
  <2> QED BY <2>2 DEF IInv, BusyLast, browser
<1>8. VotesSound(votes, attempts', store)
  BY <1>2, VotesGo DEF IInv
<1> QED BY <1>2, <1>3, <1>4, <1>5, <1>6, <1>7, <1>8, Together DEF browser

\* The events the browser has still to read, and one more.
LEMMA SentOne ==
  ASSUME TypeOK, NEW i \in DOMAIN attempts, NEW event \in {"run_started", "run_completed", "run_failed"}
  PROVE  \A n \in DOMAIN Sent(i, event) :
           \/ Sent(i, event)[n] = event
           \/ n \in DOMAIN attempts[i].events /\ Sent(i, event)[n] = attempts[i].events[n]
<1>1. attempts[i].events \in EventSeq
  BY Elements DEF Attempt, EventSeq
<1> QED BY <1>1, SMT DEF Sent, EventSeq

\* A run that is not over has sent no final event.
LEMMA NotCompleted ==
  ASSUME IInv, NEW i \in DOMAIN attempts, attempts[i].pc # "ended"
  PROVE  \A n \in DOMAIN attempts[i].events : attempts[i].events[n] # "run_completed"
BY DEF IInv, EventsSound, Settled

LEMMA BeginKeeps ==
  ASSUME IInv, NEW i \in DOMAIN attempts, Begin(i)
  PROVE  IInv'
<1> DEFINE c == IF attempts[i].payload # None THEN attempts[i].payload ELSE i
           exchanges == Remembered(c)
           x == [attempts[i] EXCEPT !.pc = "running", !.conversation = c,
                                    !.history = [n \in DOMAIN exchanges |-> exchanges[n].answer],
                                    !.events = Sent(i, "run_started")]
<1>1. TypeOK'
  BY BeginType DEF IInv
<1>2. attempts[i] \in Attempt /\ attempts[i].pc = "sent"
  BY Elements DEF IInv, Begin
<1>3. /\ x.message = attempts[i].message /\ x.payload = attempts[i].payload
      /\ x.pc = "running" /\ x.conversation = c /\ x.events = Sent(i, "run_started")
  BY <1>2 DEF Attempt
<1>4. c \in Conversations /\ (attempts[i].payload # None => c = attempts[i].payload)
  BY BeginsIn DEF IInv
<1>5. \A n \in DOMAIN Sent(i, "run_started") : Sent(i, "run_started")[n] # "run_completed"
  BY <1>2, SentOne, NotCompleted DEF IInv
<1>6. Moves(i, x)
  <2> HIDE DEF x, c
  <2> QED BY <1>2, <1>3, <1>4, <1>5 DEF Moves
<1>7. attempts' = [attempts EXCEPT ![i] = x] /\ UNCHANGED <<browser, store, votes>>
  BY DEF Begin
<1> QED BY <1>1, <1>2, <1>6, <1>7, MovesKeeps

LEMMA StoppedKeeps ==
  ASSUME IInv, NEW i \in DOMAIN attempts, attempts[i].pc \in {"sent", "running"}, NEW events \in EventSeq,
         \A n \in DOMAIN events : events[n] # "run_completed",
         events # <<>> => attempts[i].conversation \in Conversations,
         Stopped(i, events)
  PROVE  IInv'
<1> DEFINE x == [attempts[i] EXCEPT !.pc = "ended", !.history = <<>>, !.events = events]
<1>1. TypeOK'
  BY StoppedType DEF IInv
<1>2. attempts[i] \in Attempt
  BY Elements DEF IInv
<1>3. /\ x.message = attempts[i].message /\ x.payload = attempts[i].payload
      /\ x.pc = "ended" /\ x.conversation = attempts[i].conversation /\ x.events = events
  BY <1>2 DEF Attempt
<1>4. Moves(i, x)
  <2> HIDE DEF x
  <2> QED BY <1>3 DEF Moves, IInv, AttemptsNamed
<1>5. attempts' = [attempts EXCEPT ![i] = x] /\ UNCHANGED <<browser, store, votes>>
  BY DEF Stopped
<1> QED BY <1>1, <1>4, <1>5, MovesKeeps

LEMMA EndsKeeps ==
  ASSUME IInv, NEW i \in DOMAIN attempts, Fail(i) \/ BreakOff(i) \/ NoticeDisconnect(i)
  PROVE  IInv'
<1>1. attempts[i].pc \in {"sent", "running"}
  BY DEF Fail, BreakOff, NoticeDisconnect
<1>2. attempts[i].events \in EventSeq
  BY Elements DEF Attempt, EventSeq, IInv
<1>3. \A n \in DOMAIN attempts[i].events : attempts[i].events[n] # "run_completed"
  BY <1>1, NotCompleted
<1>4. attempts[i].events # <<>> => attempts[i].conversation \in Conversations
  BY DEF IInv, AttemptsNamed
<1>5. CASE Fail(i)
  <2>1. Sent(i, "run_failed") \in EventSeq
    BY EventsType DEF EventSeq, IInv
  <2>2. \A n \in DOMAIN Sent(i, "run_failed") : Sent(i, "run_failed")[n] # "run_completed"
    BY <1>3, SentOne DEF IInv
  <2>3. attempts[i].conversation \in Conversations
    BY <1>5 DEF Fail, IInv, AttemptsNamed
  <2> QED BY <1>1, <1>5, <2>1, <2>2, <2>3, StoppedKeeps DEF Fail
<1>6. CASE BreakOff(i) \/ NoticeDisconnect(i)
  BY <1>1, <1>2, <1>3, <1>4, <1>6, StoppedKeeps DEF BreakOff, NoticeDisconnect
<1> QED BY <1>5, <1>6

LEMMA DeliverKeeps ==
  ASSUME IInv, NEW i \in DOMAIN attempts, Deliver(i)
  PROVE  IInv'
<1> DEFINE x == [attempts[i] EXCEPT !.pc = "ended", !.events = Sent(i, "run_completed")]
<1>1. TypeOK'
  BY DeliverType DEF IInv
<1>2. attempts[i] \in Attempt /\ attempts[i].pc = "stored"
  BY Elements DEF IInv, Deliver
<1>3. /\ x.message = attempts[i].message /\ x.payload = attempts[i].payload
      /\ x.pc = "ended" /\ x.conversation = attempts[i].conversation
  BY <1>2 DEF Attempt
<1>4. attempts[i].conversation \in Conversations /\ Once(store[attempts[i].conversation], i)
  BY <1>2 DEF IInv, AttemptsNamed, StoreSound
<1>5. Moves(i, x)
  <2> HIDE DEF x
  <2> QED BY <1>3, <1>4 DEF Moves, IInv, AttemptsNamed
<1>6. attempts' = [attempts EXCEPT ![i] = x] /\ UNCHANGED <<browser, store, votes>>
  BY DEF Deliver
<1> QED BY <1>1, <1>2, <1>5, <1>6, MovesKeeps

LEMMA FinishKeeps ==
  ASSUME IInv, NEW i \in DOMAIN attempts, Finish(i)
  PROVE  IInv'
<1> DEFINE c == attempts[i].conversation
           e == [answer |-> i, opinion |-> "none"]
           x == [attempts[i] EXCEPT !.pc = "stored", !.history = <<>>]
<1>1. TypeOK'
  BY FinishType DEF IInv
<1>2. attempts[i] \in Attempt /\ attempts[i].pc = "running" /\ c \in Conversations
  BY Elements DEF IInv, Finish, AttemptsNamed
<1>3. /\ x.message = attempts[i].message /\ x.payload = attempts[i].payload
      /\ x.pc = "stored" /\ x.conversation = c /\ x.events = attempts[i].events
  BY <1>2 DEF Attempt
<1>4. /\ DOMAIN attempts' = DOMAIN attempts
      /\ attempts'[i] = x
      /\ \A j \in DOMAIN attempts \ {i} : attempts'[j] = attempts[j]
      /\ UNCHANGED <<browser, votes>>
  BY DEF Finish
<1>5. e \in Exchange /\ e.answer = i
  BY Elements DEF Exchange, IInv
<1>6. /\ \A d \in Conversations : store[d] \in Seq(Exchange)
      /\ store'[c] = Append(store[c], e)
      /\ \A d \in Conversations \ {c} : store'[d] = store[d]
  <2>1. store \in [Conversations -> Seq(Exchange)]
    BY MemoryType DEF IInv
  <2>2. store' = [store EXCEPT ![c] = Append(store[c], e)]
    BY DEF Finish
  <2> QED BY <1>2, <2>1, <2>2
<1> HIDE DEF x, e
<1>7. \A n \in DOMAIN store[c] : store[c][n].answer # i
  BY <1>2 DEF IInv, StoreSound
<1>8. Once(store'[c], i)
  BY <1>2, <1>5, <1>6, <1>7, OnceNew
<1>9. ASSUME NEW j, j # i, NEW d \in Conversations, Once(store[d], j)
      PROVE  Once(store'[d], j)
  <2>1. CASE d = c
    BY <2>1, <1>5, <1>6, <1>9, OnceAppend
  <2>2. CASE d # c
    BY <2>2, <1>6, <1>9
  <2> QED BY <2>1, <2>2
<1>10. Goes(attempts, store, attempts', store')
  <2> SUFFICES ASSUME NEW j, Settled(attempts, store, j)
               PROVE  Settled(attempts', store', j) /\ attempts'[j] = attempts[j]
    BY DEF Goes
  <2>1. j # i /\ j \in DOMAIN attempts
    BY <1>2 DEF Settled
  <2> QED BY <2>1, <1>4, <1>9 DEF Settled
<1>11. AttemptsNamed(attempts')
  <2> SUFFICES ASSUME NEW j \in DOMAIN attempts
               PROVE  /\ attempts'[j].pc \in {"running", "stored"} => attempts'[j].conversation \in Conversations
                      /\ attempts'[j].events # <<>> => attempts'[j].conversation \in Conversations
                      /\ attempts'[j].pc = "sent" => attempts'[j].conversation = None /\ attempts'[j].events = <<>>
                      /\ attempts'[j].conversation # None /\ attempts'[j].payload # None =>
                           attempts'[j].conversation = attempts'[j].payload
    BY <1>4 DEF AttemptsNamed
  <2>1. CASE j = i
    BY <2>1, <1>2, <1>3, <1>4 DEF IInv, AttemptsNamed
  <2>2. CASE j # i
    BY <2>2, <1>4 DEF IInv, AttemptsNamed
  <2> QED BY <2>1, <2>2
<1>12. EventsSound(attempts', store')
  <2> SUFFICES ASSUME NEW j \in DOMAIN attempts, NEW n \in DOMAIN attempts'[j].events,
                      attempts'[j].events[n] = "run_completed"
               PROVE  Settled(attempts', store', j)
    BY <1>4 DEF EventsSound
  <2>1. j # i
    BY <1>2, <1>3, <1>4, NotCompleted
  <2> QED BY <2>1, <1>4, <1>10 DEF IInv, EventsSound, Goes
<1>13. StoreSound(attempts', store')
  <2>1. ASSUME NEW j \in DOMAIN attempts, attempts'[j].pc = "stored"
        PROVE  Once(store'[attempts'[j].conversation], j)
    <3>1. CASE j = i
      BY <3>1, <1>3, <1>4, <1>8
    <3>2. CASE j # i
      <4>1. attempts'[j] = attempts[j] /\ attempts[j].conversation \in Conversations
        BY <2>1, <3>2, <1>4 DEF IInv, AttemptsNamed
      <4>2. Once(store[attempts[j].conversation], j)
        BY <2>1, <4>1 DEF IInv, StoreSound
      <4> QED BY <3>2, <4>1, <4>2, <1>9
    <3> QED BY <3>1, <3>2
  <2>2. ASSUME NEW d \in Conversations, NEW n \in DOMAIN store'[d]
        PROVE  /\ store'[d][n].answer \in DOMAIN attempts
               /\ attempts'[store'[d][n].answer].pc \notin {"sent", "running"}
    <3>1. store'[d][n].answer = i \/ (n \in DOMAIN store[d] /\ store'[d][n] = store[d][n])
      <4>1. CASE d = c
        <5>1. ASSUME NEW s \in Seq(Exchange), NEW m \in DOMAIN Append(s, e)
              PROVE  Append(s, e)[m] = e \/ (m \in DOMAIN s /\ Append(s, e)[m] = s[m])
          BY SMT
        <5>2. store'[d][n] = e \/ (n \in DOMAIN store[d] /\ store'[d][n] = store[d][n])
          BY <4>1, <5>1, <1>6
        <5> QED BY <5>2, <1>5
      <4>2. CASE d # c
        BY <4>2, <1>6
      <4> QED BY <4>1, <4>2
    <3>2. CASE store'[d][n].answer = i
      BY <3>2, <1>3, <1>4
    <3>3. CASE store'[d][n].answer # i
      <4>1. n \in DOMAIN store[d] /\ store'[d][n] = store[d][n]
        BY <3>1, <3>3
      <4>2. store[d][n].answer \in DOMAIN attempts /\ attempts[store[d][n].answer].pc \notin {"sent", "running"}
        BY <4>1 DEF IInv, StoreSound
      <4> QED BY <3>3, <4>1, <4>2, <1>4
    <3> QED BY <3>2, <3>3
  <2> QED BY <2>1, <2>2, <1>4 DEF StoreSound
<1>14. PageSound(messages, backendId, attempts', store')
  BY <1>10, PageGoes DEF IInv
<1>15. BusyLast'
  <2> SUFFICES ASSUME busy # None PROVE BusyLast'
    BY <1>4 DEF BusyLast, browser
  <2>1. busy \in DOMAIN attempts
    BY Elements DEF IInv
  <2>2. attempts'[busy].message = attempts[busy].message /\ attempts'[busy].payload = attempts[busy].payload
    BY <2>1, <1>3, <1>4
  <2> QED BY <2>2, <1>4 DEF IInv, BusyLast, browser
<1>16. VotesSound(votes, attempts', store')
  BY <1>10, VotesGo DEF IInv
<1> QED BY <1>1, <1>4, <1>10, <1>11, <1>12, <1>13, <1>14, <1>15, <1>16, Together DEF browser

LEMMA CrashKeeps ==
  ASSUME IInv, Crash
  PROVE  IInv'
<1>1. TypeOK'
  BY CrashType DEF IInv
<1>2. /\ DOMAIN attempts' = DOMAIN attempts
      /\ \A j \in DOMAIN attempts :
           /\ attempts'[j].conversation = attempts[j].conversation
           /\ attempts'[j].message = attempts[j].message /\ attempts'[j].payload = attempts[j].payload
           /\ attempts'[j].events = attempts[j].events
           /\ attempts'[j].pc = IF attempts[j].pc = "sent" THEN "sent" ELSE "ended"
  <2>1. ASSUME NEW x \in Attempt
        PROVE  LET y == [x EXCEPT !.pc = IF @ = "sent" THEN @ ELSE "ended", !.history = <<>>]
               IN  /\ y.conversation = x.conversation
                   /\ y.message = x.message /\ y.payload = x.payload
                   /\ y.events = x.events
                   /\ y.pc = IF x.pc = "sent" THEN "sent" ELSE "ended"
    BY DEF Attempt
  <2> QED BY <2>1, Elements DEF Crash, IInv
<1>3. Goes(attempts, store, attempts', store)
  BY <1>2, SameGoes
<1>4. AttemptsNamed(attempts')
  BY <1>2 DEF IInv, AttemptsNamed
<1>5. EventsSound(attempts', store)
  BY <1>2, <1>3 DEF IInv, EventsSound, Goes
<1>6. StoreSound(attempts', store)
  BY <1>2 DEF IInv, StoreSound
<1>7. PageSound(messages, backendId, attempts', store)
  BY <1>3, PageGoes DEF IInv
<1>8. BusyLast'
  <2> SUFFICES ASSUME busy # None PROVE BusyLast'
    BY DEF BusyLast, browser, Crash
  <2>1. busy \in DOMAIN attempts
    BY Elements DEF IInv
  <2> QED BY <2>1, <1>2 DEF IInv, BusyLast, browser, Crash
<1>9. /\ DOMAIN votes' = DOMAIN votes
      /\ \A v \in DOMAIN votes : votes'[v].answer = votes[v].answer
  <2>1. \A w \in Vote : [w EXCEPT !.pc = IF @ = "recorded" THEN "ended" ELSE @].answer = w.answer
    BY DEF Vote
  <2> QED BY <2>1, Elements DEF Crash, IInv
<1>10. VotesSound(votes', attempts', store)
  BY <1>3, <1>9, VotesGo DEF IInv
<1> QED BY <1>1, <1>3, <1>4, <1>5, <1>6, <1>7, <1>8, <1>10, Together DEF Crash, browser

\* A stream is opened for the last message, with the payload of the message.
LEMMA OpenKeeps ==
  ASSUME IInv, TypeOK', NEW k, NEW c, Open(k, c), k = Len(messages'), messages' # <<>>,
         messages'[k].status = "streaming", messages'[k].payload = c,
         PageSound(messages', backendId, attempts, store)
  PROVE  IInv'
<1> DEFINE i == Len(attempts) + 1
           x == [message |-> k, payload |-> c, conversation |-> None,
                 history |-> <<>>, pc |-> "sent", events |-> <<>>]
<1>1. /\ DOMAIN attempts' = DOMAIN attempts \cup {i}
      /\ i \notin DOMAIN attempts
      /\ attempts'[i] = x
      /\ \A j \in DOMAIN attempts : attempts'[j] = attempts[j]
  <2>1. ASSUME NEW S, NEW s \in Seq(S), NEW y
        PROVE  /\ DOMAIN Append(s, y) = DOMAIN s \cup {Len(s) + 1}
               /\ Len(s) + 1 \notin DOMAIN s
               /\ Append(s, y)[Len(s) + 1] = y
               /\ \A j \in DOMAIN s : Append(s, y)[j] = s[j]
    BY SMT
  <2>2. attempts \in Seq(Attempt) /\ attempts' = Append(attempts, x)
    BY DEF IInv, TypeOK, Open
  <2> HIDE DEF x
  <2> QED BY <2>1, <2>2
<1>2. /\ x.message = k /\ x.payload = c /\ x.conversation = None
      /\ x.pc = "sent" /\ x.events = <<>> /\ DOMAIN x.events = {}
  BY SMT
<1> HIDE DEF i, x
<1>3. busy' = i /\ UNCHANGED <<backendId, saved, store, votes>>
  BY DEF Open, i
<1>4. Goes(attempts, store, attempts', store)
  BY <1>1, SameGoes
<1>5. AttemptsNamed(attempts')
  <2> SUFFICES ASSUME NEW j \in DOMAIN attempts'
               PROVE  /\ attempts'[j].pc \in {"running", "stored"} => attempts'[j].conversation \in Conversations
                      /\ attempts'[j].events # <<>> => attempts'[j].conversation \in Conversations
                      /\ attempts'[j].pc = "sent" => attempts'[j].conversation = None /\ attempts'[j].events = <<>>
                      /\ attempts'[j].conversation # None /\ attempts'[j].payload # None =>
                           attempts'[j].conversation = attempts'[j].payload
    BY DEF AttemptsNamed
  <2>1. CASE j = i
    BY <2>1, <1>1, <1>2
  <2>2. CASE j # i
    BY <2>2, <1>1 DEF IInv, AttemptsNamed
  <2> QED BY <2>1, <2>2
<1>6. EventsSound(attempts', store)
  <2> SUFFICES ASSUME NEW j \in DOMAIN attempts', NEW n \in DOMAIN attempts'[j].events,
                      attempts'[j].events[n] = "run_completed"
               PROVE  Settled(attempts', store, j)
    BY DEF EventsSound
  <2>1. j \in DOMAIN attempts
    BY <1>1, <1>2
  <2> QED BY <2>1, <1>1, <1>4 DEF IInv, EventsSound, Goes
<1>7. StoreSound(attempts', store)
  <2>1. ASSUME NEW j \in DOMAIN attempts', attempts'[j].pc = "stored"
        PROVE  Once(store[attempts'[j].conversation], j)
    BY <2>1, <1>1, <1>2 DEF IInv, StoreSound
  <2>2. ASSUME NEW d \in Conversations, NEW n \in DOMAIN store[d]
        PROVE  /\ store[d][n].answer \in DOMAIN attempts'
               /\ attempts'[store[d][n].answer].pc \notin {"sent", "running"}
    BY <1>1 DEF IInv, StoreSound
  <2> QED BY <2>1, <2>2 DEF StoreSound
<1>8. PageSound(messages', backendId, attempts', store)
  BY <1>4, PageGoes
<1>9. BusyLast'
  BY <1>1, <1>2, <1>3 DEF BusyLast
<1>10. VotesSound(votes, attempts', store)
  BY <1>4, VotesGo DEF IInv
<1> QED BY <1>3, <1>4, <1>5, <1>6, <1>7, <1>8, <1>9, <1>10, Together

LEMMA AskKeeps ==
  ASSUME IInv, Ask
  PROVE  IInv'
<1> DEFINE m == [status |-> "streaming", payload |-> backendId, answer |-> None, feedback |-> "none"]
           k == Len(messages) + 1
<1>1. TypeOK'
  BY AskType DEF IInv
<1>2. /\ messages' = Append(messages, m) /\ Open(k, backendId)
  BY DEF Ask
<1>3. m.status = "streaming" /\ m.payload = backendId
  OBVIOUS
<1>4. /\ DOMAIN messages' = DOMAIN messages \cup {k}
      /\ Len(messages') = k /\ messages' # <<>>
      /\ messages'[k] = m
      /\ \A j \in DOMAIN messages : messages'[j] = messages[j]
  <2>1. ASSUME NEW S, NEW s \in Seq(S), NEW y
        PROVE  /\ DOMAIN Append(s, y) = DOMAIN s \cup {Len(s) + 1}
               /\ Len(Append(s, y)) = Len(s) + 1 /\ Append(s, y) # <<>>
               /\ Append(s, y)[Len(s) + 1] = y
               /\ \A j \in DOMAIN s : Append(s, y)[j] = s[j]
    BY SMT
  <2>2. messages \in Seq(Message)
    BY PageType DEF IInv
  <2> HIDE DEF m
  <2> QED BY <1>2, <2>1, <2>2
<1> HIDE DEF m, k
<1>5. PageSound(messages', backendId, attempts, store)
  <2> SUFFICES ASSUME NEW j \in DOMAIN messages', messages'[j].status = "done"
               PROVE  /\ Settled(attempts, store, messages'[j].answer)
                      /\ attempts[messages'[j].answer].message = j
                      /\ attempts[messages'[j].answer].conversation = backendId
                      /\ \A l \in DOMAIN messages' : j < l => messages'[l].payload = backendId
    BY DEF PageSound
  <2>1. j \in DOMAIN messages /\ messages'[j] = messages[j]
    BY <1>3, <1>4
  <2> QED BY <2>1, <1>3, <1>4 DEF IInv, PageSound
<1> QED BY <1>1, <1>2, <1>3, <1>4, <1>5, OpenKeeps

LEMMA RetryKeeps ==
  ASSUME IInv, NEW k \in DOMAIN messages, Retry(k)
  PROVE  IInv'
<1> DEFINE m == [messages[k] EXCEPT !.status = "streaming", !.answer = None]
<1>1. TypeOK'
  BY RetryType DEF IInv
<1>2. messages[k] \in Message
  BY Elements DEF IInv
<1>3. m.status = "streaming" /\ m.payload = messages[k].payload
  BY <1>2 DEF Message
<1>4. /\ messages' = [messages EXCEPT ![k] = m]
      /\ k = Len(messages) /\ Open(k, messages[k].payload)
  BY DEF Retry, CanRetry
<1>5. /\ DOMAIN messages' = DOMAIN messages
      /\ \A j \in DOMAIN messages : messages'[j] = IF j = k THEN m ELSE messages[j]
  BY <1>4
<1>6. Len(messages') = Len(messages) /\ messages' # <<>>
  <2>1. ASSUME NEW S, NEW s \in Seq(S), NEW y
        PROVE  Len([s EXCEPT ![k] = y]) = Len(s)
    BY SMT
  <2>2. messages \in Seq(Message) /\ Len(messages) # 0
    BY PageType, SMT DEF IInv
  <2>3. Len(messages') = Len(messages)
    <3> HIDE DEF m
    <3> QED BY <1>4, <2>1, <2>2
  <2>4. Len(<<>>) = 0
    BY SMT
  <2> QED BY <2>2, <2>3, <2>4
<1> HIDE DEF m
<1>7. PageSound(messages', backendId, attempts, store)
  <2>1. \A j \in DOMAIN messages :
          /\ messages'[j].payload = messages[j].payload
          /\ messages'[j].status = "done" =>
               messages[j].status = "done" /\ messages'[j].answer = messages[j].answer
    BY <1>3, <1>5
  <2> QED BY <2>1, <1>5, PageLess DEF IInv
<1> QED BY <1>1, <1>3, <1>4, <1>5, <1>6, <1>7, OpenKeeps

\* The page shows another vote for a message, or none, and all else is kept.
LEMMA ShownKeeps ==
  ASSUME IInv, TypeOK', NEW k, NEW opinion \in Opinions \cup {"none", "pending"},
         messages' = [messages EXCEPT ![k].feedback = opinion],
         UNCHANGED <<backendId, busy, saved, attempts, store>>,
         VotesSound(votes', attempts, store)
  PROVE  IInv'
<1>1. /\ Len(messages') = Len(messages) /\ DOMAIN messages' = DOMAIN messages
      /\ \A j \in DOMAIN messages :
           /\ messages'[j].status = messages[j].status
           /\ messages'[j].answer = messages[j].answer
           /\ messages'[j].payload = messages[j].payload
  BY ShownType DEF IInv
<1>2. PageSound(messages', backendId, attempts, store)
  BY <1>1, PageLess DEF IInv
<1>3. BusyLast'
  <2> SUFFICES ASSUME busy # None PROVE BusyLast'
    BY DEF BusyLast
  <2>1. messages # <<>> /\ Len(messages) \in DOMAIN messages
    <3>1. messages \in Seq(Message) /\ messages # <<>>
      BY PageType DEF IInv, BusyLast
    <3> QED BY <3>1, SMT
  <2>2. messages' # <<>>
    <3>1. DOMAIN <<>> = {}
      BY SMT
    <3> QED BY <2>1, <3>1, <1>1
  <2> QED BY <2>1, <2>2, <1>1 DEF IInv, BusyLast
<1>4. Goes(attempts, store, attempts', store')
  BY DEF Goes
<1> QED BY <1>2, <1>3, <1>4, Together DEF IInv

LEMMA SendVoteKeeps ==
  ASSUME IInv, NEW k \in DOMAIN messages, SendVote(k)
  PROVE  IInv'
<1>1. TypeOK'
  BY SendVoteType
<1>2. PICK opinion \in Opinions : votes' = Append(votes,
         [message |-> k, answer |-> messages[k].answer, opinion |-> opinion,
          before |-> messages[k].feedback, pc |-> "sent", heard |-> "waiting"])
  BY DEF SendVote
<1> DEFINE w == [message |-> k, answer |-> messages[k].answer, opinion |-> opinion,
                 before |-> messages[k].feedback, pc |-> "sent", heard |-> "waiting"]
<1>3. w.answer = messages[k].answer /\ votes' = Append(votes, w)
  BY <1>2
<1> HIDE DEF w
<1>4. Settled(attempts, store, messages[k].answer)
  BY DEF SendVote, CanVote, IInv, PageSound
<1>5. \A v \in DOMAIN votes' : votes'[v] = w \/ (v \in DOMAIN votes /\ votes'[v] = votes[v])
  <2>1. ASSUME NEW s \in Seq(Vote), NEW v \in DOMAIN Append(s, w)
        PROVE  Append(s, w)[v] = w \/ (v \in DOMAIN s /\ Append(s, w)[v] = s[v])
    BY SMT
  <2> QED BY <1>3, <2>1 DEF IInv, TypeOK
<1>6. VotesSound(votes', attempts, store)
  BY <1>3, <1>4, <1>5 DEF IInv, VotesSound
<1> QED BY <1>1, <1>6, ShownKeeps DEF SendVote

\* A vote that changes is still about its answer.
LEMMA VoteKept ==
  ASSUME IInv, NEW v \in DOMAIN votes, NEW w, w.answer = votes[v].answer,
         votes' = [votes EXCEPT ![v] = w]
  PROVE  /\ DOMAIN votes' = DOMAIN votes
         /\ \A u \in DOMAIN votes : votes'[u].answer = votes[u].answer
         /\ VotesSound(votes', attempts, store)
<1>1. /\ DOMAIN votes' = DOMAIN votes
      /\ \A u \in DOMAIN votes : votes'[u] = IF u = v THEN w ELSE votes[u]
  OBVIOUS
<1>2. \A u \in DOMAIN votes : votes'[u].answer = votes[u].answer
  BY <1>1
<1> QED BY <1>1, <1>2 DEF IInv, VotesSound

LEMMA HeardKeeps ==
  ASSUME IInv, NEW v \in DOMAIN votes, ReceiveVote(v) \/ GiveUpVote(v)
  PROVE  IInv'
<1>1. TypeOK'
  BY ReceiveVoteType DEF IInv
<1>2. /\ votes[v] \in Vote
      /\ votes[v].opinion \in Opinions \cup {"none", "pending"}
      /\ votes[v].before \in Opinions \cup {"none", "pending"}
  BY Elements DEF Vote, IInv
<1>3. PICK heard \in {"yes", "no"} : votes' = [votes EXCEPT ![v].heard = heard]
  BY DEF ReceiveVote, GiveUpVote
<1> DEFINE w == [votes[v] EXCEPT !.heard = heard]
<1>4. w.answer = votes[v].answer
  BY <1>2 DEF Vote
<1>5. votes' = [votes EXCEPT ![v] = w]
  BY <1>3
<1>6. VotesSound(votes', attempts, store)
  <2> HIDE DEF w
  <2> QED BY <1>4, <1>5, VoteKept
<1> QED BY <1>1, <1>2, <1>6, ShownKeeps DEF ReceiveVote, GiveUpVote

LEMMA RefreshKeeps ==
  ASSUME IInv, NEW v \in DOMAIN votes, RefreshAndAccept(v)
  PROVE  IInv'
<1>1. TypeOK'
  BY RefreshType
<1>2. PICK pc \in {"accepted", "ended"} : votes' = [votes EXCEPT ![v].pc = pc]
  BY DEF RefreshAndAccept
<1> DEFINE w == [votes[v] EXCEPT !.pc = pc]
<1>3. w.answer = votes[v].answer
  BY Elements DEF Vote, IInv
<1>4. votes' = [votes EXCEPT ![v] = w]
  BY <1>2
<1>5. VotesSound(votes', attempts, store)
  <2> HIDE DEF w
  <2> QED BY <1>3, <1>4, VoteKept
<1>6. UNCHANGED <<messages, backendId, busy, saved, attempts, store>>
  BY DEF RefreshAndAccept, browser
<1>7. BusyLast'
  BY <1>6 DEF IInv, BusyLast
<1>8. Goes(attempts, store, attempts', store')
  BY <1>6 DEF Goes
<1> QED BY <1>1, <1>5, <1>6, <1>7, <1>8, Together DEF IInv

LEMMA RecordKeeps ==
  ASSUME IInv, NEW v \in DOMAIN votes, RecordVote(v)
  PROVE  IInv'
<1> DEFINE c == attempts[votes[v].answer].conversation
           w == [votes[v] EXCEPT !.pc = "recorded"]
           r == Voted(store[c], votes[v].answer, votes[v].opinion)
<1>1. TypeOK'
  BY RecordType
<1>2. c \in Conversations /\ votes[v] \in Vote
  BY Elements DEF IInv, VotesSound, Settled
<1>3. votes' = [votes EXCEPT ![v] = w] /\ w.answer = votes[v].answer
  BY <1>2 DEF RecordVote, Vote
<1>4. /\ DOMAIN r = DOMAIN store[c]
      /\ \A n \in DOMAIN store[c] : r[n].answer = store[c][n].answer
  BY <1>2, Elements, VotedType DEF Vote, IInv
<1>5. store'[c] = r /\ \A d \in Conversations \ {c} : store'[d] = store[d]
  <2>1. store' = [store EXCEPT ![c] = r]
    BY DEF RecordVote, Voted
  <2> HIDE DEF r
  <2> QED BY <1>2, <2>1, MemoryType DEF IInv
<1> HIDE DEF r, w
<1>6. \A d \in Conversations :
        /\ DOMAIN store'[d] = DOMAIN store[d]
        /\ \A n \in DOMAIN store[d] : store'[d][n].answer = store[d][n].answer
  BY <1>4, <1>5
<1>7. \A d \in Conversations : \A i : Once(store[d], i) => Once(store'[d], i)
  BY <1>6, OnceKept
<1>8. UNCHANGED <<messages, backendId, busy, saved, attempts>>
  BY DEF RecordVote, browser
<1>9. Goes(attempts, store, attempts, store')
  BY <1>7 DEF Goes, Settled
<1>10. EventsSound(attempts, store')
  BY <1>9 DEF IInv, EventsSound, Goes
<1>11. StoreSound(attempts, store')
  BY <1>6, <1>7 DEF IInv, StoreSound, AttemptsNamed
<1>12. PageSound(messages, backendId, attempts, store')
  BY <1>9, PageGoes DEF IInv
<1>13. BusyLast'
  BY <1>8 DEF IInv, BusyLast
<1>14. VotesSound(votes', attempts, store')
  <2>1. /\ DOMAIN votes' = DOMAIN votes
        /\ \A u \in DOMAIN votes : votes'[u].answer = votes[u].answer
    BY <1>3, VoteKept
  <2> QED BY <2>1, <1>9, VotesGo DEF IInv
<1> QED BY <1>1, <1>8, <1>9, <1>10, <1>11, <1>12, <1>13, <1>14, Together DEF IInv

-----------------------------------------------------------------------------
(* The invariant holds throughout *)

LEMMA InitIInv == Init => IInv
<1> SUFFICES ASSUME Init PROVE IInv
  OBVIOUS
<1>1. TypeOK
  BY InitType
<1>2. DOMAIN <<>> = {}
  BY SMT
<1> QED BY <1>1, <1>2 DEF Init, IInv, AttemptsNamed, EventsSound, StoreSound, PageSound,
                          BusyLast, VotesSound

LEMMA StepIInv == IInv /\ [Next]_vars => IInv'
<1> SUFFICES ASSUME IInv, [Next]_vars PROVE IInv'
  OBVIOUS
<1>1. CASE Ask
  BY <1>1, AskKeeps
<1>2. CASE Receive
  BY <1>2, StartedKeeps, CompletedKeeps, FailedKeeps, StopKeeps DEF Receive
<1>3. CASE Save
  BY <1>3, SaveKeeps
<1>4. CASE Reload
  BY <1>4, ReloadKeeps
<1>5. CASE Crash
  BY <1>5, CrashKeeps
<1>6. CASE \E k \in DOMAIN messages : Retry(k) \/ SendVote(k)
  BY <1>6, RetryKeeps, SendVoteKeeps
<1>7. CASE \E i \in DOMAIN attempts : Stream(i)
  BY <1>7, BeginKeeps, EndsKeeps, FinishKeeps, DeliverKeeps DEF Stream
<1>8. CASE \E v \in DOMAIN votes : HandleVote(v)
  BY <1>8, RecordKeeps, RefreshKeeps, HeardKeeps DEF HandleVote
<1>9. CASE UNCHANGED vars
  <2>1. UNCHANGED <<messages, backendId, busy, saved, attempts, store, loaded, turns, votes, faults>>
    BY <1>9 DEF vars
  <2>2. TypeOK'
    BY <2>1 DEF IInv, TypeOK
  <2>3. /\ PageSound(messages', backendId', attempts', store')
        /\ PageSound(saved.messages', saved.backendId', attempts', store')
    BY <2>1 DEF IInv
  <2>4. /\ AttemptsNamed(attempts') /\ EventsSound(attempts', store')
        /\ StoreSound(attempts', store') /\ VotesSound(votes', attempts', store')
    BY <2>1 DEF IInv
  <2>5. BusyLast'
    BY <2>1 DEF IInv, BusyLast
  <2> QED BY <2>2, <2>3, <2>4, <2>5 DEF IInv
<1> QED BY <1>1, <1>2, <1>3, <1>4, <1>5, <1>6, <1>7, <1>8, <1>9 DEF Next

LEMMA Invariance == Spec => []IInv
BY InitIInv, StepIInv, PTL DEF Spec

-----------------------------------------------------------------------------
(* The memory and the store.  A vote that is recorded and not yet refreshed*)
(* accounts for a memory that is behind.                                   *)

Pending(c) ==
  \E v \in DOMAIN votes :
    votes[v].pc = "recorded" /\ attempts[votes[v].answer].conversation = c

\* The memory follows the store of conversation c.
Follows(c) == turns[c] = Recent(store[c]) \/ Pending(c)

LEMMA FollowsMeans == MemoryFollowsStore <=> \A c \in loaded : Follows(c)
BY DEF MemoryFollowsStore, Follows, Pending

\* The recorded votes for answers outside d are recorded in the next state too,
\* for answers of the same conversation.
VotesWait(d) ==
  \A v \in DOMAIN votes :
    votes[v].pc = "recorded" /\ attempts[votes[v].answer].conversation \notin d =>
      /\ v \in DOMAIN votes'
      /\ votes'[v].pc = "recorded"
      /\ votes'[v].answer = votes[v].answer
      /\ attempts'[votes[v].answer].conversation = attempts[votes[v].answer].conversation

\* Only the conversations in d are touched, and the memory follows those.
LEMMA FollowsElsewhere ==
  ASSUME \A c \in loaded : Follows(c), NEW d, VotesWait(d),
         \A c \in loaded' \ d : c \in loaded /\ turns'[c] = turns[c] /\ store'[c] = store[c],
         \A c \in loaded' \cap d : Follows(c)'
  PROVE  \A c \in loaded' : Follows(c)'
<1> SUFFICES ASSUME NEW c \in loaded', c \notin d PROVE Follows(c)'
  OBVIOUS
<1>1. c \in loaded /\ turns'[c] = turns[c] /\ store'[c] = store[c]
  OBVIOUS
<1>2. CASE turns[c] = Recent(store[c])
  BY <1>1, <1>2 DEF Follows
<1>3. CASE Pending(c)
  BY <1>3 DEF Follows, Pending, VotesWait
<1> QED BY <1>1, <1>2, <1>3 DEF Follows

\* A step that leaves the store, the memory, the votes' progress and the
\* conversations of the attempts alone.
LEMMA FollowsStill ==
  ASSUME IInv, \A c \in loaded : Follows(c), UNCHANGED <<store, memory>>,
         \A j \in DOMAIN attempts : attempts'[j].conversation = attempts[j].conversation,
         \A v \in DOMAIN votes :
           /\ v \in DOMAIN votes'
           /\ votes'[v].pc = votes[v].pc
           /\ votes'[v].answer = votes[v].answer
  PROVE  \A c \in loaded' : Follows(c)'
<1>1. VotesWait({})
  BY DEF VotesWait, IInv, VotesSound, Settled
<1> QED BY <1>1, FollowsElsewhere DEF memory

\* The attempt that changes stays in its conversation.
LEMMA FollowsOne ==
  ASSUME IInv, \A c \in loaded : Follows(c), NEW i, NEW x,
         attempts' = [attempts EXCEPT ![i] = x], i \in DOMAIN attempts => x.conversation = attempts[i].conversation,
         UNCHANGED <<store, memory, votes>>
  PROVE  \A c \in loaded' : Follows(c)'
<1>1. \A j \in DOMAIN attempts : attempts'[j] = IF j = i THEN x ELSE attempts[j]
  OBVIOUS
<1>2. \A j \in DOMAIN attempts : attempts'[j].conversation = attempts[j].conversation
  BY <1>1
<1> QED BY <1>2, FollowsStill

LEMMA FollowsOpen ==
  ASSUME IInv, \A c \in loaded : Follows(c), NEW k, NEW c, Open(k, c)
  PROVE  \A d \in loaded' : Follows(d)'
<1>1. ASSUME NEW s \in Seq(Attempt), NEW y
      PROVE  \A j \in DOMAIN s : Append(s, y)[j] = s[j]
  BY SMT
<1>2. attempts \in Seq(Attempt)
  BY DEF IInv, TypeOK
<1>3. \A j \in DOMAIN attempts : attempts'[j] = attempts[j]
  BY <1>1, <1>2 DEF Open
<1> QED BY <1>3, FollowsStill DEF Open

LEMMA FollowsReceive ==
  ASSUME IInv, \A c \in loaded : Follows(c), Receive
  PROVE  \A c \in loaded' : Follows(c)'
<1>1. PICK events : attempts' = [attempts EXCEPT ![busy].events = events]
  BY DEF Receive, ReceiveStarted, ReceiveCompleted, ReceiveFailed, StopReading, Arrives
<1> DEFINE x == [attempts[busy] EXCEPT !.events = events]
<1>2. busy \in DOMAIN attempts => x.conversation = attempts[busy].conversation
  BY Elements DEF Attempt, IInv
<1>3. attempts' = [attempts EXCEPT ![busy] = x]
  BY <1>1
<1>4. UNCHANGED <<store, memory, votes>>
  BY DEF Receive, ReceiveStarted, ReceiveCompleted, ReceiveFailed, StopReading
<1> HIDE DEF x
<1> QED BY <1>2, <1>3, <1>4, FollowsOne

LEMMA FollowsReload ==
  ASSUME IInv, \A c \in loaded : Follows(c), Reload
  PROVE  \A c \in loaded' : Follows(c)'
<1>1. \A y \in Attempt : [y EXCEPT !.events = <<>>].conversation = y.conversation
  BY DEF Attempt
<1>2. \A w \in Vote : LET z == [w EXCEPT !.heard = IF @ = "waiting" THEN "no" ELSE @]
                      IN  z.pc = w.pc /\ z.answer = w.answer
  BY DEF Vote
<1>3. \A j \in DOMAIN attempts : attempts'[j].conversation = attempts[j].conversation
  BY <1>1, Elements DEF Reload, IInv
<1>4. \A v \in DOMAIN votes :
        v \in DOMAIN votes' /\ votes'[v].pc = votes[v].pc /\ votes'[v].answer = votes[v].answer
  BY <1>2, Elements DEF Reload, IInv
<1> QED BY <1>3, <1>4, FollowsStill DEF Reload

\* The stream that begins loads the conversation, if it is not loaded.
LEMMA FollowsBegin ==
  ASSUME IInv, \A c \in loaded : Follows(c), NEW i \in DOMAIN attempts, Begin(i)
  PROVE  \A c \in loaded' : Follows(c)'
<1>1. PICK c \in Conversations : c = IF attempts[i].payload # None THEN attempts[i].payload ELSE i
  BY BeginsIn DEF IInv
<1>2. loaded' = loaded \cup {c} /\ turns' = [turns EXCEPT ![c] = Remembered(c)]
  BY <1>1 DEF Begin, Remember
<1>3. store' = store /\ votes' = votes
  BY DEF Begin
<1>4. \A j \in DOMAIN attempts : j # i => attempts'[j] = attempts[j]
  BY DEF Begin
<1>5. \A v \in DOMAIN votes : votes[v].answer \in DOMAIN attempts /\ votes[v].answer # i
  BY DEF IInv, VotesSound, Settled, Begin
<1>6. VotesWait({c})
  BY <1>3, <1>4, <1>5 DEF VotesWait
<1>7. turns \in [Conversations -> Seq(Exchange)]
  BY DEF IInv, TypeOK
<1>8. \A d \in loaded' \ {c} : d \in loaded /\ turns'[d] = turns[d] /\ store'[d] = store[d]
  BY <1>2, <1>3, <1>7
<1>9. Follows(c)'
  <2>1. turns'[c] = Remembered(c)
    BY <1>1, <1>2, <1>7
  <2>2. CASE c \in loaded
    <3>1. turns'[c] = turns[c]
      BY <2>1, <2>2 DEF Remembered
    <3>2. Pending(c) => Pending(c)'
      BY <1>3, <1>4, <1>5 DEF Pending
    <3> QED BY <2>2, <3>1, <3>2, <1>3 DEF Follows
  <2>3. CASE c \notin loaded
    BY <2>1, <2>3, <1>3 DEF Remembered, Follows
  <2> QED BY <2>2, <2>3
<1> QED BY <1>6, <1>8, <1>9, FollowsElsewhere

\* The exchange that is stored is remembered too.
LEMMA FollowsFinish ==
  ASSUME IInv, \A c \in loaded : Follows(c), NEW i \in DOMAIN attempts, Finish(i)
  PROVE  \A c \in loaded' : Follows(c)'
<1> DEFINE e == [answer |-> i, opinion |-> "none"]
           x == [attempts[i] EXCEPT !.pc = "stored", !.history = <<>>]
<1>1. PICK c \in Conversations : c = attempts[i].conversation
  BY DEF Finish, IInv, AttemptsNamed
<1>2. e \in Exchange
  BY Elements DEF Exchange, IInv
<1>3. /\ loaded' = loaded \cup {c}
      /\ turns' = [turns EXCEPT ![c] = Recent(Append(Remembered(c), e))]
      /\ store' = [store EXCEPT ![c] = Append(store[c], e)]
      /\ votes' = votes
  BY <1>1 DEF Finish, Remember
<1>4. \A j \in DOMAIN attempts : attempts'[j].conversation = attempts[j].conversation
  <2>1. x.conversation = attempts[i].conversation
    BY Elements DEF Attempt, IInv
  <2>2. \A j \in DOMAIN attempts : attempts'[j] = IF j = i THEN x ELSE attempts[j]
    BY DEF Finish
  <2> HIDE DEF x
  <2> QED BY <2>1, <2>2
<1>5. \A v \in DOMAIN votes : votes[v].answer \in DOMAIN attempts
  BY DEF IInv, VotesSound, Settled
<1>6. VotesWait({c})
  BY <1>3, <1>4, <1>5 DEF VotesWait
<1>7. /\ turns \in [Conversations -> Seq(Exchange)] /\ store \in [Conversations -> Seq(Exchange)]
  BY DEF IInv, TypeOK
<1> HIDE DEF e, x
<1>8. \A d \in loaded' \ {c} : d \in loaded /\ turns'[d] = turns[d] /\ store'[d] = store[d]
  BY <1>3, <1>7
<1>9. Follows(c)'
  <2>1. turns'[c] = Recent(Append(Remembered(c), e)) /\ store'[c] = Append(store[c], e)
    BY <1>1, <1>3, <1>7
  <2>2. CASE Remembered(c) = Recent(store[c])
    <3>1. turns'[c] = Recent(store'[c])
      BY <1>1, <1>2, <1>7, <2>1, <2>2, RecentAppend
    <3> QED BY <3>1 DEF Follows
  <2>3. CASE c \in loaded /\ Pending(c)
    <3>1. Pending(c)'
      BY <2>3, <1>3, <1>4, <1>5 DEF Pending
    <3> QED BY <3>1 DEF Follows
  <2> QED BY <2>2, <2>3 DEF Remembered, Follows
<1> QED BY <1>6, <1>8, <1>9, FollowsElsewhere

\* The other streams' steps leave the memory as it is.
LEMMA FollowsEnd ==
  ASSUME IInv, \A c \in loaded : Follows(c), NEW i \in DOMAIN attempts,
         Fail(i) \/ BreakOff(i) \/ NoticeDisconnect(i) \/ Deliver(i)
  PROVE  \A c \in loaded' : Follows(c)'
<1>1. CASE Deliver(i)
  <2> DEFINE x == [attempts[i] EXCEPT !.pc = "ended", !.events = Sent(i, "run_completed")]
  <2>1. x.conversation = attempts[i].conversation
    BY Elements DEF Attempt, IInv
  <2>2. attempts' = [attempts EXCEPT ![i] = x] /\ UNCHANGED <<store, memory, votes>>
    BY <1>1 DEF Deliver
  <2> HIDE DEF x
  <2> QED BY <2>1, <2>2, FollowsOne
<1>2. CASE Fail(i) \/ BreakOff(i) \/ NoticeDisconnect(i)
  <2>1. PICK events : Stopped(i, events)
    BY <1>2 DEF Fail, BreakOff, NoticeDisconnect
  <2> DEFINE x == [attempts[i] EXCEPT !.pc = "ended", !.history = <<>>, !.events = events]
  <2>2. x.conversation = attempts[i].conversation
    BY Elements DEF Attempt, IInv
  <2>3. attempts' = [attempts EXCEPT ![i] = x] /\ UNCHANGED <<store, memory, votes>>
    BY <2>1 DEF Stopped
  <2> HIDE DEF x
  <2> QED BY <2>2, <2>3, FollowsOne
<1> QED BY <1>1, <1>2

LEMMA FollowsSendVote ==
  ASSUME IInv, \A c \in loaded : Follows(c), NEW k, SendVote(k)
  PROVE  \A c \in loaded' : Follows(c)'
<1>1. PICK w : votes' = Append(votes, w)
  BY DEF SendVote
<1>2. ASSUME NEW s \in Seq(Vote)
      PROVE  \A v \in DOMAIN s : v \in DOMAIN Append(s, w) /\ Append(s, w)[v] = s[v]
  BY SMT
<1>3. \A v \in DOMAIN votes : v \in DOMAIN votes' /\ votes'[v] = votes[v]
  BY <1>1, <1>2 DEF IInv, TypeOK
<1> QED BY <1>3, FollowsStill DEF SendVote

LEMMA FollowsHeard ==
  ASSUME IInv, \A c \in loaded : Follows(c), NEW v \in DOMAIN votes, ReceiveVote(v) \/ GiveUpVote(v)
  PROVE  \A c \in loaded' : Follows(c)'
<1>1. PICK heard : votes' = [votes EXCEPT ![v].heard = heard]
  BY DEF ReceiveVote, GiveUpVote
<1> DEFINE w == [votes[v] EXCEPT !.heard = heard]
<1>2. w.pc = votes[v].pc /\ w.answer = votes[v].answer
  BY Elements DEF Vote, IInv
<1>3. /\ DOMAIN votes' = DOMAIN votes
      /\ \A u \in DOMAIN votes : votes'[u] = IF u = v THEN w ELSE votes[u]
  BY <1>1
<1> HIDE DEF w
<1>4. \A u \in DOMAIN votes : votes'[u].pc = votes[u].pc /\ votes'[u].answer = votes[u].answer
  BY <1>2, <1>3
<1> QED BY <1>3, <1>4, FollowsStill DEF ReceiveVote, GiveUpVote

\* A recorded vote accounts for the memory until it is refreshed.
LEMMA FollowsRecord ==
  ASSUME IInv, \A c \in loaded : Follows(c), NEW v \in DOMAIN votes, RecordVote(v)
  PROVE  \A c \in loaded' : Follows(c)'
<1> DEFINE w == [votes[v] EXCEPT !.pc = "recorded"]
<1>1. PICK c \in Conversations : c = attempts[votes[v].answer].conversation
  BY DEF IInv, VotesSound, Settled
<1>2. w.pc = "recorded" /\ w.answer = votes[v].answer
  BY Elements DEF Vote, IInv
<1>3. /\ DOMAIN votes' = DOMAIN votes
      /\ \A u \in DOMAIN votes : votes'[u] = IF u = v THEN w ELSE votes[u]
      /\ attempts' = attempts /\ UNCHANGED memory
  BY DEF RecordVote
<1>4. \A d \in Conversations \ {c} : store'[d] = store[d]
  BY <1>1, MemoryType DEF RecordVote, IInv
<1>5. loaded \subseteq Conversations
  BY DEF IInv, TypeOK
<1>6. VotesWait({c})
  BY <1>1, <1>3 DEF VotesWait
<1>7. \A d \in loaded' \ {c} : d \in loaded /\ turns'[d] = turns[d] /\ store'[d] = store[d]
  BY <1>3, <1>4, <1>5 DEF memory
<1>8. Follows(c)'
  BY <1>1, <1>2, <1>3 DEF Follows, Pending
<1> QED BY <1>6, <1>7, <1>8, FollowsElsewhere

LEMMA FollowsRefresh ==
  ASSUME IInv, \A c \in loaded : Follows(c), NEW v \in DOMAIN votes, RefreshAndAccept(v)
  PROVE  \A c \in loaded' : Follows(c)'
<1>1. PICK c \in Conversations : c = attempts[votes[v].answer].conversation
  BY DEF IInv, VotesSound, Settled
<1>2. turns \in [Conversations -> Seq(Exchange)]
  BY DEF IInv, TypeOK
<1>3. PICK pc : votes' = [votes EXCEPT ![v].pc = pc]
  BY DEF RefreshAndAccept
<1>4. /\ DOMAIN votes' = DOMAIN votes
      /\ \A u \in DOMAIN votes : u # v => votes'[u] = votes[u]
      /\ attempts' = attempts /\ store' = store
  BY <1>3 DEF RefreshAndAccept
<1>5. VotesWait({c})
  BY <1>1, <1>4 DEF VotesWait
<1>6. CASE Reread(c)
  <2>1. loaded' = loaded \cup {c} /\ turns' = [turns EXCEPT ![c] = Recent(store[c])]
    BY <1>6 DEF Reread, Remember
  <2>2. \A d \in loaded' \ {c} : d \in loaded /\ turns'[d] = turns[d] /\ store'[d] = store[d]
    BY <2>1, <1>2, <1>4
  <2>3. Follows(c)'
    BY <2>1, <1>2, <1>4 DEF Follows
  <2> QED BY <1>5, <2>2, <2>3, FollowsElsewhere
<1>7. CASE Forget(c)
  <2>1. loaded' = loaded \ {c} /\ turns' = [turns EXCEPT ![c] = <<>>]
    BY <1>7 DEF Forget
  <2>2. \A d \in loaded' \ {c} : d \in loaded /\ turns'[d] = turns[d] /\ store'[d] = store[d]
    BY <2>1, <1>2, <1>4
  <2> QED BY <1>5, <2>1, <2>2, FollowsElsewhere
<1> QED BY <1>1, <1>6, <1>7 DEF RefreshAndAccept

LEMMA StepFollows ==
  IInv /\ MemoryFollowsStore /\ [Next]_vars => MemoryFollowsStore'
<1> SUFFICES ASSUME IInv, \A c \in loaded : Follows(c), [Next]_vars
             PROVE  \A c \in loaded' : Follows(c)'
  BY FollowsMeans DEF MemoryFollowsStore, Follows, Pending
<1>1. CASE Ask \/ \E k \in DOMAIN messages : Retry(k)
  BY <1>1, FollowsOpen DEF Ask, Retry
<1>2. CASE Receive
  BY <1>2, FollowsReceive
<1>3. CASE Save
  BY <1>3, FollowsStill DEF Save
<1>4. CASE Reload
  BY <1>4, FollowsReload
<1>5. CASE Crash
  BY <1>5 DEF Crash
<1>6. CASE \E k \in DOMAIN messages : SendVote(k)
  BY <1>6, FollowsSendVote
<1>7. CASE \E i \in DOMAIN attempts : Stream(i)
  BY <1>7, FollowsBegin, FollowsFinish, FollowsEnd DEF Stream
<1>8. CASE \E v \in DOMAIN votes : HandleVote(v)
  BY <1>8, FollowsRecord, FollowsRefresh, FollowsHeard DEF HandleVote
<1>9. CASE UNCHANGED vars
  BY <1>9, FollowsStill DEF vars, memory
<1> QED BY <1>1, <1>2, <1>3, <1>4, <1>5, <1>6, <1>7, <1>8, <1>9 DEF Next

-----------------------------------------------------------------------------
(* The theorems *)

\* Messages, requests, exchanges and votes stay what they are declared to be,
\* and a request stays within the bounds.
THEOREM SessionTypeCorrect == Spec => []TypeOK
<1>1. IInv => TypeOK
  BY DEF IInv
<1> QED BY <1>1, Invariance, PTL

\* An answer the page shows as complete is in the store exactly once, in the
\* conversation the page goes on with, after any retries, lost events, restarts
\* and reloads, for any number of questions and any size of the memory.
THEOREM AnswersAreKept == Spec => []AnswersKept
<1>1. ASSUME IInv PROVE AnswersKept
  <2>1. OneConversation
    BY <1>1 DEF OneConversation, Answered, ConversationOf, IInv, PageSound
  <2>2. AnswerDurable
    <3> SUFFICES ASSUME NEW k \in Answered
                 PROVE  /\ attempts[messages[k].answer].message = k
                        /\ Cardinality({n \in DOMAIN store[ConversationOf(messages[k])] :
                             store[ConversationOf(messages[k])][n].answer = messages[k].answer}) = 1
      BY DEF AnswerDurable
    <3> DEFINE exchanges == store[ConversationOf(messages[k])]
    <3>1. /\ attempts[messages[k].answer].message = k
          /\ Once(exchanges, messages[k].answer)
      BY <1>1 DEF Answered, ConversationOf, IInv, PageSound, Settled
    <3>2. PICK n \in DOMAIN exchanges :
            \A m \in DOMAIN exchanges : exchanges[m].answer = messages[k].answer <=> m = n
      BY <3>1 DEF Once
    <3>3. {m \in DOMAIN exchanges : exchanges[m].answer = messages[k].answer} = {n}
      BY <3>2
    <3>4. Cardinality({n}) = 1
      BY FS_Singleton
    <3> QED BY <3>1, <3>3, <3>4
  <2> QED BY <2>1, <2>2 DEF AnswersKept
<1> QED BY <1>1, Invariance, PTL

\* What the memory has loaded of a conversation is the newest part of the store,
\* whatever ran, failed or voted at the same time, but for the moment between
\* the record of a vote and the refresh that follows it.
THEOREM MemoryKeepsUp == Spec => []MemoryFollowsStore
<1>1. Init => MemoryFollowsStore
  BY DEF Init, MemoryFollowsStore
<1> QED BY <1>1, Invariance, StepFollows, PTL DEF Spec

-----------------------------------------------------------------------------
(* The votes.  The parts of the invariant take the votes w, the page, the  *)
(* attempts a and the store s as arguments.                                *)

\* The page shows the vote that waits for its answer as pending.
WaitingShown(w, page) ==
  \A v \in DOMAIN w : w[v].heard = "waiting" =>
    /\ w[v].message \in DOMAIN page
    /\ page[w[v].message].status = "done"
    /\ page[w[v].message].answer = w[v].answer
    /\ page[w[v].message].feedback = "pending"

\* Only the last vote for an answer waits.
OneWaiting(w) ==
  \A u, v \in DOMAIN w : u < v /\ w[u].answer = w[v].answer => w[u].heard # "waiting"

\* The page was told yes for votes that were accepted only.
HeardAccepted(w) == \A v \in DOMAIN w : w[v].heard = "yes" => w[v].pc = "accepted"

\* A vote with this opinion was heard as saved for the answer.
Heard(w, answer, opinion) ==
  \E v \in DOMAIN w : w[v].heard = "yes" /\ w[v].answer = answer /\ w[v].opinion = opinion

\* A page shows votes on complete answers only, and those that were heard as saved.
PageVoted(page, w) ==
  \A k \in DOMAIN page :
    /\ page[k].feedback # "none" => page[k].status = "done"
    /\ page[k].feedback \in Opinions => Heard(w, page[k].answer, page[k].feedback)

\* So was the vote that is shown again when a vote is given up.
BeforeHeard(w) ==
  \A v \in DOMAIN w : w[v].before \in Opinions => Heard(w, w[v].answer, w[v].before)

\* The store says what the vote says.
Says(vote, a, s) ==
  \E n \in DOMAIN s[a[vote.answer].conversation] :
    s[a[vote.answer].conversation][n] = [answer |-> vote.answer, opinion |-> vote.opinion]

\* Every vote for the same answer after u has yet to be recorded.
LaterUnsent(w, u) ==
  \A v \in DOMAIN w : w[v].answer = w[u].answer /\ u < v => w[v].pc = "sent"

\* The store says what vote u says, and it was heard as saved only if no later
\* vote for its answer was recorded.
Stands(w, u, a, s) ==
  /\ w[u].pc # "sent"
  /\ Says(w[u], a, s)
  /\ w[u].heard = "yes" => LaterUnsent(w, u)

\* An answer a vote was recorded for has a vote that stands.
StoreSays(w, a, s) ==
  \A v \in DOMAIN w : w[v].pc # "sent" =>
    \E u \in DOMAIN w : w[u].answer = w[v].answer /\ Stands(w, u, a, s)

VInv ==
  /\ WaitingShown(votes, messages)
  /\ OneWaiting(votes)
  /\ HeardAccepted(votes)
  /\ BeforeHeard(votes)
  /\ PageVoted(messages, votes)
  /\ PageVoted(saved.messages, votes)
  /\ StoreSays(votes, attempts, store)

\* The votes z are the votes w, with one more message heard or step taken.
SameVotes(w, z) ==
  /\ DOMAIN z = DOMAIN w
  /\ \A v \in DOMAIN w :
       /\ z[v].answer = w[v].answer /\ z[v].message = w[v].message
       /\ z[v].opinion = w[v].opinion /\ z[v].before = w[v].before

\* No vote of z waits that did not wait in w, and those that were heard as saved
\* or are unsent are the same.
NoMore(w, z) ==
  /\ SameVotes(w, z)
  /\ \A v \in DOMAIN w :
       /\ z[v].heard = "waiting" => w[v].heard = "waiting"
       /\ z[v].heard = "yes" <=> w[v].heard = "yes"
       /\ z[v].pc = "sent" <=> w[v].pc = "sent"

\* What the attempts and the store say of a settled answer is kept.
Kept(a, s, b, t) ==
  /\ \A i \in DOMAIN a : a[i].pc = "ended" => b[i].conversation = a[i].conversation
  /\ \A c \in Conversations : \A n \in DOMAIN s[c] : n \in DOMAIN t[c] /\ t[c][n] = s[c][n]

-----------------------------------------------------------------------------
(* Lemmas about the votes *)

\* The votes w are among the votes z, and those heard as saved still are.
StillHeard(w, z) ==
  \A v \in DOMAIN w :
    /\ v \in DOMAIN z /\ z[v].answer = w[v].answer /\ z[v].opinion = w[v].opinion
    /\ w[v].heard = "yes" => z[v].heard = "yes"

\* What a page shows was heard as long as the votes stay.
LEMMA VotedStays ==
  ASSUME NEW page, NEW w, NEW z, PageVoted(page, w), StillHeard(w, z)
  PROVE  PageVoted(page, z)
BY DEF PageVoted, Heard, StillHeard

\* So was the vote that is shown again.
LEMMA BeforeStays ==
  ASSUME NEW w, NEW z, SameVotes(w, z), StillHeard(w, z), BeforeHeard(w)
  PROVE  BeforeHeard(z)
BY DEF BeforeHeard, Heard, StillHeard, SameVotes

\* What is kept is still said.
LEMMA SaysKept ==
  ASSUME NEW vote, NEW a, NEW s, NEW b, NEW t, NEW new, Settled(a, s, vote.answer), Kept(a, s, b, t),
         new.answer = vote.answer, new.opinion = vote.opinion, Says(vote, a, s)
  PROVE  Says(new, b, t)
<1>1. /\ a[vote.answer].conversation \in Conversations
      /\ b[vote.answer].conversation = a[vote.answer].conversation
  BY DEF Settled, Kept
<1> QED BY <1>1 DEF Kept, Says

\* A vote that stands does so afterwards, if nothing more is recorded or heard.
LEMMA StandsKept ==
  ASSUME NEW w, NEW a, NEW s, NEW b, NEW t, NEW z, VotesSound(w, a, s), Kept(a, s, b, t),
         NoMore(w, z), StoreSays(w, a, s)
  PROVE  StoreSays(z, b, t)
<1> SUFFICES ASSUME NEW v \in DOMAIN w, z[v].pc # "sent"
             PROVE  \E u \in DOMAIN w : z[u].answer = z[v].answer /\ Stands(z, u, b, t)
  BY DEF StoreSays, NoMore, SameVotes
<1>1. w[v].pc # "sent"
  BY DEF NoMore
<1>2. PICK u \in DOMAIN w : w[u].answer = w[v].answer /\ Stands(w, u, a, s)
  BY <1>1 DEF StoreSays
<1>3. Says(z[u], b, t)
  BY <1>2, SaysKept DEF Stands, VotesSound, NoMore, SameVotes
<1>4. z[u].pc # "sent" /\ (z[u].heard = "yes" => LaterUnsent(z, u))
  BY <1>2 DEF Stands, LaterUnsent, NoMore, SameVotes
<1> QED BY <1>2, <1>3, <1>4 DEF Stands, NoMore, SameVotes

\* A step that brings no vote on keeps all, if the page still shows what waits.
LEMMA NoMoreKeeps ==
  ASSUME IInv, VInv, NoMore(votes, votes'), HeardAccepted(votes'),
         WaitingShown(votes', messages'),
         PageVoted(messages', votes), saved'.messages \in {saved.messages, messages},
         Kept(attempts, store, attempts', store')
  PROVE  VInv'
<1>1. OneWaiting(votes')
  BY DEF VInv, OneWaiting, NoMore, SameVotes
<1>2. StillHeard(votes, votes')
  BY DEF NoMore, SameVotes, StillHeard
<1>3. BeforeHeard(votes')
  BY <1>2, BeforeStays DEF VInv, NoMore
<1>4. PageVoted(messages', votes')
  BY <1>2, VotedStays
<1>5. PageVoted(saved'.messages, votes')
  BY <1>2, VotedStays DEF VInv
<1>6. StoreSays(votes', attempts', store')
  BY StandsKept DEF IInv, VInv
<1> QED BY <1>1, <1>3, <1>4, <1>5, <1>6 DEF VInv

\* Votes that stay as they are.
LEMMA VotesStill ==
  ASSUME NEW w
  PROVE  NoMore(w, w)
BY DEF NoMore, SameVotes

\* Attempts that change otherwise than in their conversation.
LEMMA KeptStill ==
  ASSUME NEW a, NEW s, NEW b,
         \A i \in DOMAIN a : a[i].pc = "ended" => b[i].conversation = a[i].conversation
  PROVE  Kept(a, s, b, s)
BY DEF Kept

\* The attempt that changes stays in its conversation, if it ended.
LEMMA KeptOne ==
  ASSUME NEW i, NEW x, attempts' = [attempts EXCEPT ![i] = x],
         i \in DOMAIN attempts /\ attempts[i].pc = "ended" => x.conversation = attempts[i].conversation
  PROVE  Kept(attempts, store, attempts', store)
<1>1. \A j \in DOMAIN attempts : attempts'[j] = IF j = i THEN x ELSE attempts[j]
  OBVIOUS
<1> QED BY <1>1 DEF Kept

-----------------------------------------------------------------------------
(* The steps that bring no vote on *)

\* A step that leaves the page and the votes alone.
LEMMA VInvQuiet ==
  ASSUME IInv, VInv, UNCHANGED <<messages, votes>>, saved'.messages \in {saved.messages, messages},
         Kept(attempts, store, attempts', store')
  PROVE  VInv'
<1>1. NoMore(votes, votes')
  BY VotesStill
<1> QED BY <1>1, NoMoreKeeps DEF VInv

\* A new request leaves the others as they are.
LEMMA VInvOpen ==
  ASSUME NEW k, NEW c, IInv, Open(k, c)
  PROVE  Kept(attempts, store, attempts', store')
<1>1. ASSUME NEW s \in Seq(Attempt), NEW y
      PROVE  \A j \in DOMAIN s : Append(s, y)[j] = s[j]
  BY SMT
<1>2. attempts \in Seq(Attempt)
  BY DEF IInv, TypeOK
<1>3. \A j \in DOMAIN attempts : attempts'[j] = attempts[j]
  BY <1>1, <1>2 DEF Open
<1> QED BY <1>3 DEF Open, Kept

LEMMA VInvAsk ==
  ASSUME IInv, VInv, Ask
  PROVE  VInv'
<1>1. Open(Len(messages) + 1, backendId)
  BY DEF Ask
<1>2. Kept(attempts, store, attempts', store') /\ votes' = votes /\ saved' = saved
  BY <1>1, VInvOpen DEF Open
<1> DEFINE m == [status |-> "streaming", payload |-> backendId, answer |-> None, feedback |-> "none"]
<1>3. messages' = Append(messages, m) /\ m.feedback = "none"
  BY DEF Ask
<1> HIDE DEF m
<1>4. messages \in Seq(Message)
  BY DEF IInv, TypeOK
<1>5. ASSUME NEW S, NEW s \in Seq(S)
      PROVE  /\ \A k \in DOMAIN s : k \in DOMAIN Append(s, m) /\ Append(s, m)[k] = s[k]
             /\ \A k \in DOMAIN Append(s, m) : Append(s, m)[k] = m \/ k \in DOMAIN s
  BY SMT
<1>6. /\ \A k \in DOMAIN messages : k \in DOMAIN messages' /\ messages'[k] = messages[k]
      /\ \A k \in DOMAIN messages' : messages'[k] = m \/ k \in DOMAIN messages
  BY <1>3, <1>4, <1>5
<1>7. WaitingShown(votes', messages')
  BY <1>2, <1>6 DEF VInv, WaitingShown
<1>8. PageVoted(messages', votes)
  BY <1>3, <1>6, OpinionsAssumption DEF VInv, PageVoted
<1>9. NoMore(votes, votes')
  BY <1>2, VotesStill
<1> QED BY <1>2, <1>7, <1>8, <1>9, NoMoreKeeps DEF VInv

\* A message that shows no vote changes, and shows none afterwards.
LEMMA VInvMessage ==
  ASSUME IInv, VInv, NEW k \in DOMAIN messages, messages[k].status # "done",
         NEW m, m.feedback = messages[k].feedback,
         messages' = [messages EXCEPT ![k] = m], votes' = votes, saved' = saved,
         Kept(attempts, store, attempts', store')
  PROVE  VInv'
<1>1. \A j \in DOMAIN messages : messages'[j] = IF j = k THEN m ELSE messages[j]
  OBVIOUS
<1>2. DOMAIN messages' = DOMAIN messages
  OBVIOUS
<1>3. m.feedback = "none"
  BY DEF VInv, PageVoted
<1>4. WaitingShown(votes', messages')
  BY <1>1, <1>2 DEF VInv, WaitingShown
<1>5. PageVoted(messages', votes)
  BY <1>1, <1>2, <1>3, OpinionsAssumption DEF VInv, PageVoted
<1>6. NoMore(votes, votes')
  BY VotesStill
<1> QED BY <1>4, <1>5, <1>6, NoMoreKeeps DEF VInv

LEMMA VInvRetry ==
  ASSUME IInv, VInv, NEW k \in DOMAIN messages, Retry(k)
  PROVE  VInv'
<1>1. Open(k, messages[k].payload)
  BY DEF Retry
<1>2. Kept(attempts, store, attempts', store') /\ votes' = votes /\ saved' = saved
  BY <1>1, VInvOpen DEF Open
<1> DEFINE m == [messages[k] EXCEPT !.status = "streaming", !.answer = None]
<1>3. messages' = [messages EXCEPT ![k] = m]
  BY DEF Retry
<1>4. m.feedback = messages[k].feedback
  BY Elements DEF IInv, Message
<1>5. messages[k].status # "done"
  BY DEF Retry, CanRetry
<1> HIDE DEF m
<1> QED BY <1>2, <1>3, <1>4, <1>5, VInvMessage

\* What the browser reads changes the events of the open stream only.
LEMMA VInvEvents ==
  ASSUME IInv, NEW events, attempts' = [attempts EXCEPT ![busy].events = events]
  PROVE  Kept(attempts, store, attempts', store)
<1> DEFINE x == [attempts[busy] EXCEPT !.events = events]
<1>1. busy \in DOMAIN attempts => x.conversation = attempts[busy].conversation
  BY Elements DEF Attempt, IInv
<1>2. attempts' = [attempts EXCEPT ![busy] = x]
  OBVIOUS
<1> HIDE DEF x
<1> QED BY <1>1, <1>2, KeptOne

\* The message that is answered streams.
LEMMA VInvBusy ==
  ASSUME IInv, busy # None
  PROVE  /\ attempts[busy].message \in DOMAIN messages
         /\ messages[attempts[busy].message] \in Message
         /\ messages[attempts[busy].message].status = "streaming"
<1>1. messages \in Seq(Message) /\ messages # <<>>
  BY PageType DEF IInv, BusyLast
<1>2. Len(messages) \in DOMAIN messages /\ messages[Len(messages)] \in Message
  BY <1>1, SMT
<1> QED BY <1>2 DEF IInv, BusyLast

LEMMA VInvReceive ==
  ASSUME IInv, VInv, Receive
  PROVE  VInv'
<1>1. PICK events : attempts' = [attempts EXCEPT ![busy].events = events]
  BY DEF Receive, ReceiveStarted, ReceiveCompleted, ReceiveFailed, StopReading, Arrives
<1>2. Kept(attempts, store, attempts', store') /\ votes' = votes /\ saved' = saved
  BY <1>1, VInvEvents DEF Receive, ReceiveStarted, ReceiveCompleted, ReceiveFailed, StopReading
<1>3. CASE ReceiveStarted
  BY <1>2, <1>3, VInvQuiet DEF ReceiveStarted
<1>4. CASE ReceiveCompleted
  <2> DEFINE k == attempts[busy].message
             m == [messages[k] EXCEPT !.status = "done", !.answer = busy]
  <2>1. k \in DOMAIN messages /\ messages[k] \in Message /\ messages[k].status # "done"
    BY <1>4, VInvBusy DEF ReceiveCompleted, Arrives
  <2>2. m.feedback = messages[k].feedback
    BY <2>1 DEF Message
  <2>3. messages' = [messages EXCEPT ![k] = m]
    BY <1>4 DEF ReceiveCompleted
  <2> HIDE DEF m, k
  <2> QED BY <1>2, <2>1, <2>2, <2>3, VInvMessage
<1>5. CASE ReceiveFailed \/ StopReading
  <2> DEFINE k == attempts[busy].message
             m == [messages[k] EXCEPT !.status = "failed"]
  <2>1. k \in DOMAIN messages /\ messages[k] \in Message /\ messages[k].status # "done"
    BY <1>5, VInvBusy DEF ReceiveFailed, StopReading, Arrives
  <2>2. m.feedback = messages[k].feedback
    BY <2>1 DEF Message
  <2>3. messages' = [messages EXCEPT ![k] = m]
    BY <1>5 DEF ReceiveFailed, StopReading
  <2> HIDE DEF m, k
  <2> QED BY <1>2, <2>1, <2>2, <2>3, VInvMessage
<1> QED BY <1>3, <1>4, <1>5 DEF Receive

LEMMA VInvSave ==
  ASSUME IInv, VInv, Save
  PROVE  VInv'
<1>1. UNCHANGED <<messages, votes, attempts, store>> /\ saved'.messages = messages
  BY DEF Save
<1>2. Kept(attempts, store, attempts', store')
  BY <1>1 DEF Kept
<1> QED BY <1>1, <1>2, VInvQuiet

\* No vote waits after a reload.
LEMMA VInvReload ==
  ASSUME IInv, VInv, Reload
  PROVE  VInv'
<1>1. \A y \in Attempt : [y EXCEPT !.events = <<>>].conversation = y.conversation
  BY DEF Attempt
<1>2. \A w \in Vote : LET z == [w EXCEPT !.heard = IF @ = "waiting" THEN "no" ELSE @]
                      IN  /\ z.pc = w.pc /\ z.answer = w.answer /\ z.message = w.message
                          /\ z.opinion = w.opinion /\ z.before = w.before
                          /\ z.heard # "waiting"
                          /\ z.heard = "yes" <=> w.heard = "yes"
  BY DEF Vote
<1>3. /\ DOMAIN votes' = DOMAIN votes
      /\ \A v \in DOMAIN votes :
           /\ votes'[v].pc = votes[v].pc /\ votes'[v].answer = votes[v].answer
           /\ votes'[v].message = votes[v].message /\ votes'[v].opinion = votes[v].opinion
           /\ votes'[v].before = votes[v].before
           /\ votes'[v].heard # "waiting"
           /\ votes'[v].heard = "yes" <=> votes[v].heard = "yes"
  BY <1>2, Elements DEF Reload, IInv
<1>4. NoMore(votes, votes')
  BY <1>3 DEF NoMore, SameVotes
<1>5. Kept(attempts, store, attempts', store')
  BY <1>1, Elements, KeptStill DEF Reload, IInv
<1>6. WaitingShown(votes', messages') /\ HeardAccepted(votes')
  BY <1>3 DEF WaitingShown, HeardAccepted, VInv
<1>7. ASSUME NEW m \in Message
      PROVE  /\ Restored(m).answer = m.answer
             /\ m.status = "done" => Restored(m).status = "done"
             /\ Restored(m).feedback # "none" => m.feedback # "none"
             /\ Restored(m).feedback \in Opinions => Restored(m).feedback = m.feedback
  BY OpinionsAssumption DEF Message, Restored
<1>8. PageVoted(messages', votes)
  <2>1. \A k \in DOMAIN saved.messages : saved.messages[k] \in Message
    <3>1. saved.messages \in Seq(Message)
      BY Elements DEF IInv
    <3> QED BY <3>1, SMT
  <2>2. DOMAIN messages' = DOMAIN saved.messages
        /\ \A k \in DOMAIN saved.messages : messages'[k] = Restored(saved.messages[k])
    BY DEF Reload
  <2> QED BY <2>1, <2>2, <1>7 DEF VInv, PageVoted
<1>9. saved'.messages = saved.messages
  BY DEF Reload
<1> QED BY <1>4, <1>5, <1>6, <1>8, <1>9, NoMoreKeeps

LEMMA VInvCrash ==
  ASSUME IInv, VInv, Crash
  PROVE  VInv'
<1>1. \A y \in Attempt :
        [y EXCEPT !.pc = IF @ = "sent" THEN @ ELSE "ended", !.history = <<>>].conversation = y.conversation
  BY DEF Attempt
<1>2. \A w \in Vote : LET z == [w EXCEPT !.pc = IF @ = "recorded" THEN "ended" ELSE @]
                      IN  /\ z.heard = w.heard /\ z.answer = w.answer /\ z.message = w.message
                          /\ z.opinion = w.opinion /\ z.before = w.before
                          /\ z.pc = (IF w.pc = "recorded" THEN "ended" ELSE w.pc)
  BY DEF Vote
<1>3. /\ DOMAIN votes' = DOMAIN votes
      /\ \A v \in DOMAIN votes :
           /\ votes'[v].heard = votes[v].heard /\ votes'[v].answer = votes[v].answer
           /\ votes'[v].message = votes[v].message /\ votes'[v].opinion = votes[v].opinion
           /\ votes'[v].before = votes[v].before
           /\ votes'[v].pc = (IF votes[v].pc = "recorded" THEN "ended" ELSE votes[v].pc)
  BY <1>2, Elements DEF Crash, IInv
<1>4. NoMore(votes, votes')
  BY <1>3 DEF NoMore, SameVotes
<1>5. store' = store /\ messages' = messages /\ saved' = saved
  BY DEF Crash, browser
<1>6. Kept(attempts, store, attempts', store')
  <2>1. \A i \in DOMAIN attempts : attempts[i] \in Attempt
    BY Elements DEF IInv
  <2>2. \A i \in DOMAIN attempts :
          attempts'[i] = [attempts[i] EXCEPT !.pc = IF @ = "sent" THEN @ ELSE "ended", !.history = <<>>]
    BY DEF Crash
  <2>3. \A i \in DOMAIN attempts : attempts'[i].conversation = attempts[i].conversation
    BY <1>1, <2>1, <2>2
  <2> QED BY <1>5, <2>3, KeptStill
<1>7. WaitingShown(votes', messages') /\ HeardAccepted(votes')
  BY <1>3, <1>5 DEF WaitingShown, HeardAccepted, VInv
<1>8. PageVoted(messages', votes)
  BY <1>5 DEF VInv
<1> QED BY <1>4, <1>5, <1>6, <1>7, <1>8, NoMoreKeeps

\* A stream's steps leave the page and the votes alone, and what is stored.
LEMMA VInvStream ==
  ASSUME IInv, VInv, NEW i \in DOMAIN attempts, Stream(i)
  PROVE  VInv'
<1>1. UNCHANGED <<messages, votes>> /\ saved' = saved
  BY DEF Stream, Begin, Fail, BreakOff, NoticeDisconnect, Finish, Deliver, Stopped, browser
<1>2. attempts[i].pc # "ended"
  BY DEF Stream, Begin, Fail, BreakOff, NoticeDisconnect, Finish, Deliver
<1>3. \E x : attempts' = [attempts EXCEPT ![i] = x]
  BY DEF Stream, Begin, Fail, BreakOff, NoticeDisconnect, Finish, Deliver, Stopped
<1>4. Kept(attempts, store, attempts', store)
  BY <1>2, <1>3, KeptOne
<1>5. CASE ~Finish(i)
  <2>1. store' = store
    BY <1>5 DEF Stream, Begin, Fail, BreakOff, NoticeDisconnect, Deliver, Stopped
  <2> QED BY <2>1, <1>1, <1>4, VInvQuiet
<1>6. CASE Finish(i)
  <2> DEFINE c == attempts[i].conversation
             e == [answer |-> i, opinion |-> "none"]
  <2>1. store' = [store EXCEPT ![c] = Append(store[c], e)]
    BY <1>6 DEF Finish
  <2>2. store \in [Conversations -> Seq(Exchange)]
    BY DEF IInv, TypeOK
  <2> HIDE DEF e
  <2>3. ASSUME NEW s \in Seq(Exchange)
        PROVE  \A n \in DOMAIN s : n \in DOMAIN Append(s, e) /\ Append(s, e)[n] = s[n]
    BY SMT
  <2>4. \A d \in Conversations : \A n \in DOMAIN store[d] :
          n \in DOMAIN store'[d] /\ store'[d][n] = store[d][n]
    <3> SUFFICES ASSUME NEW d \in Conversations
                 PROVE  \A n \in DOMAIN store[d] : n \in DOMAIN store'[d] /\ store'[d][n] = store[d][n]
      OBVIOUS
    <3>1. CASE d = c
      <4>1. store'[d] = Append(store[d], e) /\ store[d] \in Seq(Exchange)
        BY <3>1, <2>1, <2>2
      <4> QED BY <4>1, <2>3
    <3>2. CASE d # c
      BY <3>2, <2>1, <2>2
    <3> QED BY <3>1, <3>2
  <2>5. Kept(attempts, store, attempts', store')
    BY <2>4, <1>4 DEF Kept
  <2> QED BY <2>5, <1>1, VInvQuiet
<1> QED BY <1>5, <1>6

-----------------------------------------------------------------------------
(* Votes *)

\* Of two votes one was sent first.
LEMMA VotesOrdered ==
  ASSUME IInv
  PROVE  \A p, q \in DOMAIN votes :
           /\ p \in Nat
           /\ p = q \/ p < q \/ q < p
           /\ ~ (p < q) => q <= p
<1>1. votes \in Seq(Vote)
  BY DEF IInv, TypeOK
<1>2. ASSUME NEW S, NEW s \in Seq(S) PROVE DOMAIN s = 1..Len(s) /\ Len(s) \in Nat
  BY SMT
<1>3. DOMAIN votes = 1..Len(votes) /\ Len(votes) \in Nat
  BY <1>1, <1>2
<1>4. DOMAIN votes \subseteq Nat
  BY <1>3, SMT
<1>5. ASSUME NEW p \in Nat, NEW q \in Nat
      PROVE  /\ p = q \/ p < q \/ q < p
             /\ ~ (p < q) => q <= p
  BY SMT
<1> QED BY <1>4, <1>5

\* A vote for the answer of a message that shows none as pending: no other one
\* for the answer waits.
LEMMA NoneWaits ==
  ASSUME IInv, VInv, NEW k \in DOMAIN messages, CanVote(k), NEW v \in DOMAIN votes,
         votes[v].answer = messages[k].answer
  PROVE  votes[v].heard # "waiting"
<1> SUFFICES ASSUME votes[v].heard = "waiting" PROVE FALSE
  OBVIOUS
<1> DEFINE j == votes[v].message
<1>1. /\ j \in DOMAIN messages /\ messages[j].status = "done"
      /\ messages[j].answer = messages[k].answer /\ messages[j].feedback = "pending"
  BY DEF VInv, WaitingShown
<1>2. messages[k].status = "done" /\ messages[k].feedback # "pending"
  BY DEF CanVote
<1>3. attempts[messages[k].answer].message = k /\ attempts[messages[j].answer].message = j
  BY <1>1, <1>2 DEF IInv, PageSound
<1> QED BY <1>1, <1>2, <1>3

\* A vote that is sent is the last one for its answer, and the only one waiting.
LEMMA VInvSendVote ==
  ASSUME IInv, VInv, NEW k \in DOMAIN messages, SendVote(k)
  PROVE  VInv'
<1>1. PICK opinion \in Opinions : votes' = Append(votes,
         [message |-> k, answer |-> messages[k].answer, opinion |-> opinion,
          before |-> messages[k].feedback, pc |-> "sent", heard |-> "waiting"])
  BY DEF SendVote
<1> DEFINE x == [message |-> k, answer |-> messages[k].answer, opinion |-> opinion,
                 before |-> messages[k].feedback, pc |-> "sent", heard |-> "waiting"]
           m == [messages[k] EXCEPT !.feedback = "pending"]
           n == Len(votes) + 1
<1>2. /\ x.answer = messages[k].answer /\ x.message = k /\ x.pc = "sent" /\ x.heard = "waiting"
      /\ x.before = messages[k].feedback
      /\ votes' = Append(votes, x)
  BY <1>1
<1>3. messages[k] \in Message /\ messages[k].status = "done" /\ messages[k].feedback # "pending"
  BY Elements DEF IInv, SendVote, CanVote
<1>4. m.status = "done" /\ m.answer = messages[k].answer /\ m.feedback = "pending"
  BY <1>3 DEF Message
<1>5. messages' = [messages EXCEPT ![k] = m]
  BY DEF SendVote
<1> HIDE DEF x, m
<1>6. /\ n \in DOMAIN votes' /\ votes'[n] = x
      /\ \A v \in DOMAIN votes : v \in DOMAIN votes' /\ votes'[v] = votes[v] /\ v < n /\ v \in Nat
      /\ \A v \in DOMAIN votes' : v = n \/ v \in DOMAIN votes
  <2>1. ASSUME NEW S, NEW s \in Seq(S)
        PROVE  /\ Len(s) \in Nat /\ Len(s) + 1 \in DOMAIN Append(s, x) /\ Append(s, x)[Len(s) + 1] = x
               /\ \A v \in DOMAIN s : /\ v \in DOMAIN Append(s, x) /\ Append(s, x)[v] = s[v]
                                      /\ v < Len(s) + 1 /\ v \in Nat
               /\ \A v \in DOMAIN Append(s, x) : v = Len(s) + 1 \/ v \in DOMAIN s
    BY SMT
  <2>2. votes \in Seq(Vote)
    BY DEF IInv, TypeOK
  <2>3. ASSUME NEW s \in Seq(Vote)
        PROVE  /\ Len(s) + 1 \in DOMAIN Append(s, x) /\ Append(s, x)[Len(s) + 1] = x
               /\ \A v \in DOMAIN s : /\ v \in DOMAIN Append(s, x) /\ Append(s, x)[v] = s[v]
                                      /\ v < Len(s) + 1 /\ v \in Nat
               /\ \A v \in DOMAIN Append(s, x) : v = Len(s) + 1 \/ v \in DOMAIN s
    BY <2>1
  <2> HIDE DEF n
  <2>4. n = Len(votes) + 1
    BY DEF n
  <2> QED BY <1>2, <2>2, <2>3, <2>4
<1>7. n \in Nat
  <2>1. ASSUME NEW S, NEW s \in Seq(S) PROVE Len(s) + 1 \in Nat
    BY SMT
  <2> QED BY <2>1 DEF IInv, TypeOK
<1> HIDE DEF n
<1>8. /\ DOMAIN messages' = DOMAIN messages
      /\ \A j \in DOMAIN messages : messages'[j] = IF j = k THEN m ELSE messages[j]
  BY <1>5
<1>9. \A v \in DOMAIN votes : votes[v].answer = messages[k].answer => votes[v].heard # "waiting"
  BY NoneWaits DEF SendVote
<1>10. UNCHANGED <<saved, attempts, store>>
  BY DEF SendVote
<1>11. WaitingShown(votes', messages')
  <2> SUFFICES ASSUME NEW v \in DOMAIN votes', votes'[v].heard = "waiting"
               PROVE  /\ votes'[v].message \in DOMAIN messages'
                      /\ messages'[votes'[v].message].status = "done"
                      /\ messages'[votes'[v].message].answer = votes'[v].answer
                      /\ messages'[votes'[v].message].feedback = "pending"
    BY DEF WaitingShown
  <2>1. CASE v = n
    BY <2>1, <1>2, <1>4, <1>6, <1>8
  <2>2. CASE v \in DOMAIN votes
    BY <2>2, <1>4, <1>6, <1>8 DEF VInv, WaitingShown
  <2> QED BY <2>1, <2>2, <1>6
<1>12. OneWaiting(votes')
  <2> SUFFICES ASSUME NEW u \in DOMAIN votes', NEW v \in DOMAIN votes', u < v,
                      votes'[u].answer = votes'[v].answer
               PROVE  votes'[u].heard # "waiting"
    BY DEF OneWaiting
  <2>1. u \in DOMAIN votes
    <3> SUFFICES ASSUME u = n PROVE FALSE
      BY <1>6
    <3>1. v = n \/ (v < n /\ v \in Nat)
      BY <1>6
    <3> QED BY <3>1, <1>7, SMT
  <2>2. CASE v = n
    BY <2>1, <2>2, <1>2, <1>6, <1>9
  <2>3. CASE v \in DOMAIN votes
    BY <2>1, <2>3, <1>6 DEF VInv, OneWaiting
  <2> QED BY <2>2, <2>3, <1>6
<1>13. HeardAccepted(votes')
  BY <1>2, <1>6 DEF VInv, HeardAccepted
<1>14. StillHeard(votes, votes')
  BY <1>6 DEF StillHeard
<1>15. PageVoted(messages', votes') /\ BeforeHeard(votes')
  <2>1. PageVoted(messages, votes')
    BY <1>14, VotedStays DEF VInv
  <2>2. PageVoted(messages', votes')
    BY <2>1, <1>4, <1>8, OpinionsAssumption DEF PageVoted
  <2>3. ASSUME NEW v \in DOMAIN votes', votes'[v].before \in Opinions
        PROVE  Heard(votes', votes'[v].answer, votes'[v].before)
    <3>1. CASE v = n
      BY <2>1, <2>3, <3>1, <1>2, <1>6 DEF PageVoted
    <3>2. CASE v \in DOMAIN votes
      <4>1. votes'[v] = votes[v]
        BY <3>2, <1>6
      <4>2. Heard(votes, votes[v].answer, votes[v].before)
        BY <2>3, <3>2, <4>1 DEF VInv, BeforeHeard
      <4> QED BY <4>1, <4>2, <1>14 DEF Heard, StillHeard
    <3> QED BY <3>1, <3>2, <1>6
  <2> QED BY <2>2, <2>3 DEF BeforeHeard
<1>16. PageVoted(saved'.messages, votes')
  BY <1>10, <1>14, VotedStays DEF VInv
<1>17. StoreSays(votes', attempts', store')
  <2> SUFFICES ASSUME NEW v \in DOMAIN votes', votes'[v].pc # "sent"
               PROVE  \E u \in DOMAIN votes' :
                        votes'[u].answer = votes'[v].answer /\ Stands(votes', u, attempts, store)
    BY <1>10 DEF StoreSays
  <2>1. v \in DOMAIN votes /\ votes'[v] = votes[v]
    BY <1>2, <1>6
  <2>2. PICK u \in DOMAIN votes : votes[u].answer = votes[v].answer /\ Stands(votes, u, attempts, store)
    BY <2>1 DEF VInv, StoreSays
  <2>3. u \in DOMAIN votes' /\ votes'[u] = votes[u]
    BY <1>6
  <2>4. LaterUnsent(votes, u) => LaterUnsent(votes', u)
    BY <2>3, <1>2, <1>6 DEF LaterUnsent
  <2> QED BY <2>1, <2>2, <2>3, <2>4 DEF Stands
<1> QED BY <1>11, <1>12, <1>13, <1>15, <1>16, <1>17 DEF VInv

\* The vote that is recorded is what the store says afterwards, and was not
\* heard yet.
LEMMA VInvRecord ==
  ASSUME IInv, VInv, NEW v \in DOMAIN votes, RecordVote(v)
  PROVE  VInv'
<1> DEFINE i == votes[v].answer
           c == attempts[i].conversation
           x == [votes[v] EXCEPT !.pc = "recorded"]
<1>1. votes[v] \in Vote /\ votes[v].pc = "sent"
  BY Elements DEF IInv, RecordVote
<1>2. /\ x.answer = i /\ x.message = votes[v].message /\ x.opinion = votes[v].opinion
      /\ x.before = votes[v].before /\ x.heard = votes[v].heard /\ x.pc = "recorded"
  BY <1>1 DEF Vote
<1>3. votes' = [votes EXCEPT ![v] = x]
  BY DEF RecordVote
<1>4. votes[v].heard # "yes"
  BY <1>1 DEF VInv, HeardAccepted
<1> HIDE DEF x
<1>5. /\ DOMAIN votes' = DOMAIN votes
      /\ \A u \in DOMAIN votes : votes'[u] = IF u = v THEN x ELSE votes[u]
  BY <1>3
<1>6. Settled(attempts, store, i) /\ c \in Conversations
  BY DEF IInv, VotesSound, Settled
<1>7. UNCHANGED <<messages, saved, attempts>>
  BY DEF RecordVote, browser
<1>8. SameVotes(votes, votes')
  BY <1>2, <1>5 DEF SameVotes
<1>9. \A u \in DOMAIN votes : votes'[u].heard = votes[u].heard
  BY <1>2, <1>5
<1>10. WaitingShown(votes', messages')
  BY <1>7, <1>8, <1>9 DEF VInv, WaitingShown, SameVotes
<1>11. OneWaiting(votes')
  BY <1>8, <1>9 DEF VInv, OneWaiting, SameVotes
<1>12. HeardAccepted(votes')
  BY <1>4, <1>5, <1>9 DEF VInv, HeardAccepted
<1>13. StillHeard(votes, votes')
  BY <1>8, <1>9 DEF SameVotes, StillHeard
<1>14. PageVoted(messages', votes') /\ PageVoted(saved'.messages, votes') /\ BeforeHeard(votes')
  BY <1>7, <1>8, <1>13, VotedStays, BeforeStays DEF VInv
<1>15. StoreSays(votes', attempts', store')
  <2> SUFFICES ASSUME NEW y \in DOMAIN votes, votes'[y].pc # "sent"
               PROVE  \E u \in DOMAIN votes :
                        votes'[u].answer = votes'[y].answer /\ Stands(votes', u, attempts, store')
    BY <1>5, <1>7 DEF StoreSays
  <2>1. DOMAIN store = Conversations /\ \A d \in Conversations : store[d] \in Seq(Exchange)
    BY DEF IInv, TypeOK
  <2>2. store'[c] = [n \in DOMAIN store[c] |-> IF store[c][n].answer = i
                       THEN [store[c][n] EXCEPT !.opinion = votes[v].opinion] ELSE store[c][n]]
    BY <1>6, <2>1 DEF RecordVote
  <2>3. \A d \in Conversations \ {c} : store'[d] = store[d]
    BY <2>1 DEF RecordVote
  <2>4. CASE votes[y].answer = i
    <3>1. PICK n \in DOMAIN store[c] : store[c][n].answer = i
      BY <1>6 DEF Settled, Once
    <3>2. store[c][n] \in Exchange
      <4>1. ASSUME NEW s \in Seq(Exchange), NEW k \in DOMAIN s PROVE s[k] \in Exchange
        BY SMT
      <4> QED BY <4>1, <2>1, <1>6
    <3>3. [store[c][n] EXCEPT !.opinion = votes[v].opinion]
            = [answer |-> i, opinion |-> votes[v].opinion]
      BY <3>1, <3>2 DEF Exchange
    <3>4. n \in DOMAIN store'[c] /\ store'[c][n] = [answer |-> i, opinion |-> votes[v].opinion]
      BY <2>2, <3>1, <3>3
    <3>5. Says(votes'[v], attempts, store')
      BY <3>4, <1>2, <1>5 DEF Says
    <3>6. votes'[v].pc # "sent" /\ votes'[v].heard # "yes"
      BY <1>2, <1>4, <1>5
    <3> QED BY <2>4, <3>5, <3>6, <1>2, <1>5, <1>8 DEF Stands, SameVotes
  <2>5. CASE votes[y].answer # i
    <3>1. votes'[y] = votes[y] /\ y # v
      BY <2>5, <1>5
    <3>2. PICK u \in DOMAIN votes : votes[u].answer = votes[y].answer /\ Stands(votes, u, attempts, store)
      BY <3>1 DEF VInv, StoreSays
    <3>3. Says(votes[u], attempts, store) /\ votes[u].answer # i
      BY <2>5, <3>2 DEF Stands
    <3> DEFINE d == attempts[votes[u].answer].conversation
    <3>4. PICK n \in DOMAIN store[d] :
            store[d][n] = [answer |-> votes[u].answer, opinion |-> votes[u].opinion]
      BY <3>3 DEF Says
    <3>5. d \in Conversations
      BY DEF IInv, VotesSound, Settled
    <3>6. store[d][n].answer # i
      BY <3>4, <3>3
    <3>7. n \in DOMAIN store'[d] /\ store'[d][n] = store[d][n]
      <4>1. CASE d = c
        <5>1. n \in DOMAIN store[c] /\ store[c][n].answer # i
          BY <4>1, <3>4, <3>6
        <5>2. n \in DOMAIN store'[c] /\ store'[c][n] = store[c][n]
          <6> HIDE DEF c, i
          <6> QED BY <5>1, <2>2
        <5> QED BY <4>1, <5>2
      <4>2. CASE d # c
        BY <4>2, <3>4, <3>5, <2>3
      <4> QED BY <4>1, <4>2
    <3>8. u # v /\ votes'[u] = votes[u] /\ Says(votes'[u], attempts, store')
      BY <3>3, <3>4, <3>7, <1>5 DEF Says
    <3>9. LaterUnsent(votes, u) => LaterUnsent(votes', u)
      BY <3>3, <3>8, <1>2, <1>5 DEF LaterUnsent
    <3> QED BY <3>1, <3>2, <3>8, <3>9 DEF Stands
  <2> QED BY <2>4, <2>5
<1> QED BY <1>10, <1>11, <1>12, <1>14, <1>15 DEF VInv

\* A recorded vote is accepted or fails: the store says what it said.
LEMMA VInvRefresh ==
  ASSUME IInv, VInv, NEW v \in DOMAIN votes, RefreshAndAccept(v)
  PROVE  VInv'
<1>1. PICK pc \in {"accepted", "ended"} : votes' = [votes EXCEPT ![v].pc = pc]
  BY DEF RefreshAndAccept
<1> DEFINE x == [votes[v] EXCEPT !.pc = pc]
<1>2. /\ x.answer = votes[v].answer /\ x.message = votes[v].message /\ x.opinion = votes[v].opinion
      /\ x.before = votes[v].before /\ x.heard = votes[v].heard /\ x.pc = pc
  BY Elements DEF IInv, Vote
<1>3. votes' = [votes EXCEPT ![v] = x] /\ votes[v].pc = "recorded"
  BY <1>1 DEF RefreshAndAccept
<1> HIDE DEF x
<1>4. /\ DOMAIN votes' = DOMAIN votes
      /\ \A u \in DOMAIN votes : votes'[u] = IF u = v THEN x ELSE votes[u]
  BY <1>3
<1>5. votes[v].heard # "yes"
  BY <1>3 DEF VInv, HeardAccepted
<1>6. NoMore(votes, votes')
  BY <1>2, <1>3, <1>4 DEF NoMore, SameVotes
<1>7. UNCHANGED <<messages, saved, attempts, store>>
  BY DEF RefreshAndAccept, browser
<1>8. HeardAccepted(votes')
  BY <1>2, <1>4, <1>5 DEF VInv, HeardAccepted
<1>9. WaitingShown(votes', messages')
  BY <1>2, <1>4, <1>7 DEF VInv, WaitingShown
<1>10. Kept(attempts, store, attempts', store') /\ PageVoted(messages', votes)
  BY <1>7 DEF Kept, VInv
<1> QED BY <1>6, <1>7, <1>8, <1>9, <1>10, NoMoreKeeps

\* The vote that is heard or given up is the only one its message waits for.
LEMMA VInvHeard ==
  ASSUME IInv, VInv, NEW v \in DOMAIN votes, ReceiveVote(v) \/ GiveUpVote(v)
  PROVE  VInv'
<1> DEFINE k == votes[v].message
<1>1. PICK heard \in {"yes", "no"} :
        /\ votes' = [votes EXCEPT ![v].heard = heard]
        /\ messages' = [messages EXCEPT ![k].feedback =
                          IF heard = "yes" THEN votes[v].opinion ELSE votes[v].before]
        /\ heard = "yes" => votes[v].pc = "accepted"
        /\ votes[v].heard = "waiting"
  BY DEF ReceiveVote, GiveUpVote
<1> DEFINE shown == IF heard = "yes" THEN votes[v].opinion ELSE votes[v].before
           x == [votes[v] EXCEPT !.heard = heard]
           m == [messages[k] EXCEPT !.feedback = shown]
<1>2. /\ votes[v].opinion \in Opinions /\ votes[v].opinion # "none"
  BY Elements, OpinionsAssumption DEF IInv, Vote
<1>3. /\ x.answer = votes[v].answer /\ x.message = votes[v].message /\ x.opinion = votes[v].opinion
      /\ x.before = votes[v].before /\ x.heard = heard /\ x.pc = votes[v].pc
  BY Elements DEF IInv, Vote
<1>4. votes' = [votes EXCEPT ![v] = x] /\ messages' = [messages EXCEPT ![k] = m]
  BY <1>1
<1>5. /\ k \in DOMAIN messages /\ messages[k].status = "done" /\ messages[k].answer = votes[v].answer
      /\ messages[k] \in Message
  BY <1>1, Elements DEF VInv, WaitingShown, IInv
<1>6. m.status = "done" /\ m.answer = votes[v].answer /\ m.feedback = shown
  BY <1>5 DEF Message
<1> HIDE DEF x, m, shown
<1>7. /\ DOMAIN votes' = DOMAIN votes
      /\ \A u \in DOMAIN votes : votes'[u] = IF u = v THEN x ELSE votes[u]
  BY <1>4
<1>8. /\ DOMAIN messages' = DOMAIN messages
      /\ \A j \in DOMAIN messages : messages'[j] = IF j = k THEN m ELSE messages[j]
  BY <1>4
<1>9. SameVotes(votes, votes')
  BY <1>3, <1>7 DEF SameVotes
<1>10. \A u \in DOMAIN votes : votes'[u].pc = votes[u].pc /\ (u # v => votes'[u].heard = votes[u].heard)
  BY <1>3, <1>7
<1>11. votes'[v].heard = heard /\ heard # "waiting"
  BY <1>1, <1>3, <1>7
<1>12. \A u, w \in DOMAIN votes : u # w => u < w \/ w < u
  BY VotesOrdered
<1>13. UNCHANGED <<saved, attempts, store>>
  BY DEF ReceiveVote, GiveUpVote
<1>14. WaitingShown(votes', messages')
  <2> SUFFICES ASSUME NEW u \in DOMAIN votes, votes'[u].heard = "waiting"
               PROVE  /\ votes'[u].message \in DOMAIN messages'
                      /\ messages'[votes'[u].message].status = "done"
                      /\ messages'[votes'[u].message].answer = votes'[u].answer
                      /\ messages'[votes'[u].message].feedback = "pending"
    BY <1>7 DEF WaitingShown
  <2>1. u # v /\ votes'[u] = votes[u]
    BY <1>7, <1>11
  <2>2. votes[u].message # k
    <3> SUFFICES ASSUME votes[u].message = k PROVE FALSE
      OBVIOUS
    <3>1. votes[u].answer = votes[v].answer
      BY <2>1, <1>5 DEF VInv, WaitingShown
    <3> QED BY <2>1, <3>1, <1>1, <1>12 DEF VInv, OneWaiting
  <2> QED BY <2>1, <2>2, <1>8 DEF VInv, WaitingShown
<1>15. OneWaiting(votes')
  BY <1>9, <1>10, <1>11 DEF VInv, OneWaiting, SameVotes
<1>16. HeardAccepted(votes')
  BY <1>1, <1>7, <1>10, <1>11 DEF VInv, HeardAccepted
<1>17. StillHeard(votes, votes')
  BY <1>1, <1>9, <1>10 DEF SameVotes, StillHeard
<1>18. BeforeHeard(votes')
  BY <1>9, <1>17, BeforeStays DEF VInv
<1>19. PageVoted(messages', votes')
  <2>1. PageVoted(messages, votes')
    BY <1>17, VotedStays DEF VInv
  <2>2. shown \in Opinions => Heard(votes', votes[v].answer, shown)
    <3>1. CASE heard = "yes"
      BY <3>1, <1>3, <1>7 DEF shown, Heard
    <3>2. CASE heard # "yes"
      <4>1. shown = votes'[v].before /\ votes'[v].answer = votes[v].answer
        BY <3>2, <1>9 DEF shown, SameVotes
      <4> QED BY <4>1, <1>7, <1>18 DEF BeforeHeard
    <3> QED BY <3>1, <3>2
  <2> QED BY <2>1, <2>2, <1>6, <1>8 DEF PageVoted
<1>20. PageVoted(saved'.messages, votes')
  BY <1>13, <1>17, VotedStays DEF VInv
<1>21. StoreSays(votes', attempts', store')
  <2> SUFFICES ASSUME NEW y \in DOMAIN votes, votes'[y].pc # "sent"
               PROVE  \E u \in DOMAIN votes :
                        votes'[u].answer = votes'[y].answer /\ Stands(votes', u, attempts, store)
    BY <1>7, <1>13 DEF StoreSays
  <2>1. PICK u \in DOMAIN votes : votes[u].answer = votes[y].answer /\ Stands(votes, u, attempts, store)
    BY <1>10 DEF VInv, StoreSays
  <2>2. Says(votes'[u], attempts, store)
    BY <2>1, <1>9 DEF Stands, Says, SameVotes
  <2>3. ASSUME votes'[u].heard = "yes" PROVE LaterUnsent(votes', u)
    <3>1. CASE u # v
      BY <2>1, <2>3, <3>1, <1>9, <1>10 DEF Stands, LaterUnsent, SameVotes
    <3>2. CASE u = v
      <4>1. \A w \in DOMAIN votes : votes[w].answer = votes[v].answer => ~ (v < w)
        BY <1>1 DEF VInv, OneWaiting
      <4> QED BY <3>2, <4>1, <1>9 DEF LaterUnsent, SameVotes
    <3> QED BY <3>1, <3>2
  <2> QED BY <2>1, <2>2, <2>3, <1>9, <1>10 DEF Stands, SameVotes
<1> QED BY <1>14, <1>15, <1>16, <1>18, <1>19, <1>20, <1>21 DEF VInv

-----------------------------------------------------------------------------

LEMMA InitVInv == Init => VInv
<1> SUFFICES ASSUME Init PROVE VInv
  OBVIOUS
<1>1. DOMAIN <<>> = {}
  BY SMT
<1>2. DOMAIN votes = {} /\ DOMAIN messages = {} /\ DOMAIN saved.messages = {}
  BY <1>1 DEF Init
<1> QED BY <1>2 DEF VInv, WaitingShown, OneWaiting, HeardAccepted, BeforeHeard, PageVoted, StoreSays

\* Every step keeps what is known of the votes.
LEMMA StepVInv == IInv /\ VInv /\ [Next]_vars => VInv'
<1> SUFFICES ASSUME IInv, VInv, [Next]_vars PROVE VInv'
  OBVIOUS
<1>1. CASE Ask \/ Receive \/ Save \/ Reload \/ Crash
  BY <1>1, VInvAsk, VInvReceive, VInvSave, VInvReload, VInvCrash
<1>2. CASE \E k \in DOMAIN messages : Retry(k) \/ SendVote(k)
  BY <1>2, VInvRetry, VInvSendVote
<1>3. CASE \E i \in DOMAIN attempts : Stream(i)
  BY <1>3, VInvStream
<1>4. CASE \E v \in DOMAIN votes : HandleVote(v)
  BY <1>4, VInvRecord, VInvRefresh, VInvHeard DEF HandleVote
<1>5. CASE UNCHANGED vars
  <2>1. UNCHANGED <<messages, saved, attempts, store, votes>>
    BY <1>5 DEF vars
  <2>2. Kept(attempts, store, attempts', store')
    BY <2>1 DEF Kept
  <2> QED BY <2>1, <2>2, VInvQuiet
<1> QED BY <1>1, <1>2, <1>3, <1>4, <1>5 DEF Next

\* A vote a page shows was heard as saved for that answer, and the store holds the
\* last vote heard as saved, or one the page had to give up: for any number of
\* votes, restarts and reloads.
THEOREM ShownIsStored == Spec => []ShownVoteStored
<1>1. IInv /\ VInv => ShownVoteStored
  <2> SUFFICES ASSUME IInv, VInv, NEW k \in Answered, messages[k].feedback \in Opinions
               PROVE  /\ \E v \in DOMAIN votes :
                           /\ votes[v].answer = messages[k].answer /\ votes[v].heard = "yes"
                           /\ votes[v].opinion = messages[k].feedback
                      /\ \E u \in DOMAIN votes :
                           /\ votes[u].answer = messages[k].answer
                           /\ \/ /\ votes[u].heard = "yes"
                                 /\ \A w \in DOMAIN votes :
                                      votes[w].answer = messages[k].answer /\ votes[w].heard = "yes"
                                        => w <= u
                              \/ votes[u].heard # "yes" /\ votes[u].pc # "sent"
                           /\ \E n \in DOMAIN store[ConversationOf(messages[k])] :
                                store[ConversationOf(messages[k])][n]
                                  = [answer |-> messages[k].answer, opinion |-> votes[u].opinion]
    BY DEF ShownVoteStored
  <2>1. PICK v \in DOMAIN votes : /\ votes[v].answer = messages[k].answer /\ votes[v].heard = "yes"
                                  /\ votes[v].opinion = messages[k].feedback
    BY DEF VInv, PageVoted, Heard, Answered
  <2>2. PICK u \in DOMAIN votes :
          votes[u].answer = messages[k].answer /\ Stands(votes, u, attempts, store)
    BY <2>1 DEF VInv, HeardAccepted, StoreSays
  <2>3. ASSUME votes[u].heard = "yes", NEW w \in DOMAIN votes,
               votes[w].answer = messages[k].answer, votes[w].heard = "yes"
        PROVE  w <= u
    <3>1. votes[w].pc = "accepted"
      BY <2>3 DEF VInv, HeardAccepted
    <3>2. ~ (u < w)
      BY <2>2, <2>3, <3>1 DEF Stands, LaterUnsent
    <3> QED BY <3>2, VotesOrdered
  <2>4. votes[u].pc # "sent" /\ Says(votes[u], attempts, store)
    BY <2>2 DEF Stands
  <2>5. \E n \in DOMAIN store[ConversationOf(messages[k])] :
          store[ConversationOf(messages[k])][n]
            = [answer |-> messages[k].answer, opinion |-> votes[u].opinion]
    BY <2>2, <2>4 DEF Says, ConversationOf
  <2> QED BY <2>1, <2>2, <2>3, <2>4, <2>5
<1> QED BY <1>1, Invariance, InitVInv, StepVInv, PTL DEF Spec

-----------------------------------------------------------------------------
(* What a run is given.  The memory has the answers of the store, whatever *)
(* votes are under way, and a run the answers that were newest when it     *)
(* began: the page's are among them or older.                              *)

SameAnswers(x, y) ==
  /\ Len(x) = Len(y)
  /\ \A n \in DOMAIN x : n \in DOMAIN y /\ x[n].answer = y[n].answer

\* The memory has the answers of the newest exchanges of conversation c.
MemoryHas(c) == SameAnswers(turns[c], Recent(store[c]))

\* An attempt is stored once in a conversation.
Distinct(exchanges) ==
  \A m, n \in DOMAIN exchanges : exchanges[m].answer = exchanges[n].answer => m = n

\* The history h is the newest part of the first d exchanges of s, and the page
\* shows complete answers to them only.
GivenOf(h, s, d, page) ==
  /\ d \in Nat /\ d <= Len(s)
  /\ Len(h) = IF d <= Window THEN d ELSE Window
  /\ \A n \in DOMAIN h : h[n] = s[(d - Len(h)) + n].answer
  /\ \A k \in DOMAIN page : page[k].status = "done" =>
       \E n \in 1..d : s[n].answer = page[k].answer

Given ==
  busy # None /\ attempts[busy].pc = "running" =>
    \E d \in Nat :
      GivenOf(attempts[busy].history, store[attempts[busy].conversation], d, messages)

GInv ==
  /\ \A c \in loaded : MemoryHas(c)
  /\ \A c \in Conversations : Distinct(store[c])
  /\ Given

-----------------------------------------------------------------------------
(* Lemmas about exchanges and their answers *)

\* The places of a sequence.
LEMMA Places ==
  ASSUME NEW S, NEW s \in Seq(S)
  PROVE  DOMAIN s = 1..Len(s) /\ Len(s) \in Nat
BY SMT

\* The newest exchanges, by their places.
LEMMA RecentPlaces ==
  ASSUME NEW S, NEW s \in Seq(S)
  PROVE  /\ Recent(s) \in Seq(S)
         /\ Len(Recent(s)) = IF Len(s) <= Window THEN Len(s) ELSE Window
         /\ \A n \in 1..Len(Recent(s)) :
              /\ (Len(s) - Len(Recent(s))) + n \in 1..Len(s)
              /\ Recent(s)[n] = s[(Len(s) - Len(Recent(s))) + n]
<1>1. CASE Len(s) <= Window
  <2>1. Recent(s) = s
    BY <1>1 DEF Recent
  <2>2. ASSUME NEW n \in 1..Len(s)
        PROVE  (Len(s) - Len(s)) + n = n
    BY Places, SMT
  <2> QED BY <1>1, <2>1, <2>2
<1>2. CASE Len(s) > Window
  <2>1. Len(s) \in Nat /\ Window \in Nat /\ ~ (Len(s) <= Window)
    BY <1>2, WindowAssumption, SMT
  <2>2. Recent(s) = SubSeq(s, Len(s) - Window + 1, Len(s))
    BY <2>1 DEF Recent
  <2>3. /\ Recent(s) \in Seq(S) /\ Len(Recent(s)) = Window
        /\ \A n \in 1..Window : Recent(s)[n] = s[(Len(s) - Window) + n]
    BY <1>2, <2>1, <2>2, SMT
  <2>4. \A n \in 1..Window : (Len(s) - Window) + n \in 1..Len(s)
    BY <1>2, <2>1, SMT
  <2> QED BY <2>1, <2>3, <2>4
<1>3. Len(s) <= Window \/ Len(s) > Window
  BY WindowAssumption, SMT
<1> QED BY <1>1, <1>2, <1>3

\* The newest exchanges of two sequences with the same answers have the same.
LEMMA RecentAnswers ==
  ASSUME NEW x \in Seq(Exchange), NEW y \in Seq(Exchange), SameAnswers(x, y)
  PROVE  SameAnswers(Recent(x), Recent(y))
<1>1. Len(x) = Len(y)
  BY DEF SameAnswers
<1>2. Len(Recent(x)) = Len(Recent(y))
  BY <1>1, RecentPlaces
<1>3. DOMAIN Recent(x) = 1..Len(Recent(x)) /\ DOMAIN Recent(y) = 1..Len(Recent(y))
  BY RecentPlaces, Places
<1>4. DOMAIN x = 1..Len(x)
  BY Places
<1>5. ASSUME NEW n \in 1..Len(Recent(x)) PROVE Recent(x)[n].answer = Recent(y)[n].answer
  <2> DEFINE p == (Len(x) - Len(Recent(x))) + n
  <2>1. p \in 1..Len(x) /\ Recent(x)[n] = x[p]
    BY RecentPlaces
  <2>2. Recent(y)[n] = y[p]
    BY <1>1, <1>2, RecentPlaces
  <2> HIDE DEF p
  <2> QED BY <2>1, <2>2, <1>4 DEF SameAnswers
<1> QED BY <1>2, <1>3, <1>5 DEF SameAnswers

\* One more exchange after the same answers.
LEMMA AppendAnswers ==
  ASSUME NEW x \in Seq(Exchange), NEW y \in Seq(Exchange), SameAnswers(x, y), NEW e \in Exchange
  PROVE  SameAnswers(Append(x, e), Append(y, e))
<1>1. ASSUME NEW S, NEW z \in Seq(S), NEW f \in S
      PROVE  /\ Append(z, f) \in Seq(S) /\ Len(Append(z, f)) = Len(z) + 1
             /\ DOMAIN Append(z, f) = 1..(Len(z) + 1)
             /\ \A n \in 1..Len(z) : Append(z, f)[n] = z[n]
             /\ Append(z, f)[Len(z) + 1] = f
  BY SMT
<1>2. Len(x) = Len(y) /\ Len(x) \in Nat /\ DOMAIN x = 1..Len(x)
  BY Places DEF SameAnswers
<1>3. \A n \in 1..(Len(x) + 1) : n \in 1..Len(x) \/ n = Len(x) + 1
  BY <1>2, SMT
<1>4. \A n \in 1..Len(x) : x[n].answer = y[n].answer
  BY <1>2 DEF SameAnswers
<1> QED BY <1>1, <1>2, <1>3, <1>4 DEF SameAnswers

LEMMA SameAnswersIs ==
  ASSUME NEW x \in Seq(Exchange)
  PROVE  SameAnswers(x, x)
BY DEF SameAnswers

LEMMA SameAnswersTrans ==
  ASSUME NEW x, NEW y, NEW z, SameAnswers(x, y), SameAnswers(y, z)
  PROVE  SameAnswers(x, z)
BY DEF SameAnswers

\* Distinct attempts stay so with one that is not among them.
LEMMA DistinctAppend ==
  ASSUME NEW s \in Seq(Exchange), NEW e \in Exchange, Distinct(s),
         \A n \in DOMAIN s : s[n].answer # e.answer
  PROVE  Distinct(Append(s, e))
<1>1. ASSUME NEW S, NEW z \in Seq(S), NEW f \in S
      PROVE  /\ DOMAIN Append(z, f) = 1..(Len(z) + 1)
             /\ \A n \in 1..Len(z) : Append(z, f)[n] = z[n]
             /\ Append(z, f)[Len(z) + 1] = f
  BY SMT
<1>2. Len(s) \in Nat /\ DOMAIN s = 1..Len(s)
  BY Places
<1>3. \A n \in 1..(Len(s) + 1) : n \in 1..Len(s) \/ n = Len(s) + 1
  BY <1>2, SMT
<1> DEFINE t == Append(s, e)
<1>4. DOMAIN t = 1..(Len(s) + 1) /\ (\A n \in DOMAIN s : t[n] = s[n]) /\ t[Len(s) + 1] = e
  BY <1>1, <1>2
<1> HIDE DEF t
<1>5. Distinct(t)
  BY <1>2, <1>3, <1>4 DEF Distinct
<1> QED BY <1>5 DEF t

LEMMA DistinctKept ==
  ASSUME NEW x, NEW y, SameAnswers(y, x), Distinct(x)
  PROVE  Distinct(y)
BY DEF SameAnswers, Distinct

\* The store keeps the answers it has, in their places.
Grows(s, t) ==
  \A c \in Conversations :
    /\ Len(s[c]) \in Nat /\ Len(t[c]) \in Nat
    /\ Len(s[c]) <= Len(t[c])
    /\ \A n \in 1..Len(s[c]) : t[c][n].answer = s[c][n].answer

LEMMA GrowsStill ==
  ASSUME IInv
  PROVE  Grows(store, store)
<1>1. \A c \in Conversations : store[c] \in Seq(Exchange)
  BY DEF IInv, TypeOK
<1>2. ASSUME NEW s \in Seq(Exchange) PROVE Len(s) \in Nat /\ Len(s) <= Len(s)
  BY SMT
<1> QED BY <1>1, <1>2 DEF Grows

\* A longer store and a page with no new answer: what was given is given still.
LEMMA GivenLonger ==
  ASSUME NEW S, NEW h \in Seq(S), NEW s, NEW t, NEW d, NEW page, NEW new, GivenOf(h, s, d, page),
         Len(s) \in Nat, Len(t) \in Nat, Len(s) <= Len(t), \A n \in 1..Len(s) : t[n].answer = s[n].answer,
         \A k \in DOMAIN new : new[k].status = "done" =>
           k \in DOMAIN page /\ page[k].status = "done" /\ new[k].answer = page[k].answer
  PROVE  GivenOf(h, t, d, new)
<1>1. /\ d \in Nat /\ d <= Len(s) /\ Len(h) = IF d <= Window THEN d ELSE Window
      /\ DOMAIN h = 1..Len(h) /\ Len(h) \in Nat
  BY Places DEF GivenOf
<1>2. d <= Len(t)
  BY <1>1, SMT
<1>3. \A n \in 1..Len(h) : (d - Len(h)) + n \in 1..Len(s)
  <2>1. Len(h) <= d
    BY <1>1, WindowAssumption, SMT
  <2> QED BY <1>1, <2>1, SMT
<1>4. \A n \in DOMAIN h : h[n] = t[(d - Len(h)) + n].answer
  <2> SUFFICES ASSUME NEW n \in DOMAIN h PROVE h[n] = t[(d - Len(h)) + n].answer
    OBVIOUS
  <2> DEFINE p == (d - Len(h)) + n
  <2>1. h[n] = s[p].answer
    BY DEF GivenOf
  <2>2. p \in 1..Len(s)
    BY <1>1, <1>3
  <2> HIDE DEF p
  <2>3. h[n] = t[p].answer
    BY <2>1, <2>2
  <2> QED BY <2>3 DEF p
<1>5. \A n \in 1..d : n \in 1..Len(s)
  BY <1>1, SMT
<1>6. \A k \in DOMAIN new : new[k].status = "done" => \E n \in 1..d : t[n].answer = new[k].answer
  <2> SUFFICES ASSUME NEW k \in DOMAIN new, new[k].status = "done"
               PROVE  \E n \in 1..d : t[n].answer = new[k].answer
    OBVIOUS
  <2>1. PICK n \in 1..d : s[n].answer = page[k].answer
    BY DEF GivenOf
  <2>2. t[n].answer = new[k].answer
    BY <2>1, <1>5
  <2> QED BY <2>2
<1> QED BY <1>1, <1>2, <1>4, <1>6 DEF GivenOf

\* The open stream's run goes on, or there is none.
LEMMA GivenKept ==
  ASSUME IInv, Given, Grows(store, store'), busy' \in {busy, None},
         busy' # None /\ attempts'[busy].pc = "running" =>
           /\ attempts[busy].pc = "running"
           /\ attempts'[busy].conversation = attempts[busy].conversation
           /\ attempts'[busy].history = attempts[busy].history,
         \A k \in DOMAIN messages' : busy' # None /\ messages'[k].status = "done" =>
           /\ k \in DOMAIN messages /\ messages[k].status = "done"
           /\ messages'[k].answer = messages[k].answer
  PROVE  Given'
<1> SUFFICES ASSUME busy' # None, attempts'[busy'].pc = "running"
             PROVE  \E d \in Nat : GivenOf(attempts'[busy'].history,
                                     store'[attempts'[busy'].conversation], d, messages')
  BY DEF Given
<1>1. /\ busy' = busy /\ attempts[busy].pc = "running"
      /\ attempts'[busy].conversation = attempts[busy].conversation
      /\ attempts'[busy].history = attempts[busy].history
  OBVIOUS
<1>2. busy \in DOMAIN attempts /\ attempts[busy].history \in Seq(1..MaxAttempts)
  BY <1>1, Elements DEF IInv, Attempt
<1> DEFINE c == attempts[busy].conversation
<1>3. c \in Conversations
  BY <1>1, <1>2 DEF IInv, AttemptsNamed
<1>4. PICK d \in Nat : GivenOf(attempts[busy].history, store[c], d, messages)
  BY <1>1 DEF Given
<1>5. /\ Len(store[c]) \in Nat /\ Len(store'[c]) \in Nat
      /\ Len(store[c]) <= Len(store'[c])
      /\ \A n \in 1..Len(store[c]) : store'[c][n].answer = store[c][n].answer
  BY <1>3 DEF Grows
<1>6. \A k \in DOMAIN messages' : messages'[k].status = "done" =>
           /\ k \in DOMAIN messages /\ messages[k].status = "done"
           /\ messages'[k].answer = messages[k].answer
  BY <1>1
<1> HIDE DEF c
<1>7. GivenOf(attempts[busy].history, store'[c], d, messages')
  BY <1>2, <1>4, <1>5, <1>6, GivenLonger
<1> QED BY <1>1, <1>7 DEF c

\* A step that leaves the store and the memory alone.
LEMMA GInvStill ==
  ASSUME IInv, GInv, UNCHANGED <<store, memory>>, Given'
  PROVE  GInv'
BY DEF GInv, MemoryHas, memory

-----------------------------------------------------------------------------
(* The browser's steps *)

\* A new request has not begun.
LEMMA GInvOpen ==
  ASSUME IInv, GInv, NEW k, NEW c, Open(k, c)
  PROVE  GInv'
<1>1. ASSUME NEW s \in Seq(Attempt), NEW y
      PROVE  Append(s, y)[Len(s) + 1] = y
  BY SMT
<1>2. attempts \in Seq(Attempt)
  BY DEF IInv, TypeOK
<1>3. attempts'[busy'].pc = "sent"
  BY <1>1, <1>2 DEF Open
<1>4. Given'
  BY <1>3 DEF Given
<1> QED BY <1>4, GInvStill DEF Open

LEMMA GInvReceive ==
  ASSUME IInv, GInv, Receive
  PROVE  GInv'
<1>1. UNCHANGED <<store, memory>>
  BY DEF Receive, ReceiveStarted, ReceiveCompleted, ReceiveFailed, StopReading
<1>2. CASE ReceiveStarted
  <2>1. busy \in DOMAIN attempts
    BY <1>2, Elements DEF IInv, ReceiveStarted, Arrives
  <2>2. PICK events : attempts' = [attempts EXCEPT ![busy].events = events]
    BY <1>2 DEF ReceiveStarted, Arrives
  <2>3. \A y \in Attempt : LET z == [y EXCEPT !.events = events]
                           IN  z.pc = y.pc /\ z.conversation = y.conversation /\ z.history = y.history
    BY DEF Attempt
  <2>4. /\ attempts'[busy].pc = attempts[busy].pc
        /\ attempts'[busy].conversation = attempts[busy].conversation
        /\ attempts'[busy].history = attempts[busy].history
    BY <2>1, <2>2, <2>3, Elements DEF IInv
  <2>5. Given'
    BY <1>1, <1>2, <2>4, GivenKept, GrowsStill DEF ReceiveStarted, GInv
  <2> QED BY <1>1, <2>5, GInvStill
<1>3. CASE ReceiveCompleted \/ ReceiveFailed \/ StopReading
  <2>1. Given'
    BY <1>3 DEF Given, ReceiveCompleted, ReceiveFailed, StopReading
  <2> QED BY <1>1, <2>1, GInvStill
<1> QED BY <1>2, <1>3 DEF Receive

LEMMA GInvSave ==
  ASSUME IInv, GInv, Save
  PROVE  GInv'
<1>1. Given'
  BY DEF Save, Given, GInv
<1> QED BY <1>1, GInvStill DEF Save

LEMMA GInvReload ==
  ASSUME IInv, GInv, Reload
  PROVE  GInv'
<1>1. Given'
  BY DEF Reload, Given
<1> QED BY <1>1, GInvStill DEF Reload

\* No run goes on, and nothing is loaded, after a restart.
LEMMA GInvCrash ==
  ASSUME IInv, GInv, Crash
  PROVE  GInv'
<1>1. \A y \in Attempt :
        [y EXCEPT !.pc = IF @ = "sent" THEN @ ELSE "ended", !.history = <<>>].pc # "running"
  BY DEF Attempt
<1>2. busy' = busy /\ store' = store /\ loaded' = {}
  BY DEF Crash, browser
<1>3. busy' # None => attempts'[busy'].pc # "running"
  BY <1>1, <1>2, Elements DEF Crash, IInv
<1>4. Given'
  BY <1>3 DEF Given
<1> QED BY <1>2, <1>4 DEF GInv

-----------------------------------------------------------------------------
(* The votes' steps *)

LEMMA GInvShown ==
  ASSUME IInv, GInv, NEW k, NEW shown, messages' = [messages EXCEPT ![k].feedback = shown],
         UNCHANGED <<busy, attempts, store, memory>>
  PROVE  GInv'
<1>1. \A m \in Message : LET z == [m EXCEPT !.feedback = shown]
                         IN  z.status = m.status /\ z.answer = m.answer
  BY DEF Message
<1>2. /\ DOMAIN messages' = DOMAIN messages
      /\ \A j \in DOMAIN messages :
           messages'[j].status = messages[j].status /\ messages'[j].answer = messages[j].answer
  BY <1>1, Elements DEF IInv
<1>3. Given'
  BY <1>2, GivenKept, GrowsStill DEF GInv
<1> QED BY <1>3, GInvStill

LEMMA GInvHeard ==
  ASSUME IInv, GInv, NEW v, SendVote(v) \/ ReceiveVote(v) \/ GiveUpVote(v)
  PROVE  GInv'
BY GInvShown DEF SendVote, ReceiveVote, GiveUpVote

\* A recorded vote changes what is said of an answer, and none of the answers.
LEMMA GInvRecord ==
  ASSUME IInv, GInv, NEW v \in DOMAIN votes, RecordVote(v)
  PROVE  GInv'
<1> DEFINE i == votes[v].answer
           c == attempts[i].conversation
           r == Voted(store[c], i, votes[v].opinion)
<1>1. /\ \A d \in Conversations : store[d] \in Seq(Exchange) /\ turns[d] \in Seq(Exchange)
      /\ c \in Conversations /\ votes[v].opinion \in Opinions /\ loaded \subseteq Conversations
  BY Elements DEF IInv, VotesSound, Settled, Vote, TypeOK
<1>2. /\ r \in Seq(Exchange) /\ Len(r) = Len(store[c]) /\ DOMAIN r = DOMAIN store[c]
      /\ \A n \in DOMAIN store[c] : r[n].answer = store[c][n].answer
  BY <1>1, VotedType
<1>3. store'[c] = r /\ \A d \in Conversations \ {c} : store'[d] = store[d]
  <2>1. store' = [store EXCEPT ![c] = r]
    BY DEF RecordVote, Voted
  <2>2. DOMAIN store = Conversations
    BY DEF IInv, TypeOK
  <2> HIDE DEF r
  <2> QED BY <1>1, <2>1, <2>2
<1> HIDE DEF r, c
<1>4. ASSUME NEW d \in Conversations
      PROVE  store'[d] \in Seq(Exchange) /\ SameAnswers(store'[d], store[d]) /\ SameAnswers(store[d], store'[d])
  <2>1. CASE d = c
    BY <2>1, <1>1, <1>2, <1>3 DEF SameAnswers
  <2>2. CASE d # c
    BY <2>2, <1>1, <1>3, SameAnswersIs
  <2> QED BY <2>1, <2>2
<1>5. UNCHANGED <<messages, busy, attempts, loaded, turns>>
  BY DEF RecordVote, browser, memory
<1>6. \A d \in loaded : MemoryHas(d)'
  <2> SUFFICES ASSUME NEW d \in loaded PROVE SameAnswers(turns[d], Recent(store'[d]))
    BY <1>5 DEF MemoryHas
  <2>1. d \in Conversations /\ SameAnswers(turns[d], Recent(store[d]))
    BY <1>1 DEF GInv, MemoryHas
  <2>2. SameAnswers(Recent(store[d]), Recent(store'[d]))
    BY <2>1, <1>1, <1>4, RecentAnswers
  <2> QED BY <2>1, <2>2, SameAnswersTrans
<1>7. \A d \in Conversations : Distinct(store'[d])
  BY <1>4, DistinctKept DEF GInv
<1>8. Grows(store, store')
  <2> SUFFICES ASSUME NEW d \in Conversations
               PROVE  /\ Len(store[d]) \in Nat /\ Len(store'[d]) \in Nat
                      /\ Len(store[d]) <= Len(store'[d])
                      /\ \A n \in 1..Len(store[d]) : store'[d][n].answer = store[d][n].answer
    BY DEF Grows
  <2>1. Len(store'[d]) = Len(store[d]) /\ Len(store[d]) \in Nat /\ DOMAIN store[d] = 1..Len(store[d])
    BY <1>1, <1>4, Places DEF SameAnswers
  <2>2. Len(store[d]) <= Len(store'[d])
    BY <2>1, SMT
  <2> QED BY <2>1, <2>2, <1>4 DEF SameAnswers
<1>9. Given'
  BY <1>5, <1>8, GivenKept DEF GInv
<1> QED BY <1>5, <1>6, <1>7, <1>9 DEF GInv

LEMMA GInvRefresh ==
  ASSUME IInv, GInv, NEW v \in DOMAIN votes, RefreshAndAccept(v)
  PROVE  GInv'
<1>1. PICK c \in Conversations : c = attempts[votes[v].answer].conversation
  BY DEF IInv, VotesSound, Settled
<1>2. turns \in [Conversations -> Seq(Exchange)] /\ store[c] \in Seq(Exchange) /\ loaded \subseteq Conversations
  BY DEF IInv, TypeOK
<1>3. UNCHANGED <<messages, busy, attempts, store>>
  BY DEF RefreshAndAccept, browser
<1>4. \A d \in loaded' : MemoryHas(d)'
  <2>1. CASE Reread(c)
    <3>1. loaded' = loaded \cup {c} /\ turns' = [turns EXCEPT ![c] = Recent(store[c])]
      BY <2>1 DEF Reread, Remember
    <3>2. Recent(store[c]) \in Seq(Exchange)
      BY <1>2, RecentType
    <3>3. MemoryHas(c)'
      BY <3>1, <3>2, <1>2, <1>3, SameAnswersIs DEF MemoryHas
    <3>4. \A d \in loaded \ {c} : turns'[d] = turns[d]
      BY <3>1, <1>2
    <3> QED BY <3>1, <3>3, <3>4, <1>3 DEF GInv, MemoryHas
  <2>2. CASE Forget(c)
    <3>1. loaded' = loaded \ {c} /\ \A d \in loaded \ {c} : turns'[d] = turns[d]
      BY <2>2, <1>2 DEF Forget
    <3> QED BY <3>1, <1>3 DEF GInv, MemoryHas
  <2> QED BY <1>1, <2>1, <2>2 DEF RefreshAndAccept
<1>5. Given'
  BY <1>3 DEF GInv, Given
<1> QED BY <1>3, <1>4, <1>5 DEF GInv

-----------------------------------------------------------------------------
(* The streams' steps *)

\* The memory of a conversation has its newest answers, loaded or not.
LEMMA RememberedHas ==
  ASSUME IInv, GInv, NEW c \in Conversations
  PROVE  SameAnswers(Remembered(c), Recent(store[c]))
<1>1. Recent(store[c]) \in Seq(Exchange)
  BY RecentType DEF IInv, TypeOK
<1> QED BY <1>1, SameAnswersIs DEF Remembered, GInv, MemoryHas

\* A run that begins is given the newest answers, the page's among them or older.
LEMMA GivenBegin ==
  ASSUME IInv, GInv, NEW i \in DOMAIN attempts, Begin(i), busy = i
  PROVE  Given'
<1>1. PICK c \in Conversations : c = IF attempts[i].payload # None THEN attempts[i].payload ELSE i
  BY BeginsIn DEF IInv
<1> DEFINE x == Remembered(c)
           h == [n \in DOMAIN x |-> x[n].answer]
           s == store[c]
<1>2. x \in Seq(Exchange) /\ s \in Seq(Exchange)
  BY RememberedType, Elements DEF IInv
<1>3. attempts' = [attempts EXCEPT ![i] =
             [attempts[i] EXCEPT !.pc = "running", !.conversation = c,
                                 !.history = h, !.events = Sent(i, "run_started")]]
  BY <1>1 DEF Begin
<1>4. ASSUME NEW y \in Attempt, NEW g, NEW ev
      PROVE  LET z == [y EXCEPT !.pc = "running", !.conversation = c, !.history = g, !.events = ev]
             IN  z.conversation = c /\ z.history = g
  BY DEF Attempt
<1>5. attempts'[i].conversation = c /\ attempts'[i].history = h
  <2> DEFINE z == [attempts[i] EXCEPT !.pc = "running", !.conversation = c,
                                      !.history = h, !.events = Sent(i, "run_started")]
  <2>1. attempts[i] \in Attempt
    BY Elements DEF IInv
  <2> HIDE DEF h
  <2>2. z.conversation = c /\ z.history = h
    BY <2>1, <1>4
  <2>3. attempts' = [attempts EXCEPT ![i] = z]
    BY <1>3
  <2> HIDE DEF z
  <2>4. attempts'[i] = z
    BY <2>3
  <2> QED BY <2>2, <2>4
<1>6. busy' = i /\ store' = store /\ messages' = messages
  BY DEF Begin, browser
<1>7. Len(x) = Len(Recent(s)) /\ \A n \in 1..Len(x) : x[n].answer = Recent(s)[n].answer
  BY <1>2, RememberedHas, Places DEF SameAnswers
<1>8. h \in Seq(1..MaxAttempts) /\ Len(h) = Len(x)
  <2>1. h \in Seq(1..MaxAttempts)
    BY <1>2, HistoryType
  <2>2. DOMAIN h = DOMAIN x
    OBVIOUS
  <2>3. ASSUME NEW a \in Nat, NEW b \in Nat, 1..a = 1..b PROVE a = b
    BY <2>3, SMT
  <2> HIDE DEF h, x
  <2>4. DOMAIN h = 1..Len(h) /\ Len(h) \in Nat /\ DOMAIN x = 1..Len(x) /\ Len(x) \in Nat
    BY <2>1, <1>2, Places
  <2> QED BY <2>1, <2>2, <2>3, <2>4
<1>9. Len(s) \in Nat /\ DOMAIN x = 1..Len(x) /\ DOMAIN s = 1..Len(s)
  BY <1>2, Places
<1>10. Len(h) = IF Len(s) <= Window THEN Len(s) ELSE Window
  BY <1>2, <1>7, <1>8, RecentPlaces
<1>11. \A n \in DOMAIN h : h[n] = s[(Len(s) - Len(h)) + n].answer
  <2> SUFFICES ASSUME NEW n \in 1..Len(x) PROVE x[n].answer = s[(Len(s) - Len(x)) + n].answer
    BY <1>8, <1>9
  <2>1. x[n].answer = Recent(s)[n].answer
    BY <1>7
  <2>2. Recent(s)[n] = s[(Len(s) - Len(Recent(s))) + n]
    BY <1>2, <1>7, RecentPlaces
  <2> QED BY <2>1, <2>2, <1>7
<1>12. \A k \in DOMAIN messages : messages[k].status = "done" =>
         \E n \in 1..Len(s) : s[n].answer = messages[k].answer
  <2> SUFFICES ASSUME NEW k \in DOMAIN messages, messages[k].status = "done"
               PROVE  \E n \in 1..Len(s) : s[n].answer = messages[k].answer
    OBVIOUS
  <2>1. /\ Settled(attempts, store, messages[k].answer)
        /\ attempts[messages[k].answer].conversation = backendId
        /\ \A j \in DOMAIN messages : k < j => messages[j].payload = backendId
    BY DEF IInv, PageSound
  <2>2. backendId \in Conversations /\ Once(store[backendId], messages[k].answer)
    BY <2>1 DEF Settled
  <2>3. busy # None
    BY Elements, SMT DEF IInv, None
  <2>4. Len(messages) \in DOMAIN messages /\ k \in 1..Len(messages) /\ Len(messages) \in Nat
    <3>1. messages \in Seq(Message)
      BY DEF IInv, TypeOK
    <3>2. DOMAIN messages = 1..Len(messages) /\ Len(messages) \in Nat
      BY <3>1, Places
    <3>3. Len(messages) \in DOMAIN messages
      BY <3>2, SMT
    <3> QED BY <3>2, <3>3
  <2>5. k # Len(messages)
    BY <2>3 DEF IInv, BusyLast
  <2>6. k < Len(messages)
    BY <2>4, <2>5, SMT
  <2>7. attempts[i].payload = backendId
    BY <2>1, <2>3, <2>4, <2>6 DEF IInv, BusyLast
  <2>8. None \notin Conversations
    BY SMT DEF None, Conversations
  <2>9. c = backendId
    BY <1>1, <2>2, <2>7, <2>8
  <2>10. PICK n \in DOMAIN s : s[n].answer = messages[k].answer
    BY <2>2, <2>9 DEF Once
  <2> QED BY <2>10, <1>9
<1>13. GivenOf(h, s, Len(s), messages)
  <2> HIDE DEF s, h
  <2>1. Len(s) <= Len(s)
    BY <1>9, SMT
  <2> QED BY <2>1, <1>9, <1>10, <1>11, <1>12 DEF GivenOf
<1> QED BY <1>5, <1>6, <1>9, <1>13 DEF Given

\* A run that begins, of the open stream or of one nobody reads.
LEMMA GInvBegin ==
  ASSUME IInv, GInv, NEW i \in DOMAIN attempts, Begin(i)
  PROVE  GInv'
<1>1. PICK c \in Conversations : c = IF attempts[i].payload # None THEN attempts[i].payload ELSE i
  BY BeginsIn DEF IInv
<1>2. loaded' = loaded \cup {c} /\ turns' = [turns EXCEPT ![c] = Remembered(c)]
  BY <1>1 DEF Begin, Remember
<1>3. store' = store /\ messages' = messages /\ busy' = busy
  BY DEF Begin, browser
<1>4. turns \in [Conversations -> Seq(Exchange)] /\ loaded \subseteq Conversations
  BY DEF IInv, TypeOK
<1>5. \A d \in loaded' : MemoryHas(d)'
  BY <1>1, <1>2, <1>3, <1>4, RememberedHas DEF GInv, MemoryHas
<1>6. CASE busy = i
  BY <1>3, <1>5, <1>6, GivenBegin DEF GInv
<1>7. CASE busy # i
  <2>1. busy # None => attempts'[busy] = attempts[busy]
    BY <1>7, Elements DEF Begin, IInv
  <2>2. Given'
    BY <2>1, <1>3, GivenKept, GrowsStill DEF GInv
  <2> QED BY <2>2, <1>3, <1>5 DEF GInv
<1> QED BY <1>6, <1>7

\* A stream that ends, or sends its answer, ends the run.
LEMMA GInvEnd ==
  ASSUME IInv, GInv, NEW i \in DOMAIN attempts,
         Fail(i) \/ BreakOff(i) \/ NoticeDisconnect(i) \/ Deliver(i)
  PROVE  GInv'
<1>1. UNCHANGED <<messages, busy, store, memory>>
  BY DEF Fail, BreakOff, NoticeDisconnect, Deliver, Stopped, browser
<1>2. PICK x : attempts' = [attempts EXCEPT ![i] = x] /\ x.pc = "ended"
  <2>1. ASSUME NEW y \in Attempt, NEW ev
        PROVE  /\ [y EXCEPT !.pc = "ended", !.history = <<>>, !.events = ev].pc = "ended"
               /\ [y EXCEPT !.pc = "ended", !.events = ev].pc = "ended"
    BY DEF Attempt
  <2>2. attempts[i] \in Attempt
    BY Elements DEF IInv
  <2>3. CASE Deliver(i)
    <3> DEFINE z == [attempts[i] EXCEPT !.pc = "ended", !.events = Sent(i, "run_completed")]
    <3>1. z.pc = "ended" /\ attempts' = [attempts EXCEPT ![i] = z]
      BY <2>1, <2>2, <2>3 DEF Deliver
    <3> HIDE DEF z
    <3> QED BY <3>1
  <2>4. CASE Fail(i) \/ BreakOff(i) \/ NoticeDisconnect(i)
    <3>1. PICK events : Stopped(i, events)
      BY <2>4 DEF Fail, BreakOff, NoticeDisconnect
    <3> DEFINE z == [attempts[i] EXCEPT !.pc = "ended", !.history = <<>>, !.events = events]
    <3>2. z.pc = "ended" /\ attempts' = [attempts EXCEPT ![i] = z]
      BY <2>1, <2>2, <3>1 DEF Stopped
    <3> HIDE DEF z
    <3> QED BY <3>2
  <2> QED BY <2>3, <2>4
<1>3. \A j \in DOMAIN attempts : attempts'[j] = IF j = i THEN x ELSE attempts[j]
  BY <1>2
<1>4. busy # None /\ attempts'[busy].pc = "running" => attempts'[busy] = attempts[busy]
  BY <1>2, <1>3, Elements DEF IInv
<1>5. Given'
  BY <1>1, <1>4, GivenKept, GrowsStill DEF GInv
<1> QED BY <1>1, <1>5, GInvStill

\* The exchange that is stored is a new one, and remembered too.
LEMMA GInvFinish ==
  ASSUME IInv, GInv, NEW i \in DOMAIN attempts, Finish(i)
  PROVE  GInv'
<1> DEFINE e == [answer |-> i, opinion |-> "none"]
<1>1. PICK c \in Conversations : c = attempts[i].conversation
  BY DEF Finish, IInv, AttemptsNamed
<1>2. e \in Exchange /\ e.answer = i
  BY Elements DEF Exchange, IInv
<1>3. /\ loaded' = loaded \cup {c}
      /\ turns' = [turns EXCEPT ![c] = Recent(Append(Remembered(c), e))]
      /\ store' = [store EXCEPT ![c] = Append(store[c], e)]
  BY <1>1 DEF Finish, Remember
<1> HIDE DEF e
<1>4. /\ turns \in [Conversations -> Seq(Exchange)] /\ store \in [Conversations -> Seq(Exchange)]
      /\ loaded \subseteq Conversations
  BY DEF IInv, TypeOK
<1>5. /\ turns'[c] = Recent(Append(Remembered(c), e)) /\ store'[c] = Append(store[c], e)
      /\ \A d \in Conversations \ {c} : turns'[d] = turns[d] /\ store'[d] = store[d]
  BY <1>3, <1>4
<1>6. SameAnswers(turns'[c], Recent(store'[c]))
  <2>1. Remembered(c) \in Seq(Exchange) /\ Recent(store[c]) \in Seq(Exchange) /\ store[c] \in Seq(Exchange)
    BY <1>4, RememberedType, RecentType DEF IInv
  <2>2. SameAnswers(Append(Remembered(c), e), Append(Recent(store[c]), e))
    BY <1>2, <2>1, RememberedHas, AppendAnswers
  <2>3. Append(Remembered(c), e) \in Seq(Exchange) /\ Append(Recent(store[c]), e) \in Seq(Exchange)
    <3>1. ASSUME NEW s \in Seq(Exchange) PROVE Append(s, e) \in Seq(Exchange)
      BY <1>2, SMT
    <3> QED BY <3>1, <2>1
  <2>4. SameAnswers(Recent(Append(Remembered(c), e)), Recent(Append(Recent(store[c]), e)))
    BY <2>2, <2>3, RecentAnswers
  <2> QED BY <2>1, <2>4, <1>2, <1>5, RecentAppend
<1>7. \A d \in loaded' : MemoryHas(d)'
  <2> SUFFICES ASSUME NEW d \in loaded' PROVE SameAnswers(turns'[d], Recent(store'[d]))
    BY DEF MemoryHas
  <2>1. CASE d = c
    BY <2>1, <1>6
  <2>2. CASE d # c
    BY <2>2, <1>3, <1>4, <1>5 DEF GInv, MemoryHas
  <2> QED BY <2>1, <2>2
<1>8. \A n \in DOMAIN store[c] : store[c][n].answer # e.answer
  BY <1>1, <1>2 DEF IInv, StoreSound, Finish
<1>9. \A d \in Conversations : Distinct(store'[d])
  BY <1>2, <1>4, <1>5, <1>8, DistinctAppend DEF GInv
<1>10. Grows(store, store')
  <2> SUFFICES ASSUME NEW d \in Conversations
               PROVE  /\ Len(store[d]) \in Nat /\ Len(store'[d]) \in Nat
                      /\ Len(store[d]) <= Len(store'[d])
                      /\ \A n \in 1..Len(store[d]) : store'[d][n].answer = store[d][n].answer
    BY DEF Grows
  <2>1. ASSUME NEW S, NEW s \in Seq(S), NEW f \in S
        PROVE  /\ Len(s) \in Nat /\ Len(Append(s, f)) \in Nat /\ Len(s) <= Len(s)
               /\ Len(s) <= Len(Append(s, f))
               /\ \A n \in 1..Len(s) : Append(s, f)[n] = s[n]
    BY SMT
  <2>2. CASE d = c
    BY <2>1, <2>2, <1>2, <1>4, <1>5
  <2>3. CASE d # c
    BY <2>1, <2>3, <1>2, <1>4, <1>5
  <2> QED BY <2>2, <2>3
<1>11. busy' = busy /\ messages' = messages
  BY DEF Finish, browser
<1>12. busy # None /\ attempts'[busy].pc = "running" => attempts'[busy] = attempts[busy]
  <2>1. \A y \in Attempt : [y EXCEPT !.pc = "stored", !.history = <<>>].pc # "running"
    BY DEF Attempt
  <2> QED BY <2>1, Elements DEF Finish, IInv
<1>13. Given'
  BY <1>10, <1>11, <1>12, GivenKept DEF GInv
<1> QED BY <1>7, <1>9, <1>13 DEF GInv

-----------------------------------------------------------------------------

LEMMA InitGInv == Init => GInv
<1> SUFFICES ASSUME Init PROVE GInv
  OBVIOUS
<1>1. DOMAIN <<>> = {}
  BY SMT
<1>2. loaded = {} /\ busy = None /\ \A c \in Conversations : DOMAIN store[c] = {}
  BY <1>1 DEF Init
<1> QED BY <1>2 DEF GInv, Distinct, Given

\* Every step keeps what is known of the runs.
LEMMA StepGInv == IInv /\ GInv /\ [Next]_vars => GInv'
<1> SUFFICES ASSUME IInv, GInv, [Next]_vars PROVE GInv'
  OBVIOUS
<1>1. CASE Ask \/ \E k \in DOMAIN messages : Retry(k)
  BY <1>1, GInvOpen DEF Ask, Retry
<1>2. CASE Receive \/ Save \/ Reload \/ Crash
  BY <1>2, GInvReceive, GInvSave, GInvReload, GInvCrash
<1>3. CASE \E k \in DOMAIN messages : SendVote(k)
  BY <1>3, GInvHeard
<1>4. CASE \E i \in DOMAIN attempts : Stream(i)
  BY <1>4, GInvBegin, GInvEnd, GInvFinish DEF Stream
<1>5. CASE \E v \in DOMAIN votes : HandleVote(v)
  BY <1>5, GInvRecord, GInvRefresh, GInvHeard DEF HandleVote
<1>6. CASE UNCHANGED vars
  BY <1>6, GInvStill DEF vars, memory, GInv, Given
<1> QED BY <1>1, <1>2, <1>3, <1>4, <1>5, <1>6 DEF Next

\* Distinct places of distinct answers: a history has as many answers as places.
LEMMA CountedOnce ==
  ASSUME NEW W \in Nat, NEW h, DOMAIN h = 1..W, \A m, n \in 1..W : h[m] = h[n] => m = n
  PROVE  Cardinality({h[n] : n \in 1..W}) = W
<1> DEFINE T == {h[n] : n \in 1..W}
           f == [n \in 1..W |-> h[n]]
<1>1. f \in Bijection(1..W, T)
  <2>1. f \in [1..W -> T]
    OBVIOUS
  <2>2. f \in Injection(1..W, T)
    BY <2>1 DEF Injection, IsInjective
  <2>3. f \in Surjection(1..W, T)
    BY <2>1 DEF Surjection
  <2> QED BY <2>2, <2>3 DEF Bijection
<1>2. ExistsBijection(1..W, T)
  BY <1>1 DEF ExistsBijection
<1> HIDE DEF T
<1>3. Cardinality(T) = W
  BY <1>2, FS_CountingElements
<1> QED BY <1>3 DEF T

\* The run that answers a question is given every earlier answer of the page, or
\* as many newer ones as the memory keeps: for any memory, after any restarts
\* and reloads, on a retry, and whatever is voted at the same time.
THEOREM EarlierAnswersSeen == Spec => []SeesEarlierAnswers
<1>1. IInv /\ GInv => SeesEarlierAnswers
  <2> SUFFICES ASSUME IInv, GInv, busy # None, attempts[busy].pc = "running",
                      NEW k \in DOMAIN messages, messages[k].status = "done"
               PROVE  LET given == {attempts[busy].history[n] : n \in DOMAIN attempts[busy].history}
                          stored == store[ConversationOf(messages[k])]
                          newer == {stored[n].answer : n \in
                                      {n \in DOMAIN stored :
                                         \E m \in 1..(n - 1) : stored[m].answer = messages[k].answer}}
                      IN messages[k].answer \in given \/ Cardinality(given \cap newer) = Window
    BY DEF SeesEarlierAnswers, Answered
  <2> DEFINE h == attempts[busy].history
             s == store[attempts[busy].conversation]
             answer == messages[k].answer
             given == {h[n] : n \in DOMAIN h}
             newer == {s[n].answer : n \in {n \in DOMAIN s : \E m \in 1..(n - 1) : s[m].answer = answer}}
  <2>1. /\ busy \in DOMAIN attempts /\ h \in Seq(1..MaxAttempts)
        /\ attempts[busy].conversation \in Conversations /\ s \in Seq(Exchange)
    BY Elements DEF IInv, Attempt, AttemptsNamed
  <2>2. ConversationOf(messages[k]) = attempts[busy].conversation
    BY <2>1, BusyHere DEF IInv, PageSound, ConversationOf
  <2>3. SUFFICES answer \in given \/ Cardinality(given \cap newer) = Window
    BY <2>2
  <2>4. PICK d \in Nat : GivenOf(h, s, d, messages)
    BY DEF GInv, Given
  <2>5. Distinct(s)
    BY <2>1 DEF GInv
  <2> HIDE DEF h, s
  <2>6. /\ DOMAIN h = 1..Len(h) /\ Len(h) \in Nat /\ DOMAIN s = 1..Len(s) /\ Len(s) \in Nat
    BY <2>1, Places
  <2>7. /\ d <= Len(s) /\ Len(h) = IF d <= Window THEN d ELSE Window
        /\ \A n \in DOMAIN h : h[n] = s[(d - Len(h)) + n].answer
    BY <2>4 DEF GivenOf
  <2>8. PICK p \in 1..d : s[p].answer = answer
    BY <2>4 DEF GivenOf
  <2>9. Len(h) <= d
    BY <2>6, <2>7, WindowAssumption, SMT
  <2>10. CASE d - Len(h) < p
    <3> DEFINE n == p - (d - Len(h))
    <3>1. n \in 1..Len(h) /\ (d - Len(h)) + n = p
      BY <2>6, <2>9, <2>10, SMT
    <3> HIDE DEF n
    <3>2. h[n] = s[p].answer
      BY <3>1, <2>6, <2>7
    <3>3. answer \in given
      BY <3>1, <3>2, <2>6, <2>8
    <3> QED BY <3>3
  <2>11. CASE p <= d - Len(h)
    <3>1. Len(h) = Window /\ Window \in Nat
      BY <2>6, <2>7, <2>8, <2>11, WindowAssumption, SMT
    <3>2. \A n \in 1..Window : /\ (d - Window) + n \in 1..Len(s)
                               /\ p \in 1..(((d - Window) + n) - 1)
      BY <3>1, <2>6, <2>7, <2>9, <2>11, SMT
    <3>3. given \subseteq newer
      <4> SUFFICES ASSUME NEW n \in 1..Window PROVE h[n] \in newer
        BY <3>1, <2>6
      <4> DEFINE q == (d - Window) + n
      <4>1. q \in DOMAIN s /\ p \in 1..(q - 1)
        BY <3>2, <2>6
      <4>2. h[n] = s[q].answer
        BY <3>1, <2>6, <2>7
      <4> HIDE DEF q
      <4> QED BY <4>1, <4>2, <2>8
    <3>4. \A m, n \in 1..Window : h[m] = h[n] => m = n
      <4> SUFFICES ASSUME NEW m \in 1..Window, NEW n \in 1..Window, h[m] = h[n] PROVE m = n
        OBVIOUS
      <4>1. s[(d - Window) + m].answer = s[(d - Window) + n].answer
        BY <3>1, <2>6, <2>7
      <4>2. (d - Window) + m = (d - Window) + n
        BY <4>1, <3>2, <2>5, <2>6 DEF Distinct
      <4> QED BY <4>2, <3>1, SMT
    <3>5. Cardinality(given) = Window
      BY <3>1, <3>4, <2>6, CountedOnce
    <3>6. given \cap newer = given
      BY <3>3
    <3> QED BY <3>5, <3>6
  <2>12. d - Len(h) < p \/ p <= d - Len(h)
    BY <2>6, SMT
  <2> QED BY <2>10, <2>11, <2>12
<1> QED BY <1>1, Invariance, InitGInv, StepGInv, PTL DEF Spec

-----------------------------------------------------------------------------
(* The refinement: to a durable conversation a session is the runs that    *)
(* begin, end and are answered, the votes that are recorded, and the       *)
(* answers that come and go on the page; all else is a stutter.            *)

\* A step of one attempt is a step of its run.
LEMMA RunChanges ==
  ASSUME TypeOK, NEW i \in DOMAIN attempts, NEW x, attempts' = [attempts EXCEPT ![i] = x]
  PROVE  /\ i \in 1..MaxAttempts /\ RunsOf[i] = RunOf(i)
         /\ RunsOf' = [RunsOf EXCEPT ![i] = RunOf(i)']
<1>1. /\ i \in 1..MaxAttempts /\ DOMAIN attempts' = DOMAIN attempts
      /\ \A j : j # i => attempts'[j] = attempts[j] \/ j \notin DOMAIN attempts
  BY Elements
<1>2. ASSUME NEW j \in 1..MaxAttempts, j # i PROVE RunOf(j)' = RunOf(j)
  BY <1>1, <1>2 DEF RunOf
<1>3. RunsOf' = [j \in 1..MaxAttempts |-> RunOf(j)']
  BY DEF RunsOf
<1>4. RunsOf = [j \in 1..MaxAttempts |-> RunOf(j)]
  BY DEF RunsOf
<1> HIDE DEF RunsOf
<1>5. [RunsOf EXCEPT ![i] = RunOf(i)'] = [j \in 1..MaxAttempts |-> IF j = i THEN RunOf(i)' ELSE RunsOf[j]]
  BY <1>1, <1>4
<1>6. \A j \in 1..MaxAttempts : RunOf(j)' = IF j = i THEN RunOf(i)' ELSE RunsOf[j]
  BY <1>2, <1>4
<1> QED BY <1>1, <1>3, <1>4, <1>5, <1>6

\* What changes in the attempts is no run's doing.
LEMMA RunsStay ==
  ASSUME \A i \in 1..MaxAttempts : RunOf(i)' = RunOf(i)
  PROVE  RunsOf' = RunsOf
BY DEF RunsOf

LEMMA EventsOnly ==
  ASSUME DOMAIN attempts' = DOMAIN attempts,
         \A i \in DOMAIN attempts : /\ attempts'[i].pc = attempts[i].pc
                                    /\ attempts'[i].conversation = attempts[i].conversation
                                    /\ attempts'[i].history = attempts[i].history
  PROVE  RunsOf' = RunsOf
BY RunsStay DEF RunOf

\* The answers of a page are stored in one conversation.
ShownOn(page) == {page[k].answer : k \in {k \in DOMAIN page : page[k].status = "done"}}

LEMMA ShownIsKept ==
  ASSUME NEW page, NEW id, NEW a, NEW s, PageSound(page, id, a, s), ShownOn(page) # {}
  PROVE  \E c \in Conversations : ShownOn(page) \subseteq {s[c][n].answer : n \in DOMAIN s[c]}
<1>1. ASSUME NEW k \in DOMAIN page, page[k].status = "done"
      PROVE  id \in Conversations /\ \E n \in DOMAIN s[id] : s[id][n].answer = page[k].answer
  <2>1. Settled(a, s, page[k].answer) /\ a[page[k].answer].conversation = id
    BY <1>1 DEF PageSound
  <2> QED BY <2>1 DEF Settled, Once
<1>2. id \in Conversations
  BY <1>1 DEF ShownOn
<1> QED BY <1>1, <1>2 DEF ShownOn

\* Whatever the page does otherwise.
LEMMA ShowsKept ==
  ASSUME IInv, IInv', RunsOf' = RunsOf, store' = store
  PROVE  [Durable!Next]_(Durable!vars)
<1>a. Shown = ShownOn(messages) /\ Shown' = ShownOn(messages')
  BY DEF Shown, Answered, ShownOn
<1>1. CASE Shown' = Shown
  BY <1>1 DEF Durable!vars
<1>2. CASE Shown' # Shown /\ Shown' # {}
  <2>1. \E c \in Conversations : Shown' \subseteq {store'[c][n].answer : n \in DOMAIN store'[c]}
    BY <1>2, <1>a, ShownIsKept DEF IInv
  <2> QED BY <2>1 DEF Durable!Next, Durable!Show
<1>3. CASE Shown' # Shown /\ Shown' = {}
  <2>1. PICK c \in Conversations : Shown \subseteq {store[c][n].answer : n \in DOMAIN store[c]}
    BY <1>3, <1>a, ShownIsKept DEF IInv
  <2>2. Shown' \subseteq {store[c][n].answer : n \in DOMAIN store[c]}
    BY <1>3
  <2> QED BY <2>1, <2>2 DEF Durable!Next, Durable!Show
<1> QED BY <1>1, <1>2, <1>3

\* The page and the answers it shows, kept.
LEMMA ShownStays ==
  ASSUME messages' = messages
  PROVE  Shown' = Shown
BY DEF Shown, Answered

\* The steps of the browser: a question or a retry sends a request, which is no run yet, and
\* of an event only what the page shows of it is seen outside.
LEMMA OpenDurable ==
  ASSUME IInv, IInv', NEW k, NEW c, Open(k, c)
  PROVE  [Durable!Next]_(Durable!vars)
<1> DEFINE x == [message |-> k, payload |-> c, conversation |-> None,
                 history |-> <<>>, pc |-> "sent", events |-> <<>>]
<1>1. attempts' = Append(attempts, x) /\ store' = store
  BY DEF Open
<1>2. x.pc = "sent"
  OBVIOUS
<1> HIDE DEF x
<1>3. /\ \A i \in DOMAIN attempts : i \in DOMAIN attempts' /\ attempts'[i] = attempts[i]
      /\ \A i \in DOMAIN attempts' : i \in DOMAIN attempts \/ attempts'[i] = x
  <2>1. ASSUME NEW s \in Seq(Attempt)
        PROVE  /\ \A i \in DOMAIN s : i \in DOMAIN Append(s, x) /\ Append(s, x)[i] = s[i]
               /\ \A i \in DOMAIN Append(s, x) : i \in DOMAIN s \/ Append(s, x)[i] = x
    BY SMT
  <2> QED BY <1>1, <2>1 DEF IInv, TypeOK
<1>4. RunsOf' = RunsOf
  BY <1>2, <1>3, RunsStay DEF RunOf
<1> QED BY <1>1, <1>4, ShowsKept

LEMMA BrowserDurable ==
  ASSUME IInv, IInv', Receive \/ Save \/ Reload
  PROVE  [Durable!Next]_(Durable!vars)
<1>1. busy # None => busy \in DOMAIN attempts
  BY Elements DEF IInv
<1>2. /\ DOMAIN attempts' = DOMAIN attempts
      /\ \A i \in DOMAIN attempts : /\ attempts'[i].pc = attempts[i].pc
                                    /\ attempts'[i].conversation = attempts[i].conversation
                                    /\ attempts'[i].history = attempts[i].history
  <2>0. \A i \in DOMAIN attempts : attempts[i] \in Attempt
    BY Elements DEF IInv
  <2>1. ASSUME NEW events, busy # None, attempts' = [attempts EXCEPT ![busy].events = events]
        PROVE  <1>2!1 /\ <1>2!2
    BY <1>1, <2>0, <2>1 DEF Attempt
  <2>2. CASE Receive
    BY <2>1, <2>2 DEF Receive, ReceiveStarted, ReceiveCompleted, ReceiveFailed, StopReading, Arrives
  <2>3. CASE Save
    BY <2>3 DEF Save
  <2>4. CASE Reload
    BY <2>0, <2>4 DEF Reload, Attempt
  <2> QED BY <2>2, <2>3, <2>4
<1>3. store' = store
  BY DEF Receive, ReceiveStarted, ReceiveCompleted, ReceiveFailed, StopReading, Save, Reload
<1> QED BY <1>2, <1>3, EventsOnly, ShowsKept

\* Runs end: one, or with a crash all that had begun.
LEMMA CrashDurable ==
  ASSUME IInv, Crash
  PROVE  [Durable!Next]_(Durable!vars)
<1> DEFINE some == {i \in 1..MaxAttempts : i \in DOMAIN attempts /\ attempts[i].pc # "sent"}
<1>1. /\ DOMAIN attempts' = DOMAIN attempts
      /\ \A i \in DOMAIN attempts :
           attempts'[i].pc = IF attempts[i].pc = "sent" THEN "sent" ELSE "ended"
  BY Elements DEF Crash, IInv, Attempt
<1>2. ASSUME NEW i \in 1..MaxAttempts
      PROVE  RunOf(i)' = IF i \in some THEN [state |-> "over"] ELSE RunsOf[i]
  BY <1>1 DEF RunOf, RunsOf
<1>3. RunsOf' = [i \in 1..MaxAttempts |-> IF i \in some THEN [state |-> "over"] ELSE RunsOf[i]]
  BY <1>2 DEF RunsOf
<1>4. some \in SUBSET (1..MaxAttempts)
  OBVIOUS
<1> HIDE DEF some
<1>5. store' = store /\ Shown' = Shown
  BY ShownStays DEF Crash, browser
<1> QED BY <1>3, <1>4, <1>5 DEF Durable!Next, Durable!GiveUp

LEMMA StoppedDurable ==
  ASSUME IInv, NEW i \in DOMAIN attempts, Fail(i) \/ BreakOff(i) \/ NoticeDisconnect(i)
  PROVE  [Durable!Next]_(Durable!vars)
<1>1. PICK x : attempts' = [attempts EXCEPT ![i] = x] /\ x.pc = "ended"
  <2>1. PICK events : attempts' = [attempts EXCEPT ![i] =
                        [attempts[i] EXCEPT !.pc = "ended", !.history = <<>>, !.events = events]]
    BY DEF Fail, BreakOff, NoticeDisconnect, Stopped
  <2>2. attempts[i] \in Attempt
    BY Elements DEF IInv
  <2>3. [attempts[i] EXCEPT !.pc = "ended", !.history = <<>>, !.events = events].pc = "ended"
    BY <2>2 DEF Attempt
  <2> QED BY <2>1, <2>3
<1>2. i \in 1..MaxAttempts /\ RunsOf' = [RunsOf EXCEPT ![i] = RunOf(i)']
  BY <1>1, RunChanges DEF IInv
<1>3. RunOf(i)' = [state |-> "over"]
  BY <1>1 DEF RunOf
<1>4. RunsOf' = [j \in 1..MaxAttempts |-> IF j \in {i} THEN [state |-> "over"] ELSE RunsOf[j]]
  <2>1. DOMAIN RunsOf = 1..MaxAttempts
    BY DEF RunsOf
  <2> QED BY <1>2, <1>3, <2>1
<1>5. store' = store /\ Shown' = Shown
  BY ShownStays DEF Fail, BreakOff, NoticeDisconnect, Stopped, browser
<1>6. {i} \in SUBSET (1..MaxAttempts)
  BY <1>2
<1> QED BY <1>4, <1>5, <1>6 DEF Durable!Next, Durable!GiveUp

\* Exchanges with the answers of the newest exchanges of s have its newest answers.
LEMMA NewestIs ==
  ASSUME NEW s \in Seq(Exchange), NEW r \in Seq(Exchange), SameAnswers(r, Recent(s))
  PROVE  [n \in DOMAIN r |-> r[n].answer] = Durable!Newest(s)
<1> DEFINE older == IF Len(s) > Window THEN Len(s) - Window ELSE 0
<1>1. Len(s) \in Nat /\ DOMAIN r = 1..Len(r) /\ Len(r) \in Nat /\ Len(r) = Len(Recent(s))
  BY Places DEF SameAnswers
<1>2. Len(s) - older = Len(r) /\ older = Len(s) - Len(Recent(s))
  <2>1. PICK l \in Nat : l = Len(s)
    BY <1>1
  <2>2. PICK k : k = Len(Recent(s))
    OBVIOUS
  <2>3. k = IF l <= Window THEN l ELSE Window
    BY <2>1, <2>2, RecentPlaces
  <2>4. older = IF l > Window THEN l - Window ELSE 0
    BY <2>1
  <2> HIDE DEF older
  <2>5. l - older = k /\ older = l - k
    BY ONLY l \in Nat, <2>3, <2>4, WindowAssumption, SMT
  <2> QED BY <2>1, <2>2, <2>5, <1>1
<1>3. ASSUME NEW n \in 1..Len(r) PROVE r[n].answer = s[older + n].answer
  <2>1. Recent(s)[n] = s[(Len(s) - Len(Recent(s))) + n]
    BY <1>1, RecentPlaces
  <2> QED BY <2>1, <1>1, <1>2 DEF SameAnswers
<1>4. Durable!Newest(s) = [n \in 1..(Len(s) - older) |-> s[older + n].answer]
  BY DEF Durable!Newest
<1> HIDE DEF older
<1> QED BY <1>1, <1>2, <1>3, <1>4

\* A run that begins is given the newest answers of its conversation, from the memory.
LEMMA BeginDurable ==
  ASSUME IInv, GInv, NEW i \in DOMAIN attempts, Begin(i)
  PROVE  [Durable!Next]_(Durable!vars)
<1>1. PICK c : c = IF attempts[i].payload # None THEN attempts[i].payload ELSE i
  OBVIOUS
<1>2. PICK given : given = [n \in DOMAIN Remembered(c) |-> Remembered(c)[n].answer]
  OBVIOUS
<1>3. c \in Conversations
  BY <1>1, BeginsIn DEF IInv
<1>4. given = Durable!Newest(store[c])
  <2>1. store[c] \in Seq(Exchange) /\ Remembered(c) \in Seq(Exchange)
    BY <1>3, Elements, RememberedType DEF IInv
  <2> QED BY <2>1, <1>2, <1>3, RememberedHas, NewestIs
<1>5. PICK x : /\ attempts' = [attempts EXCEPT ![i] = x]
               /\ x.pc = "running" /\ x.conversation = c /\ x.history = given
  <2>1. attempts' = [attempts EXCEPT ![i] =
          [attempts[i] EXCEPT !.pc = "running", !.conversation = c, !.history = given,
                              !.events = Sent(i, "run_started")]]
    BY <1>1, <1>2 DEF Begin
  <2>2. attempts[i] \in Attempt
    BY Elements DEF IInv
  <2> DEFINE y == [attempts[i] EXCEPT !.pc = "running", !.conversation = c, !.history = given,
                                      !.events = Sent(i, "run_started")]
  <2>3. y.pc = "running" /\ y.conversation = c /\ y.history = given
    BY <2>2 DEF Attempt
  <2> QED BY <2>1, <2>3
<1>6. /\ i \in 1..MaxAttempts /\ RunsOf[i] = RunOf(i)
      /\ RunsOf' = [RunsOf EXCEPT ![i] = RunOf(i)']
  BY <1>5, RunChanges DEF IInv
<1>7. RunOf(i) = [state |-> "idle"] /\ RunsOf[i].state = "idle"
  BY <1>6 DEF RunOf, Begin
<1>8. RunOf(i)' = [state |-> "working", conversation |-> c, given |-> Durable!Newest(store[c])]
  BY <1>4, <1>5 DEF RunOf
<1>9. store' = store /\ Shown' = Shown
  BY ShownStays DEF Begin, browser
<1>10. Durable!Begin(i)
  BY <1>3, <1>6, <1>7, <1>8, <1>9 DEF Durable!Begin
<1> QED BY <1>6, <1>10 DEF Durable!Next

\* The answer of a run is kept in the conversation it began in, and the run is over.
LEMMA FinishDurable ==
  ASSUME IInv, NEW i \in DOMAIN attempts, Finish(i)
  PROVE  [Durable!Next]_(Durable!vars)
<1>1. PICK x : attempts' = [attempts EXCEPT ![i] = x] /\ x.pc = "stored"
  <2>1. attempts[i] \in Attempt
    BY Elements DEF IInv
  <2>2. [attempts[i] EXCEPT !.pc = "stored", !.history = <<>>].pc = "stored"
    BY <2>1 DEF Attempt
  <2> QED BY <2>2 DEF Finish
<1>2. /\ i \in 1..MaxAttempts /\ RunsOf[i] = RunOf(i)
      /\ RunsOf' = [RunsOf EXCEPT ![i] = RunOf(i)']
  BY <1>1, RunChanges DEF IInv
<1>3. RunOf(i)' = [state |-> "over"]
  BY <1>1 DEF RunOf
<1>4. RunsOf[i].state = "working" /\ RunsOf[i].conversation = attempts[i].conversation
  BY <1>2 DEF RunOf, Finish
<1>5. store' = [store EXCEPT ![attempts[i].conversation] = Append(@, [answer |-> i, opinion |-> "none"])]
  BY DEF Finish
<1>6. Shown' = Shown
  BY ShownStays DEF Finish, browser
<1>7. Durable!Answer(i)
  BY <1>2, <1>3, <1>4, <1>5, <1>6 DEF Durable!Answer
<1> QED BY <1>2, <1>7 DEF Durable!Next

LEMMA DeliverDurable ==
  ASSUME IInv, NEW i \in DOMAIN attempts, Deliver(i)
  PROVE  [Durable!Next]_(Durable!vars)
<1>1. PICK x : attempts' = [attempts EXCEPT ![i] = x] /\ x.pc = "ended"
  <2>1. attempts[i] \in Attempt
    BY Elements DEF IInv
  <2>2. [attempts[i] EXCEPT !.pc = "ended", !.events = Sent(i, "run_completed")].pc = "ended"
    BY <2>1 DEF Attempt
  <2> QED BY <2>2 DEF Deliver
<1>2. /\ i \in 1..MaxAttempts /\ RunsOf[i] = RunOf(i)
      /\ RunsOf' = [RunsOf EXCEPT ![i] = RunOf(i)']
  BY <1>1, RunChanges DEF IInv
<1>3. RunOf(i)' = RunOf(i)
  BY <1>1 DEF RunOf, Deliver
<1>4. RunsOf' = RunsOf
  BY <1>2, <1>3 DEF RunsOf
<1>5. store' = store /\ Shown' = Shown
  BY ShownStays DEF Deliver, browser
<1> QED BY <1>4, <1>5 DEF Durable!vars

\* A vote that is recorded reaches the one exchange its answer is stored in.
LEMMA RecordDurable ==
  ASSUME IInv, NEW v \in DOMAIN votes, RecordVote(v)
  PROVE  [Durable!Next]_(Durable!vars)
<1>1. PICK c \in Conversations : c = attempts[votes[v].answer].conversation
  BY DEF IInv, VotesSound, Settled
<1>2. PICK s \in Seq(Exchange) : s = store[c]
  BY <1>1, Elements DEF IInv
<1>3. PICK n \in DOMAIN s : \A m \in DOMAIN s : s[m].answer = votes[v].answer <=> m = n
  BY <1>1, <1>2 DEF IInv, VotesSound, Settled, Once
<1>4. PICK opinion \in Opinions : opinion = votes[v].opinion
  BY Elements DEF IInv, Vote
<1>5. Voted(s, votes[v].answer, opinion) = [s EXCEPT ![n].opinion = opinion]
  BY <1>3 DEF Voted
<1>6. store' = [store EXCEPT ![c] = Voted(s, votes[v].answer, opinion)]
  BY <1>1, <1>2, <1>4 DEF RecordVote, Voted
<1>7. store' = [store EXCEPT ![c][n].opinion = opinion]
  BY <1>1, <1>2, <1>5, <1>6
<1>8. attempts' = attempts /\ Shown' = Shown
  BY ShownStays DEF RecordVote, browser
<1>9. RunsOf' = RunsOf
  BY <1>8, EventsOnly
<1>10. Durable!Vote
  BY <1>1, <1>2, <1>3, <1>7, <1>8, <1>9 DEF Durable!Vote
<1> QED BY <1>10 DEF Durable!Next

LEMMA VotesDurable ==
  ASSUME IInv, IInv', UNCHANGED <<attempts, store>>
  PROVE  [Durable!Next]_(Durable!vars)
<1>1. RunsOf' = RunsOf
  BY EventsOnly
<1> QED BY <1>1, ShowsKept

LEMMA InitDurable == Init => Durable!Init
<1> SUFFICES ASSUME Init PROVE Durable!Init
  OBVIOUS
<1>1. DOMAIN <<>> = {}
  BY SMT
<1>2. RunsOf = [i \in 1..MaxAttempts |-> [state |-> "idle"]]
  BY <1>1 DEF Init, RunsOf, RunOf
<1>3. Shown = {}
  BY <1>1 DEF Init, Shown, Answered
<1> QED BY <1>2, <1>3 DEF Init, Durable!Init

LEMMA StepDurable ==
  ASSUME IInv, IInv', GInv, [Next]_vars
  PROVE  [Durable!Next]_(Durable!vars)
<1>1. CASE Ask \/ \E k \in DOMAIN messages : Retry(k)
  BY <1>1, OpenDurable DEF Ask, Retry
<1>2. CASE Receive \/ Save \/ Reload
  BY <1>2, BrowserDurable
<1>3. CASE Crash
  BY <1>3, CrashDurable
<1>4. CASE \E k \in DOMAIN messages : SendVote(k)
  BY <1>4, VotesDurable DEF SendVote
<1>5. CASE \E i \in DOMAIN attempts : Stream(i)
  BY <1>5, BeginDurable, StoppedDurable, FinishDurable, DeliverDurable DEF Stream
<1>6. CASE \E v \in DOMAIN votes : HandleVote(v)
  BY <1>6, RecordDurable, VotesDurable DEF HandleVote, RefreshAndAccept, ReceiveVote, GiveUpVote, browser
<1>7. CASE UNCHANGED vars
  BY <1>7, VotesDurable DEF vars
<1> QED BY <1>1, <1>2, <1>3, <1>4, <1>5, <1>6, <1>7 DEF Next

\* The session implements DurableConversation, whatever the browser sends again, the server
\* forgets and votes overtake: initial states map to initial states, each step to a step
\* or a stutter.
THEOREM ImplementsDurable == Spec => ConversationDurable
<1>1. IInv /\ IInv' /\ GInv /\ [Next]_vars => [Durable!Next]_(Durable!vars)
  BY StepDurable
<1> QED BY <1>1, InitDurable, Invariance, InitGInv, StepGInv, PTL DEF Spec, ConversationDurable, Durable!Spec

=============================================================================
