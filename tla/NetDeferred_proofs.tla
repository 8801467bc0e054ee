------------------------- MODULE NetDeferred_proofs -------------------------
(***************************************************************************)
(* Proofs about NetDeferred: a thread that was woken in a network request  *)
(* finds its own result, for any number of threads, requests and sockets.  *)
(***************************************************************************)
EXTENDS NetDeferred, FiniteSetTheorems, TLAPS

-----------------------------------------------------------------------------
(* Whose result is whose. *)

\* What a thread of a request looks like: one that sleeps in a request is on
\* the queue in its frame, whose cookie is the token it waits for; one that
\* has ended waits for nothing.
Waiter(th) ==
    /\ th.queued => th.state = "waiting" /\ th.token = th.cookie /\ th.token # 0
    /\ th.state = "waiting" /\ th.token # 0 => th.queued
    /\ th.state = "dead" => th.token = 0

ThreadRecord ==
    [state : {"awake", "waiting", "dead"}, queued : BOOLEAN, cookie : Nat, token : Nat]

\* No two threads wait for one token, and the next token is new.
TokensAreApart ==
    /\ \A t \in Threads : thread[t].token < nextToken
    /\ \A t, u \in Threads :
         t # u /\ thread[t].token # 0 => thread[t].token # thread[u].token

WaitersInv ==
    /\ thread \in [Threads -> ThreadRecord]
    /\ nextToken \in Nat \ {0}
    /\ \A t \in Threads : Waiter(thread[t])
    /\ TokensAreApart
    /\ WokenHasItsResult

\* No thread has made a request.
LEMMA WaitersInit == ASSUME Init PROVE WaitersInv
<1> USE DEF Init, WaitersInv, ThreadRecord, Waiter, TokensAreApart, WokenHasItsResult
<1> QED OBVIOUS

Changed(t, th) == thread' = [thread EXCEPT ![t] = th]

\* A step that changes one thread t, and leaves every result but that of t,
\* keeps the others as they are.
LEMMA OneThread ==
    ASSUME WaitersInv, NEW t \in Threads, NEW th \in ThreadRecord,
           Changed(t, th), Waiter(th),
           nextToken' \in Nat, nextToken <= nextToken', th.token < nextToken',
           th.token \in {0, thread[t].token} \/ th.token >= nextToken,
           \A k \in DOMAIN syncResults : k # thread[t].token => k \in DOMAIN syncResults',
           th.state = "awake" => th.token = 0
    PROVE  WaitersInv'
<1> USE DEF WaitersInv, ThreadRecord, Changed
<1>1. thread' \in [Threads -> ThreadRecord]
  OBVIOUS
<1>2. nextToken' \in Nat \ {0}
  OBVIOUS
<1>3. ASSUME NEW u \in Threads PROVE Waiter(thread'[u])
  BY <1>3
<1>4. TokensAreApart'
  BY DEF TokensAreApart
<1>5. ASSUME NEW u \in Threads, thread'[u].state = "awake", thread'[u].token # 0
      PROVE  thread'[u].token \in DOMAIN syncResults'
  BY <1>5 DEF TokensAreApart, WokenHasItsResult
<1> QED BY <1>1, <1>2, <1>3, <1>4, <1>5 DEF WokenHasItsResult

\* The pump: every thread it makes ready has its result stored, and no result
\* is taken away.
LEMMA DeliverKeeps ==
    ASSUME WaitersInv, NEW answer,
           \A r \in DOMAIN answer : ~ Dropped(r),
           DeliverTo(answer), UNCHANGED nextToken
    PROVE  WaitersInv'
<1> DEFINE sync == {r \in DOMAIN answer : r.thread # NoThread}
           tokens == {r.id : r \in sync}
<1>0. thread' = [t \in Threads |->
                   IF \E r \in sync : r.thread = t
                   THEN [thread[t] EXCEPT !.state = "awake", !.queued = FALSE]
                   ELSE thread[t]]
  BY DEF DeliverTo
<1>1. ASSUME NEW t \in Threads, NEW r \in sync, r.thread = t
      PROVE  thread[t].token \in tokens
  <2>1. WaiterIsValid(r)
    BY <1>1 DEF Dropped
  <2>2. thread[t].queued /\ thread[t].cookie = r.id
    BY <1>1, <2>1 DEF WaiterIsValid
  <2>3. thread[t].token = r.id
    BY <1>1, <2>2 DEF WaitersInv, Waiter
  <2> QED BY <2>3
<1>2. DOMAIN syncResults' = DOMAIN syncResults \cup tokens
  BY DEF DeliverTo
<1> HIDE DEF sync, tokens
<1>4. ASSUME NEW t \in Threads
      PROVE  /\ thread'[t] \in ThreadRecord
             /\ Waiter(thread'[t])
             /\ thread'[t].token = thread[t].token
             /\ thread'[t].state = "awake" =>
                  thread[t].state = "awake" \/ thread[t].token \in tokens
  <2>0. thread[t] \in ThreadRecord /\ Waiter(thread[t])
    BY DEF WaitersInv
  <2>1. CASE \E r \in sync : r.thread = t
    <3>1. thread'[t] = [thread[t] EXCEPT !.state = "awake", !.queued = FALSE]
      BY <1>0, <2>1
    <3>2. thread[t].token \in tokens
      BY <1>1, <2>1
    <3>3. thread'[t] \in ThreadRecord
      BY <2>0, <3>1 DEF ThreadRecord
    <3>4. /\ thread'[t].state = "awake" /\ ~ thread'[t].queued
          /\ thread'[t].token = thread[t].token
      BY <2>0, <3>1 DEF ThreadRecord
    <3> QED BY <3>2, <3>3, <3>4 DEF Waiter
  <2>2. CASE ~ \E r \in sync : r.thread = t
    BY <1>0, <2>0, <2>2
  <2> QED BY <2>1, <2>2
<1>5. thread' \in [Threads -> ThreadRecord]
  BY <1>0, <1>4
<1>6. TokensAreApart'
  BY <1>4 DEF WaitersInv, TokensAreApart
<1>7. WokenHasItsResult'
  BY <1>2, <1>4 DEF WaitersInv, WokenHasItsResult
<1> QED BY <1>4, <1>5, <1>6, <1>7 DEF WaitersInv

\* A request that the pump answers was not dropped.
LEMMA PumpKeeps ==
    ASSUME WaitersInv, NEW late, ProcessCompletions(late)
    PROVE  WaitersInv'
<1> DEFINE answered == {c \in completed : ~Dropped(c.request)}
           lookups == {c.request : c \in answered}
           live == {r \in polls \cup connects : ~Dropped(r)}
           settled(verdict) == {r \in live : verdict[r] # NotSet}
           answer(verdict) ==
              [r \in settled(verdict) \cup lookups |->
                 IF r \in settled(verdict) THEN verdict[r]
                 ELSE (CHOOSE c \in answered : c.request = r).result]
<1>1. PICK verdict \in [live -> Results \cup {NotSet}] : DeliverTo(answer(verdict))
  BY DEF ProcessCompletions
<1>2. \A r \in DOMAIN answer(verdict) : ~ Dropped(r)
  OBVIOUS
<1>3. UNCHANGED nextToken
  BY DEF ProcessCompletions
<1> HIDE DEF answer
<1> QED BY <1>1, <1>2, <1>3, DeliverKeeps

\* Calls on sockets, workers and asynchronous requests do not touch threads.
LEMMA ApartFromThreads ==
    ASSUME WaitersInv, UNCHANGED <<thread, syncResults>>,
           nextToken' \in Nat, nextToken <= nextToken'
    PROVE  WaitersInv'
BY DEF WaitersInv, ThreadRecord, Waiter, TokensAreApart, WokenHasItsResult

\* Every step keeps each thread with its own token and result.
LEMMA WaitersStep == ASSUME WaitersInv, [Next]_vars PROVE WaitersInv'
<1> USE NetConstants
<1>1. CASE UNCHANGED vars
  BY <1>1, ApartFromThreads DEF vars, guest, WaitersInv
<1>2. CASE NewWiiSocket \/ StartAsync \/ \E r \in workers : RunWorker(r)
  BY <1>2, ApartFromThreads DEF NewWiiSocket, StartAsync, RunWorker, guest, WaitersInv
<1>3. ASSUME NEW f \in Fds,
             \/ DeleteWiiSocket(f) \/ Shutdown(f) \/ ReconnectWiiSocket(f)
             \/ DirectConnect(f) \/ HostSettles(f)
      PROVE  WaitersInv'
  BY <1>3, ApartFromThreads
  DEF DeleteWiiSocket, Shutdown, ReconnectWiiSocket, DirectConnect, HostSettles, guest, WaitersInv
<1>4. CASE Pump
  BY <1>4, PumpKeeps DEF Pump
<1>5. ASSUME NEW t \in Threads PROVE
        /\ StartSync(t) => WaitersInv'
        /\ LaunchFails(t) => WaitersInv'
        /\ TakeSyncResult(t) => WaitersInv'
        /\ Cancel(t) => WaitersInv'
        /\ Recreate(t) => WaitersInv'
        /\ SleepElsewhere(t) => WaitersInv'
        /\ WokenElsewhere(t) => WaitersInv'
  <2> DEFINE th == thread[t]
  <2>0. th \in ThreadRecord /\ Waiter(th) /\ nextToken \in Nat \ {0} /\ th.token < nextToken
    BY DEF WaitersInv, TokensAreApart
  <2>1. ASSUME StartSync(t) PROVE WaitersInv'
    <3>1. CASE thread' = [thread EXCEPT ![t] = [state |-> "waiting", queued |-> TRUE,
                                                cookie |-> nextToken, token |-> nextToken]]
      <4> DEFINE new == [state |-> "waiting", queued |-> TRUE,
                         cookie |-> nextToken, token |-> nextToken]
      <4>1. new \in ThreadRecord /\ Waiter(new) /\ new.token = nextToken /\ new.state = "waiting"
        BY <2>0 DEF ThreadRecord, Waiter
      <4>2. Changed(t, new)
        BY <3>1 DEF Changed
      <4> HIDE DEF new
      <4> QED BY <2>0, <2>1, <4>1, <4>2, OneThread DEF StartSync
    <3>2. CASE thread' = [thread EXCEPT ![t].cookie = nextToken]
      <4> DEFINE new == [th EXCEPT !.cookie = nextToken]
      <4>1. new \in ThreadRecord /\ Waiter(new) /\ new.token = 0
        BY <2>0, <2>1 DEF ThreadRecord, Waiter, StartSync, Idle
      <4>2. Changed(t, new)
        BY <3>2 DEF Changed
      <4> HIDE DEF new
      <4> QED BY <2>0, <2>1, <4>1, <4>2, OneThread DEF StartSync
    <3> QED BY <2>1, <3>1, <3>2 DEF StartSync
  <2>2. ASSUME LaunchFails(t) PROVE WaitersInv'
    <3> DEFINE new == [th EXCEPT !.cookie = nextToken]
    <3>1. new \in ThreadRecord /\ Waiter(new) /\ new.token = 0
      BY <2>0, <2>2 DEF ThreadRecord, Waiter, LaunchFails, Idle
    <3>2. Changed(t, new)
      BY <2>2 DEF LaunchFails, Changed
    <3> HIDE DEF new
    <3> QED BY <2>0, <2>2, <3>1, <3>2, OneThread DEF LaunchFails
  <2>3. ASSUME TakeSyncResult(t) PROVE WaitersInv'
    <3> DEFINE new == [th EXCEPT !.token = 0]
    <3>1. new \in ThreadRecord /\ Waiter(new) /\ new.token = 0
      BY <2>0, <2>3 DEF ThreadRecord, Waiter, TakeSyncResult
    <3>2. Changed(t, new)
      BY <2>3 DEF TakeSyncResult, Changed
    <3>3. \A k \in DOMAIN syncResults : k # th.token => k \in DOMAIN syncResults'
      BY <2>3 DEF TakeSyncResult
    <3> HIDE DEF new
    <3> QED BY <2>0, <2>3, <3>1, <3>2, <3>3, OneThread DEF TakeSyncResult
  <2>4. ASSUME Cancel(t) PROVE WaitersInv'
    <3> DEFINE new == [th EXCEPT !.state = "dead", !.queued = FALSE, !.token = 0]
    <3>1. new \in ThreadRecord /\ Waiter(new) /\ new.token = 0
      BY <2>0 DEF ThreadRecord, Waiter
    <3>2. Changed(t, new)
      BY <2>4 DEF Cancel, Changed
    <3> HIDE DEF new
    <3> QED BY <2>0, <2>4, <3>1, <3>2, OneThread DEF Cancel
  <2>5. ASSUME Recreate(t) \/ WokenElsewhere(t) PROVE WaitersInv'
    <3> DEFINE new == [th EXCEPT !.state = "awake"]
    <3>1. new \in ThreadRecord /\ Waiter(new) /\ new.token = 0
      BY <2>0, <2>5 DEF ThreadRecord, Waiter, Recreate, WokenElsewhere
    <3>2. Changed(t, new)
      BY <2>5 DEF Recreate, WokenElsewhere, Changed
    <3> HIDE DEF new
    <3> QED BY <2>0, <2>5, <3>1, <3>2, OneThread DEF Recreate, WokenElsewhere
  <2>6. ASSUME SleepElsewhere(t) PROVE WaitersInv'
    <3> DEFINE new == [th EXCEPT !.state = "waiting"]
    <3>1. new \in ThreadRecord /\ Waiter(new) /\ new.token = 0
      BY <2>0, <2>6 DEF ThreadRecord, Waiter, SleepElsewhere, Idle
    <3>2. Changed(t, new)
      BY <2>6 DEF SleepElsewhere, Changed
    <3> HIDE DEF new
    <3> QED BY <2>0, <2>6, <3>1, <3>2, OneThread DEF SleepElsewhere
  <2> QED BY <2>1, <2>2, <2>3, <2>4, <2>5, <2>6
<1> QED BY <1>1, <1>2, <1>3, <1>4, <1>5 DEF Next

\* A thread that was woken in a request finds the result of that request,
\* whatever requests of earlier threads with its stack are on their way.
THEOREM WokenFindsResult == Spec => []WokenHasItsResult
<1>1. WaitersInv => WokenHasItsResult
  BY DEF WaitersInv
<1> QED BY <1>1, WaitersInit, WaitersStep, PTL DEF Spec

-----------------------------------------------------------------------------
(* Types. *)

WaiterRecord == [state : {"awake", "waiting", "dead"}, queued : BOOLEAN,
                 cookie : 0 .. MaxRequests, token : 0 .. MaxRequests]
SocketRecord == [generation : Generations \cup {0}, link : {"down", "inflight", "up"},
                 peer : BOOLEAN]
ConnectRequests == {r \in Requests : r.kind = "connect" /\ r.generation # 0}

\* The parts of the type invariant, by who changes them.
ThreadsTyped == thread \in [Threads -> WaiterRecord]
SocketsTyped ==
    /\ sockets \in [Fds -> SocketRecord]
    /\ nextGen \in 1 .. MaxSockets + 1
TokensTyped == nextToken \in 1 .. MaxRequests + 1
ListsTyped ==
    /\ workers \in SUBSET Requests
    /\ \A c \in completed : c.request \in Requests /\ c.result \in Results
    /\ polls \in SUBSET Requests
    /\ connects \in SUBSET ConnectRequests
    /\ lost \subseteq 1 .. MaxRequests
AnswersTyped ==
    /\ DOMAIN syncResults \subseteq 1 .. nextToken - 1
    /\ \A k \in DOMAIN syncResults : syncResults[k] \in Results
    /\ DOMAIN called \subseteq 1 .. nextToken - 1
    /\ \A i \in DOMAIN called : called[i] \in Nat

\* The answers are those of requests that have been made.
RequestsMade ==
    \A r \in workers \cup polls \cup connects \cup {c.request : c \in completed} :
        r.id < nextToken

Typed == ThreadsTyped /\ SocketsTyped /\ TokensTyped /\ ListsTyped /\ AnswersTyped
         /\ RequestsMade

\* The parts are the type invariant.
LEMMA TypedImplies == Typed => TypeOK
BY DEF Typed, ThreadsTyped, SocketsTyped, TokensTyped, ListsTyped, AnswersTyped,
       TypeOK, WaiterRecord, SocketRecord, ConnectRequests

\* There is room for a first socket, request and descriptor.
LEMMA TypedInit == ASSUME Init PROVE Typed
<1> USE NetConstants
<1>1. ThreadsTyped /\ SocketsTyped /\ TokensTyped
  BY DEF Init, ThreadsTyped, WaiterRecord, SocketsTyped, SocketRecord, TokensTyped,
         Closed
<1>2. ListsTyped /\ AnswersTyped /\ RequestsMade
  BY DEF Init, ListsTyped, AnswersTyped, RequestsMade
<1> QED BY <1>1, <1>2 DEF Typed

\* Aborting answers a request and leaves what it is.
LEMMA AbortedTyped ==
    ASSUME NEW f \in Fds, connects \in SUBSET ConnectRequests
    PROVE  /\ Aborted(f) \in SUBSET ConnectRequests
           /\ \A r \in Aborted(f) : \E q \in connects : r.id = q.id /\ r.thread = q.thread
<1>1. ASSUME NEW r \in connects
      PROVE  LET a == [r EXCEPT !.initialResult = "error"]
             IN  a \in ConnectRequests /\ a.id = r.id /\ a.thread = r.thread
  BY DEF ConnectRequests, Requests, Results
<1> QED BY <1>1 DEF Aborted

\* A link of a socket changes.
LEMMA LinkTyped ==
    ASSUME SocketsTyped, NEW f \in Fds, NEW l \in {"down", "inflight", "up"}
    PROVE  [sockets EXCEPT ![f].link = l] \in [Fds -> SocketRecord]
BY DEF SocketsTyped, SocketRecord

\* Calls on sockets, and the host network.
LEMMA TypedSockets ==
    ASSUME Typed,
           \/ NewWiiSocket
           \/ \E f \in Fds : \/ DeleteWiiSocket(f) \/ Shutdown(f) \/ ReconnectWiiSocket(f)
                             \/ DirectConnect(f) \/ HostSettles(f)
    PROVE  Typed'
<1> USE NetConstants DEF Typed
<1>0. /\ UNCHANGED <<thread, syncResults, called, nextToken, workers, completed, polls, lost>>
  BY DEF NewWiiSocket, DeleteWiiSocket, Shutdown, ReconnectWiiSocket, DirectConnect,
         HostSettles, guest, pending
<1>1. ThreadsTyped' /\ TokensTyped' /\ AnswersTyped'
  BY <1>0 DEF ThreadsTyped, TokensTyped, AnswersTyped
<1>2. /\ connects' \in SUBSET ConnectRequests
      /\ \A r \in connects' : r.id < nextToken
  <2>1. connects \in SUBSET ConnectRequests /\ \A r \in connects : r.id < nextToken
    BY DEF ListsTyped, RequestsMade
  <2>2. connects' = connects \/ \E f \in Fds : connects' = Aborted(f)
    BY DEF NewWiiSocket, DeleteWiiSocket, Shutdown, ReconnectWiiSocket, DirectConnect,
           HostSettles, pending
  <2> QED BY <2>1, <2>2, AbortedTyped
<1>3. ListsTyped' /\ RequestsMade'
  BY <1>0, <1>2 DEF ListsTyped, RequestsMade
<1>4. SocketsTyped'
  <2>1. CASE NewWiiSocket
    <3>1. nextGen' \in 1 .. MaxSockets + 1 /\ nextGen \in Generations
      BY <2>1 DEF NewWiiSocket, SocketsTyped, Generations
    <3>2. [Closed EXCEPT !.generation = nextGen] \in SocketRecord
      BY <3>1 DEF Closed, SocketRecord
    <3> QED BY <2>1, <3>1, <3>2 DEF NewWiiSocket, SocketsTyped
  <2>2. ASSUME NEW f \in Fds, DeleteWiiSocket(f) PROVE SocketsTyped'
    <3>1. Closed \in SocketRecord
      BY DEF Closed, SocketRecord
    <3> QED BY <2>2, <3>1 DEF DeleteWiiSocket, SocketsTyped
  <2>3. ASSUME NEW f \in Fds, Shutdown(f) \/ HostSettles(f) PROVE SocketsTyped'
    <3>1. sockets[f].link \in {"down", "inflight", "up"}
      BY DEF SocketsTyped, SocketRecord
    <3>2. PICK l \in {"down", "inflight", "up"} : sockets' = [sockets EXCEPT ![f].link = l]
      BY <2>3, <3>1 DEF Shutdown, HostSettles
    <3>3. nextGen' = nextGen
      BY <2>3 DEF Shutdown, HostSettles
    <3> QED BY <3>2, <3>3, LinkTyped DEF SocketsTyped
  <2>4. ASSUME NEW f \in Fds, ReconnectWiiSocket(f) PROVE SocketsTyped'
    <3> DEFINE new == [generation |-> nextGen, link |-> "up", peer |-> TRUE]
    <3>1. new \in SocketRecord /\ nextGen' \in 1 .. MaxSockets + 1
      BY <2>4 DEF ReconnectWiiSocket, SocketsTyped, Generations, SocketRecord
    <3>2. sockets' = [sockets EXCEPT ![f] = new]
      BY <2>4 DEF ReconnectWiiSocket
    <3> HIDE DEF new
    <3> QED BY <3>1, <3>2 DEF SocketsTyped
  <2>5. ASSUME NEW f \in Fds, DirectConnect(f) PROVE SocketsTyped'
    <3>1. PICK c \in HostConnect(sockets[f].link) :
             sockets' = [sockets EXCEPT ![f].link = c.link, ![f].peer = @ \/ c.result = "ok"]
      BY <2>5 DEF DirectConnect
    <3>2. c.link \in {"down", "inflight", "up"}
      BY DEF HostConnect
    <3> DEFINE new == [sockets[f] EXCEPT !.link = c.link, !.peer = @ \/ c.result = "ok"]
    <3>3. new \in SocketRecord
      BY <3>2 DEF SocketsTyped, SocketRecord
    <3>4. sockets' = [sockets EXCEPT ![f] = new]
      BY <3>1 DEF SocketsTyped
    <3> HIDE DEF new
    <3> QED BY <2>5, <3>3, <3>4 DEF SocketsTyped, DirectConnect
  <2> QED BY <2>1, <2>2, <2>3, <2>4, <2>5
<1> QED BY <1>1, <1>3, <1>4

\* A request that is installed is new, and goes into one of the lists.
LEMMA InstallAdds ==
    ASSUME Typed, nextToken <= MaxRequests, NEW t \in Threads \cup {NoThread}, Install(t)
    PROVE  /\ sockets' \in [Fds -> SocketRecord]
           /\ UNCHANGED completed
           /\ \E r \in Requests :
                /\ r.id = nextToken /\ r.thread = t
                /\ \/ workers' = workers \cup {r} /\ UNCHANGED <<polls, connects>>
                   \/ polls' = polls \cup {r} /\ UNCHANGED <<workers, connects>>
                   \/ /\ connects' = connects \cup {r} /\ UNCHANGED <<workers, polls>>
                      /\ r \in ConnectRequests
<1> USE NetConstants
<1>1. nextToken \in 1 .. MaxRequests
  BY DEF Typed, TokensTyped
<1>2. ASSUME NEW kind \in {"dns", "poll", "connect"}, NEW f \in Fds, NEW inf \in BOOLEAN,
             NEW initial \in Results \cup {NotSet}
      PROVE  LET r == Request(t, kind, f, inf, initial)
             IN  /\ r \in Requests /\ r.id = nextToken /\ r.thread = t
                 /\ kind = "connect" /\ sockets[f].generation # 0 => r \in ConnectRequests
  <2>1. sockets[f].generation \in Generations \cup {0}
    BY DEF Typed, SocketsTyped, SocketRecord
  <2> QED BY <1>1, <2>1 DEF Request, Requests, ConnectRequests
<1>3. sockets \in [Fds -> SocketRecord] /\ 0 \in Fds
  BY DEF Typed, SocketsTyped, Fds
<1>4. CASE InstallDeferredDns(t)
  <2> DEFINE r == Request(t, "dns", 0, FALSE, NotSet)
  <2>1. r \in Requests /\ r.id = nextToken /\ r.thread = t
    BY <1>2, <1>3
  <2> QED BY <1>3, <1>4, <2>1 DEF InstallDeferredDns
<1>5. CASE InstallDeferredPoll(t)
  <2>1. PICK f \in Fds, inf \in BOOLEAN : polls' = polls \cup {Request(t, "poll", f, inf, NotSet)}
    BY <1>5 DEF InstallDeferredPoll
  <2> DEFINE r == Request(t, "poll", f, inf, NotSet)
  <2>2. r \in Requests /\ r.id = nextToken /\ r.thread = t
    BY <1>2
  <2> QED BY <1>3, <1>5, <2>1, <2>2 DEF InstallDeferredPoll
<1>6. CASE InstallDeferredConnect(t)
  <2>1. PICK f \in Fds :
          /\ sockets[f].generation # 0
          /\ \E c \in HostConnect(sockets[f].link) :
               /\ sockets' = [sockets EXCEPT ![f].link = c.link]
               /\ connects' = connects \cup {Request(t, "connect", f, FALSE, c.result)}
    BY <1>6 DEF InstallDeferredConnect
  <2>2. PICK c \in HostConnect(sockets[f].link) :
          /\ sockets' = [sockets EXCEPT ![f].link = c.link]
          /\ connects' = connects \cup {Request(t, "connect", f, FALSE, c.result)}
    BY <2>1
  <2>3. c.link \in {"down", "inflight", "up"} /\ c.result \in Results \cup {NotSet}
    BY DEF HostConnect, Results
  <2> DEFINE r == Request(t, "connect", f, FALSE, c.result)
  <2>4. r \in Requests /\ r.id = nextToken /\ r.thread = t /\ r \in ConnectRequests
    BY <1>2, <2>1, <2>3
  <2>5. sockets' \in [Fds -> SocketRecord]
    BY <2>2, <2>3, LinkTyped DEF Typed
  <2> QED BY <1>6, <2>2, <2>4, <2>5 DEF InstallDeferredConnect
<1> QED BY <1>4, <1>5, <1>6 DEF Install

\* A request that is made has its type, in whichever list.
LEMMA InstallTyped ==
    ASSUME Typed, nextToken <= MaxRequests, NEW t \in Threads \cup {NoThread}, Install(t),
           nextToken' = nextToken + 1, UNCHANGED <<nextGen, lost>>
    PROVE  SocketsTyped' /\ ListsTyped' /\ RequestsMade'
<1>1. PICK r \in Requests :
                /\ r.id = nextToken
                /\ \/ workers' = workers \cup {r} /\ UNCHANGED <<polls, connects>>
                   \/ polls' = polls \cup {r} /\ UNCHANGED <<workers, connects>>
                   \/ /\ connects' = connects \cup {r} /\ UNCHANGED <<workers, polls>>
                      /\ r \in ConnectRequests
  BY InstallAdds
<1>2. sockets' \in [Fds -> SocketRecord] /\ completed' = completed
  BY InstallAdds
<1>3. ListsTyped'
  BY <1>1, <1>2 DEF Typed, ListsTyped
<1>4. nextToken \in Nat /\ nextToken < nextToken'
  BY NetConstants DEF Typed, TokensTyped
<1>5. workers \cup polls \cup connects \subseteq Requests
      /\ \A c \in completed : c.request \in Requests
  BY DEF Typed, ListsTyped, ConnectRequests
<1>6. \A q \in Requests : q.id \in Nat
  BY DEF Requests
<1>7. RequestsMade'
  BY <1>1, <1>2, <1>4, <1>5, <1>6 DEF Typed, RequestsMade
<1> QED BY <1>2, <1>3, <1>7 DEF Typed, SocketsTyped

\* The tokens and answers when a request is made.
LEMMA TokenTyped ==
    ASSUME Typed, nextToken <= MaxRequests, nextToken' = nextToken + 1
    PROVE  /\ TokensTyped' /\ nextToken \in 1 .. MaxRequests
           /\ nextToken \in 1 .. nextToken' - 1
           /\ 1 .. nextToken - 1 \subseteq 1 .. nextToken' - 1
           /\ UNCHANGED <<syncResults, called>> => AnswersTyped'
BY NetConstants DEF Typed, TokensTyped, AnswersTyped

\* What threads do.
LEMMA TypedThreads ==
    ASSUME Typed, NEW t \in Threads,
           \/ StartSync(t) \/ LaunchFails(t) \/ TakeSyncResult(t) \/ Cancel(t)
           \/ Recreate(t) \/ SleepElsewhere(t) \/ WokenElsewhere(t)
    PROVE  Typed'
<1> USE NetConstants
<1>0. thread[t] \in WaiterRecord /\ thread \in [Threads -> WaiterRecord] /\ 0 \in 0 .. MaxRequests
  BY DEF Typed, ThreadsTyped
<1>1. CASE StartSync(t) \/ LaunchFails(t)
  <2>1. /\ nextToken <= MaxRequests /\ nextToken' = nextToken + 1
        /\ UNCHANGED <<nextGen, syncResults, called, lost>>
    BY <1>1 DEF StartSync, LaunchFails
  <2>2. TokensTyped' /\ AnswersTyped' /\ nextToken \in 0 .. MaxRequests
    BY <2>1, TokenTyped DEF Typed, TokensTyped
  <2>3. SocketsTyped' /\ ListsTyped' /\ RequestsMade'
    <3>1. CASE StartSync(t)
      BY <2>1, <3>1, InstallTyped DEF StartSync
    <3>2. CASE LaunchFails(t)
      <4>1. \A q \in workers \cup polls \cup connects \cup {c.request : c \in completed} :
               q.id \in Nat
        BY DEF Typed, ListsTyped, ConnectRequests, Requests
      <4>2. RequestsMade'
        BY <2>1, <3>2, <4>1 DEF Typed, RequestsMade, TokensTyped, LaunchFails, pending
      <4> QED BY <3>2, <4>2 DEF LaunchFails, Typed, SocketsTyped, ListsTyped, pending
    <3> QED BY <1>1, <3>1, <3>2
  <2>4. ThreadsTyped'
    <3> DEFINE asleep == [state |-> "waiting", queued |-> TRUE,
                          cookie |-> nextToken, token |-> nextToken]
               awake == [thread[t] EXCEPT !.cookie = nextToken]
    <3>1. asleep \in WaiterRecord /\ awake \in WaiterRecord
      BY <1>0, <2>2 DEF WaiterRecord
    <3>2. thread' = [thread EXCEPT ![t] = asleep] \/ thread' = [thread EXCEPT ![t] = awake]
      BY <1>1 DEF StartSync, LaunchFails
    <3> HIDE DEF asleep, awake
    <3> QED BY <1>0, <3>1, <3>2 DEF ThreadsTyped
  <2> QED BY <2>2, <2>3, <2>4 DEF Typed
<1>2. CASE TakeSyncResult(t) \/ Cancel(t) \/ Recreate(t) \/ SleepElsewhere(t) \/ WokenElsewhere(t)
  <2>1. UNCHANGED <<sockets, nextGen, nextToken, workers, completed, polls, connects, called, lost>>
    BY <1>2 DEF TakeSyncResult, Cancel, Recreate, SleepElsewhere, WokenElsewhere, pending
  <2>2. PICK th \in WaiterRecord : thread' = [thread EXCEPT ![t] = th]
    <3>1. /\ [thread[t] EXCEPT !.token = 0] \in WaiterRecord
          /\ [thread[t] EXCEPT !.state = "dead", !.queued = FALSE, !.token = 0] \in WaiterRecord
          /\ [thread[t] EXCEPT !.state = "awake"] \in WaiterRecord
          /\ [thread[t] EXCEPT !.state = "waiting"] \in WaiterRecord
      BY <1>0 DEF WaiterRecord
    <3>2. CASE TakeSyncResult(t)
      BY <3>1, <3>2 DEF TakeSyncResult
    <3>3. CASE Cancel(t)
      <4>1. thread' = [thread EXCEPT ![t] = [thread[t] EXCEPT !.state = "dead",
                                               !.queued = FALSE, !.token = 0]]
        BY <1>0, <3>3 DEF Cancel, WaiterRecord
      <4> QED BY <3>1, <4>1
    <3>4. CASE Recreate(t) \/ WokenElsewhere(t)
      BY <3>1, <3>4 DEF Recreate, WokenElsewhere
    <3>5. CASE SleepElsewhere(t)
      BY <3>1, <3>5 DEF SleepElsewhere
    <3> QED BY <1>2, <3>2, <3>3, <3>4, <3>5
  <2>3. ThreadsTyped'
    BY <1>0, <2>2 DEF ThreadsTyped
  <2>4. /\ DOMAIN syncResults' \subseteq DOMAIN syncResults
        /\ \A k \in DOMAIN syncResults' : syncResults'[k] = syncResults[k]
    BY <1>2 DEF TakeSyncResult, Cancel, Recreate, SleepElsewhere, WokenElsewhere
  <2>5. AnswersTyped'
    BY <2>1, <2>4 DEF Typed, AnswersTyped
  <2> QED BY <2>1, <2>3, <2>5
    DEF Typed, SocketsTyped, TokensTyped, ListsTyped, RequestsMade
<1> QED BY <1>1, <1>2

\* A request with a callback.
LEMMA TypedAsync ==
    ASSUME Typed, StartAsync
    PROVE  Typed'
<1> USE NetConstants
<1>1. /\ nextToken <= MaxRequests /\ nextToken' = nextToken + 1
      /\ UNCHANGED <<thread, nextGen, syncResults, lost>>
  BY DEF StartAsync
<1>2. PICK n \in {0, 1} : called' = CalledSoFar(n)
  BY DEF StartAsync
<1>3. /\ DOMAIN called' = DOMAIN called \cup {nextToken}
      /\ \A i \in DOMAIN called' : called'[i] \in {n} \cup {called[j] : j \in DOMAIN called}
  BY <1>2 DEF CalledSoFar
<1>4. TokensTyped' /\ AnswersTyped'
  BY <1>1, <1>3, TokenTyped DEF Typed, AnswersTyped
<1>5. SocketsTyped' /\ ListsTyped' /\ RequestsMade'
  <2>1. CASE Install(NoThread)
    BY <1>1, <2>1, InstallTyped
  <2>2. CASE UNCHANGED <<sockets, pending>>
    <3>1. \A q \in workers \cup polls \cup connects \cup {c.request : c \in completed} :
             q.id \in Nat
      BY DEF Typed, ListsTyped, ConnectRequests, Requests
    <3>2. RequestsMade'
      BY <1>1, <2>2, <3>1 DEF Typed, RequestsMade, TokensTyped, pending
    <3> QED BY <1>1, <2>2, <3>2 DEF Typed, SocketsTyped, ListsTyped, pending
  <2> QED BY <2>1, <2>2 DEF StartAsync
<1> QED BY <1>1, <1>4, <1>5 DEF Typed, ThreadsTyped

\* A lookup that ends.
LEMMA TypedWorker ==
    ASSUME Typed, NEW r \in workers, RunWorker(r)
    PROVE  Typed'
<1>1. /\ workers' = workers \ {r} /\ UNCHANGED <<guest, sockets, nextGen, nextToken, polls, connects>>
      /\ r \in Requests
  BY DEF RunWorker, Typed, ListsTyped
<1>2. r.id \in 1 .. MaxRequests
  BY <1>1 DEF Requests
<1>3. \/ /\ lost' = lost
         /\ \E result \in Results : completed' = completed \cup {[request |-> r, result |-> result]}
      \/ lost' = lost \cup {r.id} /\ completed' = completed
  BY DEF RunWorker, Publish, PublishFails
<1>4. ListsTyped'
  <2>1. \A c \in completed' : c.request \in Requests /\ c.result \in Results
    <3>1. \A c \in completed : c.request \in Requests /\ c.result \in Results
      BY DEF Typed, ListsTyped
    <3>2. ASSUME NEW result \in Results
          PROVE  LET c == [request |-> r, result |-> result]
                 IN  c.request \in Requests /\ c.result \in Results
      BY <1>1
    <3> QED BY <1>3, <3>1, <3>2
  <2>2. lost' \subseteq 1 .. MaxRequests
    BY <1>2, <1>3 DEF Typed, ListsTyped
  <2>3. workers' \in SUBSET Requests /\ polls' \in SUBSET Requests
        /\ connects' \in SUBSET ConnectRequests
    BY <1>1 DEF Typed, ListsTyped
  <2> QED BY <2>1, <2>2, <2>3 DEF ListsTyped
<1>5. {c.request : c \in completed'} \subseteq {c.request : c \in completed} \cup {r}
  BY <1>3
<1>6. RequestsMade'
  BY <1>1, <1>5 DEF Typed, RequestsMade
<1> QED BY <1>1, <1>4, <1>6
  DEF Typed, guest, ThreadsTyped, SocketsTyped, TokensTyped, AnswersTyped

\* The requests whose lookups have been published.
LookedUp == {c.request : c \in completed}

\* What one call of the pump does, with its answers `a': each goes to a request
\* that is not dropped, and the requests that are neither answered nor dropped
\* stay in their lists.
Answers(a) ==
    /\ DeliverTo(a)
    /\ DOMAIN a \subseteq LookedUp \cup polls \cup connects
    /\ \A r \in DOMAIN a : ~Dropped(r) /\ a[r] \in Results
    /\ \A r \in DOMAIN a \ LookedUp : \E isLate \in BOOLEAN : a[r] \in Probe(r, isLate)
    /\ \A r \in LookedUp : ~Dropped(r) => r \in DOMAIN a
    /\ completed' = {} /\ polls' \subseteq polls /\ connects' \subseteq connects
    /\ \A r \in polls \cup connects :
         ~Dropped(r) /\ r \notin DOMAIN a => r \in polls' \cup connects'
    /\ \A r \in polls' \cup connects' : r \in DOMAIN a => r \in LookedUp

\* Every call of the pump is such a step, whichever deadlines have passed.
LEMMA PumpAnswers ==
    ASSUME Typed, NEW late, ProcessCompletions(late)
    PROVE  /\ \E a : Answers(a)
           /\ UNCHANGED <<nextGen, nextToken, workers, lost>>
           /\ sockets' \in [Fds -> SocketRecord]
<1> DEFINE answered == {c \in completed : ~Dropped(c.request)}
           lookups == {c.request : c \in answered}
           live == {r \in polls \cup connects : ~Dropped(r)}
           settled(verdict) == {r \in live : verdict[r] # NotSet}
           connected(verdict) ==
              {r.fd : r \in {c \in settled(verdict) \cap connects : verdict[c] = "ok"}}
           answer(verdict) ==
              [r \in settled(verdict) \cup lookups |->
                 IF r \in settled(verdict) THEN verdict[r]
                 ELSE (CHOOSE c \in answered : c.request = r).result]
<1>1. PICK verdict \in [live -> Results \cup {NotSet}] :
        /\ \A r \in live : verdict[r] \in Probe(r, r \in late)
        /\ DeliverTo(answer(verdict))
        /\ sockets' = [f \in Fds |-> [sockets[f] EXCEPT !.peer = @ \/ f \in connected(verdict)]]
        /\ completed' = {}
        /\ polls' = (polls \cap live) \ settled(verdict)
        /\ connects' = (connects \cap live) \ settled(verdict)
        /\ UNCHANGED <<nextGen, nextToken, workers, lost>>
  BY DEF ProcessCompletions
<1>2. sockets' \in [Fds -> SocketRecord]
  <2>1. ASSUME NEW f \in Fds, NEW b
        PROVE  [sockets[f] EXCEPT !.peer = @ \/ b] \in SocketRecord
    BY DEF Typed, SocketsTyped, SocketRecord
  <2> HIDE DEF connected
  <2> QED BY <1>1, <2>1
<1>3. ASSUME NEW r \in lookups, NEW c, c = (CHOOSE d \in answered : d.request = r)
      PROVE  c.result \in Results
  <2>1. c \in completed
    BY <1>3
  <2> QED BY <2>1 DEF Typed, ListsTyped
<1>4. lookups \subseteq LookedUp /\ \A r \in LookedUp : ~Dropped(r) => r \in lookups
  BY DEF LookedUp
<1>5. \A r \in lookups : ~Dropped(r)
  OBVIOUS
<1> HIDE DEF answered, lookups
<1>6. Answers(answer(verdict))
  <2> DEFINE a == answer(verdict)
  <2>1. DOMAIN a = settled(verdict) \cup lookups
    OBVIOUS
  <2>2. \A r \in settled(verdict) : a[r] = verdict[r] /\ a[r] \in Results
    BY <1>1
  <2>3. \A r \in DOMAIN a \ settled(verdict) : a[r] \in Results
    BY <1>3
  <2>4. \A r \in settled(verdict) : \E isLate \in BOOLEAN : a[r] \in Probe(r, isLate)
    <3>1. ASSUME NEW r \in settled(verdict) PROVE a[r] \in Probe(r, r \in late)
      BY <1>1, <2>2
    <3>2. \A r : (r \in late) \in BOOLEAN
      OBVIOUS
    <3> HIDE DEF a, settled
    <3> QED BY <3>1, <3>2
  <2>5. settled(verdict) \subseteq live /\ \A r \in live : ~Dropped(r) /\ r \in polls \cup connects
    OBVIOUS
  <2>6. \A r \in polls \cup connects : ~Dropped(r) => r \in live
    OBVIOUS
  <2>7. DeliverTo(a)
    BY <1>1
  <2> HIDE DEF a, settled, live
  <2>8. DOMAIN a \subseteq LookedUp \cup polls \cup connects
    BY <1>4, <2>1, <2>5
  <2>9. \A r \in DOMAIN a : ~Dropped(r) /\ a[r] \in Results
    BY <1>5, <2>1, <2>2, <2>3, <2>5
  <2>10. /\ \A r \in DOMAIN a \ LookedUp : \E isLate \in BOOLEAN : a[r] \in Probe(r, isLate)
         /\ \A r \in LookedUp : ~Dropped(r) => r \in DOMAIN a
    BY <1>4, <2>1, <2>4
  <2>11. /\ completed' = {} /\ polls' \subseteq polls /\ connects' \subseteq connects
         /\ \A r \in polls \cup connects :
              ~Dropped(r) /\ r \notin DOMAIN a => r \in polls' \cup connects'
    BY <1>1, <2>1, <2>6
  <2>12. \A r \in polls' \cup connects' : r \in DOMAIN a => r \in LookedUp
    BY <1>1, <1>4, <2>1
  <2>13. Answers(a)
    BY <2>7, <2>8, <2>9, <2>10, <2>11, <2>12 DEF Answers
  <2> QED BY <2>13 DEF a
<1> QED BY <1>1, <1>2, <1>6

\* The completion pump.
LEMMA TypedPump ==
    ASSUME Typed, NEW late, ProcessCompletions(late)
    PROVE  Typed'
<1>1. PICK a : Answers(a)
  BY PumpAnswers
<1>2. /\ UNCHANGED <<nextGen, nextToken, workers, lost>>
      /\ sockets' \in [Fds -> SocketRecord]
  BY PumpAnswers
<1>3. SocketsTyped' /\ TokensTyped' /\ ListsTyped' /\ RequestsMade'
  BY <1>1, <1>2 DEF Typed, Answers, SocketsTyped, TokensTyped, ListsTyped, RequestsMade
<1>4. ThreadsTyped'
  <2>1. ASSUME NEW t \in Threads
        PROVE  /\ thread[t] \in WaiterRecord
               /\ [thread[t] EXCEPT !.state = "awake", !.queued = FALSE] \in WaiterRecord
    BY DEF Typed, ThreadsTyped, WaiterRecord
  <2> DEFINE Woken(t) == \E r \in {q \in DOMAIN a : q.thread # NoThread} : r.thread = t
  <2>2. thread' = [t \in Threads |->
                     IF Woken(t)
                     THEN [thread[t] EXCEPT !.state = "awake", !.queued = FALSE]
                     ELSE thread[t]]
    BY <1>1 DEF Answers, DeliverTo
  <2> HIDE DEF Woken
  <2> QED BY <2>1, <2>2 DEF ThreadsTyped
<1>5. AnswersTyped'
  <2> DEFINE sync == {r \in DOMAIN a : r.thread # NoThread}
             tokens == {r.id : r \in sync}
             ByToken(k) == CHOOSE r \in sync : r.id = k
             callbacks == {r.id : r \in DOMAIN a \ sync}
  <2>1. syncResults' = [k \in DOMAIN syncResults \cup tokens |->
                            IF k \in tokens THEN a[ByToken(k)] ELSE syncResults[k]]
    BY <1>1 DEF Answers, DeliverTo
  <2>2. called' = [i \in DOMAIN called |->
                      IF i \in callbacks THEN called[i] + 1 ELSE called[i]]
    BY <1>1 DEF Answers, DeliverTo
  <2>3. ASSUME NEW k \in tokens PROVE a[ByToken(k)] \in Results /\ k \in 1 .. nextToken - 1
    <3>1. PICK r \in sync : r.id = k
      OBVIOUS
    <3>2. ByToken(k) \in sync
      BY <3>1
    <3>3. r \in LookedUp \cup polls \cup connects
      BY <1>1 DEF Answers
    <3>4. r \in Requests /\ r.id < nextToken
      BY <3>3 DEF LookedUp, Typed, ListsTyped, RequestsMade, ConnectRequests
    <3>5. r.id \in 1 .. MaxRequests /\ nextToken \in 1 .. MaxRequests + 1
      BY <3>4 DEF Requests, Typed, TokensTyped
    <3>6. k \in 1 .. nextToken - 1
      BY <3>1, <3>4, <3>5, NetConstants
    <3> QED BY <1>1, <3>2, <3>6 DEF Answers
  <2> HIDE DEF tokens, ByToken, callbacks
  <2>4. DOMAIN syncResults' \subseteq 1 .. nextToken - 1 /\ DOMAIN called' \subseteq 1 .. nextToken - 1
    BY <2>1, <2>2, <2>3 DEF Typed, AnswersTyped
  <2>5. \A k \in DOMAIN syncResults' : syncResults'[k] \in Results
    BY <2>1, <2>3 DEF Typed, AnswersTyped
  <2>6. \A i \in DOMAIN called' : called'[i] \in Nat
    BY <2>2 DEF Typed, AnswersTyped
  <2> QED BY <1>2, <2>4, <2>5, <2>6 DEF AnswersTyped
<1> QED BY <1>3, <1>4, <1>5 DEF Typed

\* Every step keeps the types.
LEMMA TypedStep == ASSUME Typed, [Next]_vars PROVE Typed'
<1>1. CASE UNCHANGED vars
  BY <1>1 DEF vars, guest, pending, Typed, ThreadsTyped, SocketsTyped, TokensTyped,
              ListsTyped, AnswersTyped, RequestsMade
<1>2. CASE Next
  BY <1>2, TypedSockets, TypedThreads, TypedAsync, TypedWorker, TypedPump DEF Next, Pump
<1> QED BY <1>1, <1>2

\* The threads, sockets, lists of requests, results and callbacks have their
\* types, whatever order requests, workers and the pump run in.
THEOREM TypeCorrect == Spec => []TypeOK
<1> QED BY TypedImplies, TypedInit, TypedStep, PTL DEF Spec

-----------------------------------------------------------------------------
(* One answer per request. *)

\* The requests that have no answer yet.
Asked == workers \cup LookedUp \cup polls \cup connects

\* Each of them is in one list, once.
OneOfEach ==
    /\ \A r, q \in Asked : r.id = q.id => r = q
    /\ \A c, d \in completed : c.request = d.request => c = d
    /\ workers \cap (LookedUp \cup polls \cup connects) = {}
    /\ LookedUp \cap (polls \cup connects) = {}
    /\ polls \cap connects = {}

\* A caller that sleeps has a request of its own on the way, and an asynchronous
\* request is on its way or has had its one callback.
CallerAsked(t) ==
    thread[t].queued /\ thread[t].token \notin lost =>
       \E r \in Asked : r.id = thread[t].token /\ r.thread = t
CallbackOwed(i) ==
    \/ called[i] = 0 /\ \E r \in Asked : r.id = i /\ r.thread = NoThread
    \/ called[i] = 1 /\ \A r \in Asked : r.id # i
Owed ==
    /\ \A t \in Threads : CallerAsked(t)
    /\ \A i \in DOMAIN called \ lost : CallbackOwed(i)

AnswersInv == Typed /\ WaitersInv /\ OneOfEach /\ Owed

\* Nothing has been asked.
LEMMA AnswersInit == ASSUME Init PROVE AnswersInv
<1>1. OneOfEach /\ Owed
  BY DEF Init, OneOfEach, Owed, Asked, LookedUp, CallerAsked, CallbackOwed
<1> QED BY <1>1, TypedInit, WaitersInit DEF AnswersInv

\* What the three numbers of a token add up to.
LEMMA Counted ==
    ASSUME OneOfEach, NEW i
    PROVE  /\ (\E r \in Asked : r.id = i) => Outstanding(i) = 1
           /\ (\A r \in Asked : r.id # i) => Outstanding(i) = 0
<1> DEFINE W == {r \in workers : r.id = i}
           C == {c \in completed : c.request.id = i}
           P == {r \in polls \cup connects : r.id = i}
<1>0. Cardinality({}) = 0 /\ \A x : Cardinality({x}) = 1
  BY FS_EmptySet, FS_Singleton
<1>1. Outstanding(i) = Cardinality(W) + Cardinality(C) + Cardinality(P)
  BY DEF Outstanding
<1>2. ASSUME \A r \in Asked : r.id # i PROVE W = {} /\ C = {} /\ P = {}
  BY <1>2 DEF Asked, LookedUp
<1>3. ASSUME NEW r \in Asked, r.id = i
      PROVE  \/ W = {r} /\ C = {} /\ P = {}
             \/ W = {} /\ P = {} /\ \E c \in completed : C = {c}
             \/ W = {} /\ C = {} /\ P = {r}
  <2>1. \A q \in Asked : q.id = i => q = r
    BY <1>3 DEF OneOfEach
  <2>2. W \subseteq {r} /\ P \subseteq {r} /\ \A c \in C : c.request = r
    BY <2>1 DEF Asked, LookedUp
  <2>3. CASE r \in workers
    BY <1>3, <2>2, <2>3 DEF OneOfEach, LookedUp
  <2>4. CASE r \in LookedUp
    <3>1. PICK c \in completed : c.request = r
      BY <2>4 DEF LookedUp
    <3>2. C = {c}
      BY <1>3, <2>2, <3>1 DEF OneOfEach
    <3> QED BY <2>2, <2>4, <3>2 DEF OneOfEach
  <2>5. CASE r \in polls \cup connects
    BY <1>3, <2>2, <2>5 DEF OneOfEach, LookedUp
  <2> QED BY <2>3, <2>4, <2>5 DEF Asked
<1> HIDE DEF W, C, P
<1>4. ASSUME \E r \in Asked : r.id = i PROVE Outstanding(i) = 1
  <2>1. PICK r \in Asked : r.id = i
    BY <1>4
  <2>2. \/ W = {r} /\ C = {} /\ P = {}
        \/ W = {} /\ P = {} /\ \E c \in completed : C = {c}
        \/ W = {} /\ C = {} /\ P = {r}
    BY <1>3, <2>1
  <2>3. \/ Cardinality(W) = 1 /\ Cardinality(C) = 0 /\ Cardinality(P) = 0
        \/ Cardinality(W) = 0 /\ Cardinality(C) = 1 /\ Cardinality(P) = 0
        \/ Cardinality(W) = 0 /\ Cardinality(C) = 0 /\ Cardinality(P) = 1
    BY <1>0, <2>2
  <2> QED BY <1>1, <2>3
<1>5. ASSUME \A r \in Asked : r.id # i PROVE Outstanding(i) = 0
  BY <1>0, <1>1, <1>2, <1>5
<1> QED BY <1>4, <1>5

\* The invariant is the property, counted.
LEMMA AnswersImplies == AnswersInv => OneAnswerPerRequest
<1> SUFFICES ASSUME AnswersInv PROVE OneAnswerPerRequest
  OBVIOUS
<1>1. ASSUME NEW t \in Threads, thread[t].queued, thread[t].token \notin lost
      PROVE  Outstanding(thread[t].token) = 1
  BY <1>1, Counted DEF AnswersInv, Owed, CallerAsked
<1>2. ASSUME NEW i \in DOMAIN called \ lost
      PROVE  Outstanding(i) + called[i] = 1
  BY Counted DEF AnswersInv, Owed, CallbackOwed
<1> QED BY <1>1, <1>2 DEF OneAnswerPerRequest

\* A step that leaves the requests and callbacks alone, and puts no thread to
\* sleep in a request.
LEMMA QuietKeeps ==
    ASSUME OneOfEach, Owed, UNCHANGED <<pending, called, lost>>,
           \A u \in Threads : thread'[u].queued =>
              thread[u].queued /\ thread'[u].token = thread[u].token
    PROVE  OneOfEach' /\ Owed'
<1>1. Asked' = Asked /\ OneOfEach'
  BY DEF OneOfEach, Asked, LookedUp, pending
<1>2. \A t \in Threads : CallerAsked(t)'
  BY <1>1 DEF Owed, CallerAsked
<1>3. \A i \in DOMAIN called' \ lost' : CallbackOwed(i)'
  BY <1>1 DEF Owed, CallbackOwed
<1> QED BY <1>1, <1>2, <1>3 DEF Owed

\* An aborted connect is still on its way, with its answer.
LEMMA AbortKeeps ==
    ASSUME Typed, OneOfEach, Owed, NEW f, connects' = Aborted(f),
           UNCHANGED <<thread, called, lost, workers, completed, polls>>
    PROVE  OneOfEach' /\ Owed'
<1> DEFINE After(r) == IF r.fd = f /\ r.initialResult = NotSet
                       THEN [r EXCEPT !.initialResult = "error"] ELSE r
<1>1. \A r \in connects : After(r).id = r.id /\ After(r).thread = r.thread
  BY DEF Typed, ListsTyped, ConnectRequests, Requests
<1>2. /\ \A q \in connects' : \E r \in connects : q = After(r)
      /\ \A r \in connects : After(r) \in connects'
  BY DEF Aborted
<1> HIDE DEF After
<1>3. LookedUp' = LookedUp
  BY DEF LookedUp
<1>4. Asked = workers \cup LookedUp \cup polls \cup connects
      /\ Asked' = workers \cup LookedUp \cup polls \cup connects'
  BY <1>3 DEF Asked
<1>5. ASSUME NEW q \in connects', q \in workers \cup LookedUp \cup polls
      PROVE  FALSE
  <2>1. PICK r \in connects : q = After(r)
    BY <1>2
  <2>2. q.id = r.id /\ q \in Asked /\ r \in Asked
    BY <1>1, <1>4, <1>5, <2>1
  <2>3. q = r
    BY <2>2 DEF OneOfEach
  <2> QED BY <1>5, <2>3 DEF OneOfEach
<1>6. \A q \in Asked' : \E r \in Asked :
         q.id = r.id /\ q.thread = r.thread /\ ((q = After(r) /\ r \in connects) \/ (q = r /\ r \notin connects))
  <2> SUFFICES ASSUME NEW q \in Asked' PROVE \E r \in Asked :
         q.id = r.id /\ q.thread = r.thread /\ ((q = After(r) /\ r \in connects) \/ (q = r /\ r \notin connects))
    OBVIOUS
  <2>1. CASE q \in connects'
    <3>1. PICK r \in connects : q = After(r)
      BY <1>2, <2>1
    <3>2. r \in Asked /\ q.id = r.id /\ q.thread = r.thread
      BY <1>1, <1>4, <3>1
    <3> QED BY <3>1, <3>2
  <2>2. CASE q \in workers \cup LookedUp \cup polls
    BY <1>4, <2>2 DEF OneOfEach
  <2> QED BY <1>4, <2>1, <2>2
<1>7. \A r \in Asked : \E q \in Asked' : q.id = r.id /\ q.thread = r.thread
  BY <1>1, <1>2, <1>4
<1>8. \A r, q \in Asked' : r.id = q.id => r = q
  <2> SUFFICES ASSUME NEW q1 \in Asked', NEW q2 \in Asked', q1.id = q2.id PROVE q1 = q2
    OBVIOUS
  <2>1. PICK r1 \in Asked :
         q1.id = r1.id /\ ((q1 = After(r1) /\ r1 \in connects) \/ (q1 = r1 /\ r1 \notin connects))
    BY <1>6
  <2>2. PICK r2 \in Asked :
         q2.id = r2.id /\ ((q2 = After(r2) /\ r2 \in connects) \/ (q2 = r2 /\ r2 \notin connects))
    BY <1>6
  <2>3. r1 = r2
    BY <2>1, <2>2 DEF OneOfEach
  <2> QED BY <2>1, <2>2, <2>3
<1>9. OneOfEach'
  BY <1>3, <1>5, <1>8 DEF OneOfEach
<1>10. \A t \in Threads : CallerAsked(t)'
  BY <1>7 DEF Owed, CallerAsked
<1>11. \A i \in DOMAIN called' \ lost' : CallbackOwed(i)'
  BY <1>6, <1>7 DEF Owed, CallbackOwed
<1> QED BY <1>9, <1>10, <1>11 DEF Owed

\* A request that is made goes into one list, under a new token.
LEMMA InstallOne ==
    ASSUME Typed, OneOfEach, nextToken <= MaxRequests,
           NEW t \in Threads \cup {NoThread}, Install(t)
    PROVE  /\ OneOfEach'
           /\ \E r : r.id = nextToken /\ r.thread = t /\ Asked' = Asked \cup {r}
<1>1. PICK r \in Requests :
                /\ r.id = nextToken /\ r.thread = t
                /\ \/ workers' = workers \cup {r} /\ UNCHANGED <<polls, connects>>
                   \/ polls' = polls \cup {r} /\ UNCHANGED <<workers, connects>>
                   \/ connects' = connects \cup {r} /\ UNCHANGED <<workers, polls>>
  BY InstallAdds
<1>2. completed' = completed /\ LookedUp' = LookedUp
  BY InstallAdds DEF LookedUp
<1>3. \A q \in Asked : q.id < nextToken
  BY DEF Typed, RequestsMade, Asked, LookedUp
<1>4. nextToken \in Nat
  BY NetConstants DEF Typed, TokensTyped
<1>5. \A q \in Asked : q.id # r.id
  BY <1>1, <1>3, <1>4
<1>6. Asked' = Asked \cup {r}
  BY <1>1, <1>2 DEF Asked
<1>7. OneOfEach'
  BY <1>1, <1>2, <1>5, <1>6 DEF OneOfEach, Asked
<1> QED BY <1>1, <1>6, <1>7

\* What the callers have asked, when a request is made or refused.
LEMMA AnswersStart ==
    ASSUME AnswersInv,
           StartAsync \/ \E t \in Threads : StartSync(t) \/ LaunchFails(t)
    PROVE  OneOfEach' /\ Owed'
<1>0. /\ Typed /\ OneOfEach /\ Owed /\ nextToken \in Nat
      /\ thread \in [Threads -> ThreadRecord]
      /\ \A q \in Asked : q.id < nextToken
  BY NetConstants DEF AnswersInv, Typed, TokensTyped, WaitersInv, RequestsMade, Asked, LookedUp
<1>1. ASSUME StartAsync PROVE OneOfEach' /\ Owed'
  <2>1. /\ nextToken <= MaxRequests /\ UNCHANGED <<thread, lost>>
    BY <1>1 DEF StartAsync
  <2>2. nextToken \notin DOMAIN called
    BY <1>0 DEF Typed, AnswersTyped
  <2>3. CASE Install(NoThread) /\ called' = CalledSoFar(0)
    <3>1. OneOfEach'
      BY <1>0, <2>1, <2>3, InstallOne
    <3>2. PICK r : r.id = nextToken /\ r.thread = NoThread /\ Asked' = Asked \cup {r}
      BY <1>0, <2>1, <2>3, InstallOne
    <3>3. \A u \in Threads : CallerAsked(u)'
      BY <1>0, <2>1, <3>2 DEF Owed, CallerAsked
    <3>4. ASSUME NEW i \in DOMAIN called' \ lost' PROVE CallbackOwed(i)'
      <4>1. CASE i = nextToken
        BY <2>3, <3>2, <4>1 DEF CalledSoFar, CallbackOwed
      <4>2. CASE i # nextToken
        <5>1. i \in DOMAIN called \ lost /\ called'[i] = called[i]
          BY <2>1, <2>3, <3>4, <4>2 DEF CalledSoFar
        <5> QED BY <1>0, <3>2, <4>2, <5>1 DEF Owed, CallbackOwed
      <4> QED BY <4>1, <4>2
    <3> QED BY <3>1, <3>3, <3>4 DEF Owed
  <2>4. CASE called' = CalledSoFar(1) /\ UNCHANGED <<sockets, pending>>
    <3>1. OneOfEach' /\ Asked' = Asked
      BY <1>0, <2>4 DEF OneOfEach, Asked, LookedUp, pending
    <3>2. \A u \in Threads : CallerAsked(u)'
      BY <1>0, <2>1, <3>1 DEF Owed, CallerAsked
    <3>3. ASSUME NEW i \in DOMAIN called' \ lost' PROVE CallbackOwed(i)'
      <4>1. CASE i = nextToken
        <5>1. called'[i] = 1
          BY <2>4, <4>1 DEF CalledSoFar
        <5>2. \A r \in Asked : r.id # i
          BY <1>0, <4>1
        <5> QED BY <3>1, <5>1, <5>2 DEF CallbackOwed
      <4>2. CASE i # nextToken
        <5>1. i \in DOMAIN called \ lost /\ called'[i] = called[i]
          BY <2>1, <2>4, <3>3, <4>2 DEF CalledSoFar
        <5> QED BY <1>0, <3>1, <5>1 DEF Owed, CallbackOwed
      <4> QED BY <4>1, <4>2
    <3> QED BY <3>1, <3>2, <3>3 DEF Owed
  <2> QED BY <1>1, <2>3, <2>4 DEF StartAsync
<1>2. ASSUME NEW t \in Threads, StartSync(t) PROVE OneOfEach' /\ Owed'
  <2>1. nextToken <= MaxRequests /\ UNCHANGED <<called, lost>> /\ Install(t)
    BY <1>2 DEF StartSync
  <2>2. OneOfEach'
    BY <1>0, <2>1, InstallOne
  <2>3. PICK r : r.id = nextToken /\ r.thread = t /\ Asked' = Asked \cup {r}
    BY <1>0, <2>1, InstallOne
  <2>4. ASSUME NEW u \in Threads PROVE CallerAsked(u)'
    <3>1. CASE u = t /\ thread'[u].queued /\ thread'[u].token = nextToken
      BY <2>3, <3>1 DEF CallerAsked
    <3>2. CASE thread'[u].queued = thread[u].queued /\ thread'[u].token = thread[u].token
      <4>1. CallerAsked(u)
        BY <1>0 DEF Owed
      <4> QED BY <2>1, <2>3, <3>2, <4>1 DEF CallerAsked
    <3>3. \/ u = t /\ thread'[u].queued /\ thread'[u].token = nextToken
          \/ thread'[u].queued = thread[u].queued /\ thread'[u].token = thread[u].token
      <4>1. CASE thread' = [thread EXCEPT ![t] = [state |-> "waiting", queued |-> TRUE,
                                             cookie |-> nextToken, token |-> nextToken]]
        BY <1>0, <4>1
      <4>2. CASE thread' = [thread EXCEPT ![t].cookie = nextToken]
        BY <1>0, <4>2 DEF ThreadRecord
      <4> QED BY <1>2, <4>1, <4>2 DEF StartSync
    <3> QED BY <3>1, <3>2, <3>3
  <2>5. ASSUME NEW i \in DOMAIN called' \ lost' PROVE CallbackOwed(i)'
    <3>1. i \in DOMAIN called \ lost /\ called'[i] = called[i] /\ i # nextToken
      BY <1>0, <2>1 DEF Typed, AnswersTyped
    <3> QED BY <1>0, <2>3, <3>1 DEF Owed, CallbackOwed
  <2> QED BY <2>2, <2>4, <2>5 DEF Owed
<1>3. ASSUME NEW t \in Threads, LaunchFails(t) PROVE OneOfEach' /\ Owed'
  <2>1. UNCHANGED <<pending, called, lost>>
    BY <1>3 DEF LaunchFails
  <2>2. \A u \in Threads : thread'[u].queued = thread[u].queued /\ thread'[u].token = thread[u].token
    BY <1>0, <1>3 DEF LaunchFails, ThreadRecord
  <2> QED BY <1>0, <2>1, <2>2, QuietKeeps
<1> QED BY <1>1, <1>2, <1>3

\* Threads that end, wake or sleep elsewhere have no request on the way, and calls
\* on sockets abort connects or leave them.
LEMMA AnswersOthers ==
    ASSUME AnswersInv,
           \/ NewWiiSocket
           \/ \E f \in Fds : \/ DeleteWiiSocket(f) \/ Shutdown(f) \/ ReconnectWiiSocket(f)
                             \/ DirectConnect(f) \/ HostSettles(f)
           \/ \E t \in Threads : \/ TakeSyncResult(t) \/ Cancel(t) \/ Recreate(t)
                                 \/ SleepElsewhere(t) \/ WokenElsewhere(t)
    PROVE  OneOfEach' /\ Owed'
<1>0. Typed /\ OneOfEach /\ Owed /\ thread \in [Threads -> ThreadRecord]
  BY DEF AnswersInv, WaitersInv
<1>1. CASE NewWiiSocket \/ \E f \in Fds : ReconnectWiiSocket(f) \/ DirectConnect(f) \/ HostSettles(f)
  BY <1>0, <1>1, QuietKeeps DEF NewWiiSocket, ReconnectWiiSocket, DirectConnect, HostSettles, guest
<1>2. ASSUME NEW f \in Fds, DeleteWiiSocket(f) \/ Shutdown(f) PROVE OneOfEach' /\ Owed'
  BY <1>0, <1>2, AbortKeeps DEF DeleteWiiSocket, Shutdown, guest
<1>3. ASSUME NEW t \in Threads,
             \/ TakeSyncResult(t) \/ Cancel(t) \/ Recreate(t)
             \/ SleepElsewhere(t) \/ WokenElsewhere(t)
      PROVE  OneOfEach' /\ Owed'
  <2>1. UNCHANGED <<pending, called, lost>>
    BY <1>3 DEF TakeSyncResult, Cancel, Recreate, SleepElsewhere, WokenElsewhere
  <2>2. \A u \in Threads : thread'[u].queued =>
            thread[u].queued /\ thread'[u].token = thread[u].token
    <3>1. CASE TakeSyncResult(t)
      <4>1. ~thread[t].queued
        BY <3>1 DEF TakeSyncResult, AnswersInv, WaitersInv, Waiter
      <4> QED BY <1>0, <3>1, <4>1 DEF TakeSyncResult, ThreadRecord
    <3>2. CASE Cancel(t)
      BY <1>0, <3>2 DEF Cancel, ThreadRecord
    <3>3. CASE Recreate(t) \/ SleepElsewhere(t) \/ WokenElsewhere(t)
      BY <1>0, <3>3 DEF Recreate, SleepElsewhere, WokenElsewhere, ThreadRecord
    <3> QED BY <1>3, <3>1, <3>2, <3>3
  <2> QED BY <1>0, <2>1, <2>2, QuietKeeps
<1> QED BY <1>1, <1>2, <1>3

\* A lookup moves from the worker to the list of results, or is lost.
LEMMA AnswersWorker ==
    ASSUME AnswersInv, NEW r \in workers, RunWorker(r)
    PROVE  OneOfEach' /\ Owed'
<1>0. Typed /\ OneOfEach /\ Owed /\ r \in Asked /\ r \notin LookedUp
  BY DEF AnswersInv, OneOfEach, Asked
<1>1. workers' = workers \ {r} /\ UNCHANGED <<thread, called, polls, connects>>
  BY DEF RunWorker, guest
<1>2. CASE Publish(r)
  <2>1. PICK new : completed' = completed \cup {new} /\ new.request = r
    <3>1. PICK result \in Results :
            completed' = completed \cup {[request |-> r, result |-> result]}
      BY <1>2 DEF Publish
    <3>2. [request |-> r, result |-> result].request = r
      OBVIOUS
    <3> QED BY <3>1, <3>2
  <2>2. LookedUp' = LookedUp \cup {r}
    BY <2>1 DEF LookedUp
  <2>3. Asked' = Asked
    BY <1>0, <1>1, <2>2 DEF Asked
  <2>4. lost' = lost
    BY <1>2 DEF Publish
  <2>5. \A c, d \in completed' : c.request = d.request => c = d
    BY <1>0, <2>1 DEF OneOfEach, LookedUp
  <2>6. OneOfEach'
    BY <1>0, <1>1, <2>2, <2>3, <2>5 DEF OneOfEach
  <2>7. Owed'
    BY <1>0, <1>1, <2>3, <2>4 DEF Owed, CallerAsked, CallbackOwed
  <2> QED BY <2>6, <2>7
<1>3. CASE PublishFails(r)
  <2>1. completed' = completed /\ lost' = lost \cup {r.id} /\ LookedUp' = LookedUp
    BY <1>3 DEF PublishFails, LookedUp
  <2>2. Asked' = Asked \ {r}
    BY <1>0, <1>1, <2>1 DEF Asked, OneOfEach
  <2>3. OneOfEach'
    BY <1>0, <1>1, <2>1, <2>2 DEF OneOfEach
  <2>4. \A t \in Threads : CallerAsked(t)'
    BY <1>0, <1>1, <2>1, <2>2 DEF Owed, CallerAsked
  <2>5. \A i \in DOMAIN called' \ lost' : CallbackOwed(i)'
    BY <1>0, <1>1, <2>1, <2>2 DEF Owed, CallbackOwed
  <2> QED BY <2>3, <2>4, <2>5 DEF Owed
<1> QED BY <1>2, <1>3 DEF RunWorker

\* The pump answers a request and takes it out of its list in one step.
LEMMA AnswersPump ==
    ASSUME AnswersInv, NEW late, ProcessCompletions(late)
    PROVE  OneOfEach' /\ Owed'
<1>0. Typed /\ WaitersInv /\ OneOfEach /\ Owed
  BY DEF AnswersInv
<1>1. PICK a : Answers(a)
  BY <1>0, PumpAnswers
<1>2. workers' = workers /\ lost' = lost
  BY <1>0, PumpAnswers
<1>3. LookedUp' = {} /\ polls' \subseteq polls /\ connects' \subseteq connects
  BY <1>1 DEF Answers, LookedUp
<1>4. Asked' \subseteq Asked /\ Asked' \cap DOMAIN a = {}
  <2>1. Asked' \subseteq workers \cup polls \cup connects
    BY <1>2, <1>3 DEF Asked
  <2>2. \A r \in polls' \cup connects' : r \notin DOMAIN a
    BY <1>0, <1>1, <1>3 DEF Answers, OneOfEach
  <2>3. \A r \in workers : r \notin DOMAIN a
    BY <1>0, <1>1 DEF Answers, OneOfEach
  <2> QED BY <1>2, <1>3, <2>1, <2>2, <2>3 DEF Asked
<1>5. \A r \in Asked : ~Dropped(r) /\ r \notin DOMAIN a => r \in Asked'
  BY <1>1, <1>2 DEF Answers, Asked
<1>6. OneOfEach'
  BY <1>0, <1>1, <1>2, <1>3, <1>4 DEF OneOfEach, Answers
<1>7. ASSUME NEW t \in Threads PROVE CallerAsked(t)'
  <2> DEFINE Woken(u) == \E q \in {p \in DOMAIN a : p.thread # NoThread} : q.thread = u
  <2>1. /\ Woken(t) => ~thread'[t].queued
        /\ ~Woken(t) => thread'[t] = thread[t]
    <3>1. thread' = [u \in Threads |->
                       IF Woken(u)
                       THEN [thread[u] EXCEPT !.state = "awake", !.queued = FALSE]
                       ELSE thread[u]]
      BY <1>1 DEF Answers, DeliverTo
    <3>2. thread[t] \in ThreadRecord
      BY <1>0 DEF WaitersInv
    <3> HIDE DEF Woken
    <3> QED BY <3>1, <3>2 DEF ThreadRecord
  <2>2. SUFFICES ASSUME ~Woken(t), thread[t].queued, thread[t].token \notin lost
                 PROVE  \E r \in Asked' : r.id = thread[t].token /\ r.thread = t
    BY <1>2, <2>1 DEF CallerAsked
  <2>3. PICK r \in Asked : r.id = thread[t].token /\ r.thread = t
    BY <1>0, <2>2 DEF Owed, CallerAsked
  <2>4. ~Dropped(r)
    BY <1>0, <2>2, <2>3 DEF WaitersInv, Waiter, Dropped, WaiterIsValid
  <2>5. r \notin DOMAIN a
    BY <2>2, <2>3, NetConstants
  <2> QED BY <1>5, <2>3, <2>4, <2>5
<1>8. ASSUME NEW i \in DOMAIN called' \ lost' PROVE CallbackOwed(i)'
  <2> DEFINE callbacks == {r.id : r \in DOMAIN a \ {p \in DOMAIN a : p.thread # NoThread}}
  <2>1. /\ i \in DOMAIN called \ lost
        /\ called'[i] = IF i \in callbacks THEN called[i] + 1 ELSE called[i]
    BY <1>1, <1>2, <1>8 DEF Answers, DeliverTo
  <2>2. CallbackOwed(i)
    BY <1>0, <2>1 DEF Owed
  <2>3. DOMAIN a \subseteq Asked
    BY <1>1 DEF Answers, Asked
  <2>4. CASE called[i] = 1 /\ \A r \in Asked : r.id # i
    <3>1. i \notin callbacks
      BY <2>3, <2>4
    <3> QED BY <1>4, <2>1, <2>4, <3>1 DEF CallbackOwed
  <2>5. ASSUME called[i] = 0, NEW r \in Asked, r.id = i, r.thread = NoThread
        PROVE  CallbackOwed(i)'
    <3>1. \A q \in Asked : q.id = i => q = r
      BY <1>0, <2>5 DEF OneOfEach
    <3>2. CASE r \in DOMAIN a
      <4>1. i \in callbacks
        BY <2>5, <3>2
      <4>2. \A q \in Asked' : q.id # i
        BY <1>4, <3>1, <3>2
      <4> QED BY <2>1, <2>5, <4>1, <4>2 DEF CallbackOwed
    <3>3. CASE r \notin DOMAIN a
      <4>1. i \notin callbacks
        BY <2>3, <3>1, <3>3
      <4>2. r \in Asked'
        BY <1>5, <2>5, <3>3 DEF Dropped
      <4> QED BY <2>1, <2>5, <4>1, <4>2 DEF CallbackOwed
    <3> QED BY <3>2, <3>3
  <2> QED BY <2>2, <2>4, <2>5 DEF CallbackOwed
<1> QED BY <1>6, <1>7, <1>8 DEF Owed

\* Every step keeps one answer for each request.
LEMMA AnswersStep == ASSUME AnswersInv, [Next]_vars PROVE AnswersInv'
<1>1. Typed' /\ WaitersInv'
  BY TypedStep, WaitersStep DEF AnswersInv
<1>2. ASSUME UNCHANGED vars PROVE OneOfEach' /\ Owed'
  <2>1. UNCHANGED <<thread, pending, called, lost>>
    BY <1>2 DEF vars, guest
  <2> QED BY <2>1, QuietKeeps DEF AnswersInv
<1>3. ASSUME Next PROVE OneOfEach' /\ Owed'
  <2>1. ASSUME NEW r \in workers, RunWorker(r) PROVE OneOfEach' /\ Owed'
    BY <2>1, AnswersWorker
  <2>2. ASSUME Pump PROVE OneOfEach' /\ Owed'
    BY <2>2, AnswersPump DEF Pump
  <2> QED BY <1>3, <2>1, <2>2, AnswersStart, AnswersOthers DEF Next
<1> QED BY <1>1, <1>2, <1>3 DEF AnswersInv

\* No request is forgotten or answered twice: until its answer, one whose caller
\* sleeps is in exactly one of the lists, and an asynchronous one ends in one
\* callback, however the calls, workers and pump interleave.
THEOREM AnsweredOnce == Spec => []OneAnswerPerRequest
<1> QED BY AnswersInit, AnswersStep, AnswersImplies, PTL DEF Spec

\* Only the pump stores results, and for a connect that is still in its list the
\* answer under its token is its own.
LEMMA ConnectedStep ==
    ASSUME AnswersInv, [Next]_vars, NEW r \in connects,
           r.id \in DOMAIN syncResults' \ DOMAIN syncResults, syncResults'[r.id] = "ok"
    PROVE  IsCurrent(r)
<1>0. Typed /\ OneOfEach
  BY DEF AnswersInv
<1>1. PICK late : ProcessCompletions(late)
  BY DEF Next, Pump, vars, guest, NewWiiSocket, DeleteWiiSocket, Shutdown, ReconnectWiiSocket,
         DirectConnect, HostSettles, StartSync, LaunchFails, TakeSyncResult, Cancel, Recreate,
         SleepElsewhere, WokenElsewhere, StartAsync, RunWorker
<1>2. PICK a : Answers(a)
  BY <1>0, <1>1, PumpAnswers
<1> DEFINE sync == {q \in DOMAIN a : q.thread # NoThread}
           tokens == {q.id : q \in sync}
           ByToken(k) == CHOOSE q \in sync : q.id = k
<1>3. syncResults' = [k \in DOMAIN syncResults \cup tokens |->
                            IF k \in tokens THEN a[ByToken(k)] ELSE syncResults[k]]
  BY <1>2 DEF Answers, DeliverTo
<1>4. r.id \in tokens /\ a[ByToken(r.id)] = "ok"
  <2> HIDE DEF tokens, ByToken
  <2> QED BY <1>3
<1>5. ByToken(r.id) \in sync /\ ByToken(r.id).id = r.id
  BY <1>4
<1>6. ByToken(r.id) \in Asked /\ r \in Asked
  BY <1>2, <1>5 DEF Answers, Asked
<1>7. ByToken(r.id) = r
  BY <1>0, <1>5, <1>6 DEF OneOfEach
<1>8. r \in DOMAIN a /\ a[r] = "ok" /\ r \notin LookedUp
  BY <1>0, <1>4, <1>5, <1>7 DEF OneOfEach
<1>9. PICK isLate \in BOOLEAN : "ok" \in Probe(r, isLate)
  BY <1>2, <1>8 DEF Answers
<1>10. r.kind = "connect"
  BY <1>0 DEF Typed, ListsTyped, ConnectRequests
<1>11. PICK result : "ok" = Recheck(r, result)
  BY <1>9, <1>10 DEF Probe
<1> QED BY <1>11 DEF Recheck

\* A connect is reported as made only while the socket it was made on is open
\* under its descriptor, never for the socket that has taken it over.
THEOREM ConnectReportsItsSocket == Spec => ConnectedIsCurrent
<1>1. ASSUME AnswersInv, [Next]_vars
      PROVE  [\A r \in connects :
                /\ r.id \in DOMAIN syncResults' \ DOMAIN syncResults
                /\ syncResults'[r.id] = "ok"
                => IsCurrent(r)]_vars
  BY <1>1, ConnectedStep
<1> QED BY <1>1, AnswersInit, AnswersStep, PTL DEF Spec, ConnectedIsCurrent

=============================================================================
