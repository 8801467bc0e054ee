---------------------------- MODULE NetDeferred ----------------------------
(***************************************************************************)
(* Network requests that would block the host thread (hle/net/             *)
(* network_deferred.cpp): name lookups on detached workers, polls and      *)
(* blocking connects that the completion pump probes.  A synchronous       *)
(* caller sleeps on a queue in a frame of its own stack and takes its      *)
(* result by token; an asynchronous one gets a callback.  Threads end and  *)
(* are created again on the same stack, and sockets close and reopen under *)
(* the same descriptor, while requests are on their way.                   *)
(*                                                                         *)
(* The pump, the entries and the socket calls run on the scheduler's host  *)
(* thread and do not switch inside, so each is one step; workers, the host *)
(* network and the clock take steps between them.                          *)
(***************************************************************************)
EXTENDS Integers, FiniteSets, TLC

CONSTANTS
    Threads,      \* guest threads; each sleeps in one frame of its stack
    NumFds,       \* kWiiSocketMax
    MaxRequests,  \* bound: requests ever made
    MaxSockets,   \* bound: socket generations ever given out
    NoThread,     \* the caller of an asynchronous request
    NotSet        \* an initialResult that is not set

ASSUME NetConstants ==
    /\ NoThread \notin Threads
    /\ {NumFds, MaxRequests, MaxSockets} \subseteq Nat \ {0}

Fds == 0 .. NumFds - 1
Generations == 1 .. MaxSockets

\* A result is good (also that of a poll that timed out) or one of the errors.
Results == {"ok", "error"}

\* What has been copied into a request; `id' is its place in the order of
\* requests, which for a synchronous one is also its token.
Requests == [id : 1 .. MaxRequests, kind : {"dns", "poll", "connect"},
             thread : Threads \cup {NoThread}, fd : Fds,
             generation : Generations \cup {0}, infinite : BOOLEAN,
             initialResult : Results \cup {NotSet}]

VARIABLES
    thread,     \* state, queue link and cookie of each thread, and the token it waits for
    sockets,    \* g_sockets, with what the host knows of the native socket
    nextGen,    \* g_nextSocketGeneration
    nextToken,  \* the store's nextToken
    workers,    \* lookups that a worker is resolving
    completed,  \* lookups that a worker has published, with their results
    polls,      \* pendingPolls
    connects,   \* pendingConnects
    syncResults, \* results by token
    called,     \* callbacks queued so far, for each asynchronous request
    lost        \* lookups whose two publications both failed

pending == <<workers, completed, polls, connects>>
guest == <<thread, syncResults, called>>
vars == <<guest, sockets, nextGen, nextToken, pending, lost>>

Closed == [generation |-> 0, link |-> "down", peer |-> FALSE]

TypeOK ==
    /\ thread \in [Threads -> [state : {"awake", "waiting", "dead"}, queued : BOOLEAN,
                               cookie : 0 .. MaxRequests, token : 0 .. MaxRequests]]
    /\ sockets \in [Fds -> [generation : Generations \cup {0},
                            link : {"down", "inflight", "up"}, peer : BOOLEAN]]
    /\ nextGen \in 1 .. MaxSockets + 1
    /\ nextToken \in 1 .. MaxRequests + 1
    /\ workers \in SUBSET Requests
    /\ \A c \in completed : c.request \in Requests /\ c.result \in Results
    /\ polls \in SUBSET Requests
    /\ connects \in SUBSET {r \in Requests : r.kind = "connect" /\ r.generation # 0}
    /\ DOMAIN syncResults \subseteq 1 .. nextToken - 1
    /\ \A k \in DOMAIN syncResults : syncResults[k] \in Results
    /\ DOMAIN called \subseteq 1 .. nextToken - 1
    /\ \A i \in DOMAIN called : called[i] \in Nat
    /\ lost \subseteq 1 .. MaxRequests

Init ==
    /\ thread = [t \in Threads |->
                   [state |-> "awake", queued |-> FALSE, cookie |-> 0, token |-> 0]]
    /\ sockets = [f \in Fds |-> Closed]
    /\ nextGen = 1
    /\ nextToken = 1
    /\ workers = {}
    /\ completed = {}
    /\ polls = {}
    /\ connects = {}
    /\ syncResults = [k \in {} |-> "ok"]
    /\ called = [i \in {} |-> 0]
    /\ lost = {}

-----------------------------------------------------------------------------
(* Sockets. *)

\* SocketIdentityIsCurrent: the slot is open and of the same generation.
IsCurrent(r) == r.generation # 0 /\ sockets[r.fd].generation = r.generation

FirstFree(f) ==
    /\ sockets[f].generation = 0
    /\ \A g \in 0 .. f - 1 : sockets[g].generation # 0

\* SO_SOCKET of a stream.  With every slot taken it returns SO_EMFILE.
NewWiiSocket ==
    /\ nextGen <= MaxSockets
    /\ \E f \in Fds :
         /\ FirstFree(f)
         /\ sockets' = [sockets EXCEPT ![f] = [Closed EXCEPT !.generation = nextGen]]
    /\ nextGen' = nextGen + 1
    /\ UNCHANGED <<guest, nextToken, pending, lost>>

\* AbortPendingDeferredConnects answers the connects that have no answer yet.
Aborted(f) ==
    {IF r.fd = f /\ r.initialResult = NotSet THEN [r EXCEPT !.initialResult = "error"] ELSE r
        : r \in connects}

DeleteWiiSocket(f) ==
    /\ sockets[f].generation # 0
    /\ sockets' = [sockets EXCEPT ![f] = Closed]
    /\ connects' = Aborted(f)
    /\ UNCHANGED <<guest, nextGen, nextToken, workers, completed, polls, lost>>

\* SO_SHUTDOWN of the write half.  The host may end a connect in flight.
Shutdown(f) ==
    /\ sockets[f].generation # 0
    /\ connects' = Aborted(f)
    /\ \E l \in {sockets[f].link, "down"} : sockets' = [sockets EXCEPT ![f].link = l]
    /\ UNCHANGED <<guest, nextGen, nextToken, workers, completed, polls, lost>>

\* SSL_CONNECT moves a connected socket to a new native one.
ReconnectWiiSocket(f) ==
    /\ sockets[f].generation # 0
    /\ sockets[f].peer
    /\ nextGen <= MaxSockets
    /\ sockets' = [sockets EXCEPT ![f] = [generation |-> nextGen, link |-> "up", peer |-> TRUE]]
    /\ nextGen' = nextGen + 1
    /\ UNCHANGED <<guest, nextToken, pending, lost>>

\* connect() on the retained nonblocking host socket: the link after it, and
\* its answer, NotSet while in flight.
HostConnect(link) ==
    CASE link = "up" -> {[link |-> "up", result |-> "ok"]}
      [] link = "inflight" -> {[link |-> "inflight", result |-> NotSet]}
      [] OTHER -> {[link |-> "up", result |-> "ok"],
                   [link |-> "inflight", result |-> NotSet],
                   [link |-> "down", result |-> "error"]}

\* SO_CONNECT on a socket the guest made nonblocking does not defer.  The
\* guest may set and clear that flag at any time, so it is not kept.
DirectConnect(f) ==
    /\ sockets[f].generation # 0
    /\ \E c \in HostConnect(sockets[f].link) :
         sockets' = [sockets EXCEPT ![f].link = c.link, ![f].peer = @ \/ c.result = "ok"]
    /\ UNCHANGED <<guest, nextGen, nextToken, pending, lost>>

\* The host network settles a connect.
HostSettles(f) ==
    /\ sockets[f].link = "inflight"
    /\ \E l \in {"up", "down"} : sockets' = [sockets EXCEPT ![f].link = l]
    /\ UNCHANGED <<guest, nextGen, nextToken, pending, lost>>

-----------------------------------------------------------------------------
(* Submission. *)

Request(t, kind, f, infinite, initial) ==
    [id |-> nextToken, kind |-> kind, thread |-> t, fd |-> f,
     generation |-> IF kind = "dns" THEN 0 ELSE sockets[f].generation,
     infinite |-> infinite, initialResult |-> initial]

InstallDeferredDns(t) ==
    /\ workers' = workers \cup {Request(t, "dns", 0, FALSE, NotSet)}
    /\ UNCHANGED <<sockets, completed, polls, connects>>

\* CopyPollDescriptors copies a closed descriptor too, without a generation.
InstallDeferredPoll(t) ==
    /\ \E f \in Fds, infinite \in BOOLEAN :
         polls' = polls \cup {Request(t, "poll", f, infinite, NotSet)}
    /\ UNCHANGED <<sockets, workers, completed, connects>>

InstallDeferredConnect_AnyDescriptor(t) ==
    /\ \E f \in Fds, c \in HostConnect("down") :
         connects' = connects \cup {Request(t, "connect", f, FALSE, c.result)}
    /\ UNCHANGED <<sockets, workers, completed, polls>>

\* GetWiiSocket refuses a closed descriptor with SO_EBADF.
InstallDeferredConnect(t) ==
    /\ \E f \in Fds :
         /\ sockets[f].generation # 0
         /\ \E c \in HostConnect(sockets[f].link) :
              /\ sockets' = [sockets EXCEPT ![f].link = c.link]
              /\ connects' = connects \cup {Request(t, "connect", f, FALSE, c.result)}
    /\ UNCHANGED <<workers, completed, polls>>

Install(t) ==
    InstallDeferredDns(t) \/ InstallDeferredPoll(t) \/ InstallDeferredConnect(t)

Idle(t) == thread[t].state = "awake" /\ thread[t].token = 0

\* TryDeferredNetworkIosSync: the queue of the frame is empty and carries the
\* token as its cookie, and the thread sleeps on it.  With the scheduler
\* disabled OSSleepThread returns at once and the call fails without a result.
StartSync(t) ==
    /\ Idle(t)
    /\ nextToken <= MaxRequests
    /\ Install(t)
    /\ \/ thread' = [thread EXCEPT ![t] = [state |-> "waiting", queued |-> TRUE,
                                           cookie |-> nextToken, token |-> nextToken]]
       \/ thread' = [thread EXCEPT ![t].cookie = nextToken]
    /\ nextToken' = nextToken + 1
    /\ UNCHANGED <<nextGen, syncResults, called, lost>>

\* std::thread may fail: the caller gets its error at once.
LaunchFails(t) ==
    /\ Idle(t)
    /\ nextToken <= MaxRequests
    /\ thread' = [thread EXCEPT ![t].cookie = nextToken]
    /\ nextToken' = nextToken + 1
    /\ UNCHANGED <<nextGen, sockets, pending, syncResults, called, lost>>

\* The callbacks queued so far, n of them for the request that is made now.
CalledSoFar(n) ==
    [i \in DOMAIN called \cup {nextToken} |-> IF i = nextToken THEN n ELSE called[i]]

\* An error is known at once or a callback follows; IOS_IoctlAsync queues the
\* callback of an error itself.
StartAsync ==
    /\ nextToken <= MaxRequests
    /\ \/ Install(NoThread) /\ called' = CalledSoFar(0)
       \/ called' = CalledSoFar(1) /\ UNCHANGED <<sockets, pending>>
    /\ nextToken' = nextToken + 1
    /\ UNCHANGED <<thread, nextGen, syncResults, lost>>

\* FinishDeferredIosWait: the thread runs again and takes its result.
TakeSyncResult(t) ==
    /\ thread[t].state = "awake"
    /\ thread[t].token # 0
    /\ syncResults' = [k \in DOMAIN syncResults \ {thread[t].token} |-> syncResults[k]]
    /\ thread' = [thread EXCEPT ![t].token = 0]
    /\ UNCHANGED <<sockets, nextGen, nextToken, pending, called, lost>>

\* A thread is cancelled where it sleeps, or after it was woken and before it
\* ran.  Its stack keeps the cookie.
Cancel(t) ==
    /\ thread[t].state # "dead"
    /\ thread' = [thread EXCEPT ![t].state = "dead", ![t].queued = FALSE, ![t].token = 0]
    /\ UNCHANGED <<sockets, nextGen, nextToken, pending, syncResults, called, lost>>

Recreate(t) ==
    /\ thread[t].state = "dead"
    /\ thread' = [thread EXCEPT ![t].state = "awake"]
    /\ UNCHANGED <<sockets, nextGen, nextToken, pending, syncResults, called, lost>>

\* The thread sleeps on another queue of the guest, and is woken there.
SleepElsewhere(t) ==
    /\ Idle(t)
    /\ thread' = [thread EXCEPT ![t].state = "waiting"]
    /\ UNCHANGED <<sockets, nextGen, nextToken, pending, syncResults, called, lost>>

WokenElsewhere(t) ==
    /\ thread[t].state = "waiting"
    /\ ~thread[t].queued
    /\ thread' = [thread EXCEPT ![t].state = "awake"]
    /\ UNCHANGED <<sockets, nextGen, nextToken, pending, syncResults, called, lost>>

-----------------------------------------------------------------------------
(* The workers. *)

\* RunWorker: the resolver's result is published, or one failure when the
\* resolver or the publication throws.
Publish(r) ==
    /\ \E result \in Results :
         completed' = completed \cup {[request |-> r, result |-> result]}
    /\ UNCHANGED lost

\* The second publication throws as well.
PublishFails(r) ==
    /\ lost' = lost \cup {r.id}
    /\ UNCHANGED completed

RunWorker(r) ==
    /\ workers' = workers \ {r}
    /\ Publish(r) \/ PublishFails(r)
    /\ UNCHANGED <<guest, sockets, nextGen, nextToken, polls, connects>>

-----------------------------------------------------------------------------
(* The completion pump. *)

\* DeferredNetworkWaiterIsValid
WaiterIsValid_IgnoresCookie(r) ==
    thread[r.thread].state = "waiting" /\ thread[r.thread].queued

WaiterIsValid(r) ==
    /\ thread[r.thread].state = "waiting"
    /\ thread[r.thread].queued
    /\ thread[r.thread].cookie = r.id

\* A request whose caller has gone is dropped without an answer.
Dropped_AsyncToo(r) == r.thread = NoThread \/ ~WaiterIsValid(r)
Dropped(r) == r.thread # NoThread /\ ~WaiterIsValid(r)

\* ProbeDeferredPoll: a descriptor that is not current counts as ready; else
\* the host decides, and only a poll without events stays pending or times out.
ProbePoll_SkipsClosed(r, isLate) ==
    IF isLate THEN Results ELSE IF IsCurrent(r) THEN Results \cup {NotSet} ELSE {NotSet}

ProbePoll(r, isLate) ==
    CASE ~IsCurrent(r) -> {"ok"}
      [] IsCurrent(r) /\ isLate -> Results
      [] OTHER -> Results \cup {NotSet}

\* ProbeDeferredConnect, in the order of ClassifyProbe: a probe that fails
\* is an error, readiness wins at the deadline.
ProbeConnect(r, isLate) ==
    IF r.initialResult # NotSet THEN {r.initialResult}
    ELSE IF ~IsCurrent(r) THEN {"error"}
    ELSE CASE sockets[r.fd].link = "up" -> Results
           [] sockets[r.fd].link = "down" -> {"error"}
           [] sockets[r.fd].link = "inflight" -> IF isLate THEN {"error"} ELSE {"error", NotSet}

\* A connect that succeeded is reported only for the socket it was made on.
Recheck_Forgotten(r, result) == result
Recheck(r, result) == IF result = "ok" /\ ~IsCurrent(r) THEN "error" ELSE result

Probe(r, isLate) ==
    IF r.kind = "poll" THEN ProbePoll(r, isLate)
    ELSE {Recheck(r, result) : result \in ProbeConnect(r, isLate)}

\* DeliverDeferredNetworkResult for the requests of `answer': results are
\* stored and their threads made ready, or callbacks are queued.
DeliverTo(answer) ==
    LET sync == {r \in DOMAIN answer : r.thread # NoThread}
        ByToken(k) == CHOOSE r \in sync : r.id = k
        tokens == {r.id : r \in sync}
        callbacks == {r.id : r \in DOMAIN answer \ sync}
    IN /\ syncResults' = [k \in DOMAIN syncResults \cup tokens |->
                            IF k \in tokens THEN answer[ByToken(k)] ELSE syncResults[k]]
       /\ thread' = [t \in Threads |->
                       IF \E r \in sync : r.thread = t
                       THEN [thread[t] EXCEPT !.state = "awake", !.queued = FALSE]
                       ELSE thread[t]]
       /\ called' = [i \in DOMAIN called |->
                       IF i \in callbacks THEN called[i] + 1 ELSE called[i]]

\* Network_HLE_ProcessCompletions at a moment when the deadlines of `late'
\* have passed.
ProcessCompletions(late) ==
    LET answered == {c \in completed : ~Dropped(c.request)}
        lookups == {c.request : c \in answered}
        live == {r \in polls \cup connects : ~Dropped(r)}
    IN \E verdict \in [live -> Results \cup {NotSet}] :
         LET settled == {r \in live : verdict[r] # NotSet}
             connected == {r.fd : r \in {c \in settled \cap connects : verdict[c] = "ok"}}
         IN /\ \A r \in live : verdict[r] \in Probe(r, r \in late)
            /\ DeliverTo([r \in settled \cup lookups |->
                            IF r \in settled THEN verdict[r]
                            ELSE (CHOOSE c \in answered : c.request = r).result])
            /\ sockets' = [f \in Fds |-> [sockets[f] EXCEPT !.peer = @ \/ f \in connected]]
            /\ completed' = {}
            /\ polls' = (polls \cap live) \ settled
            /\ connects' = (connects \cap live) \ settled
            /\ UNCHANGED <<nextGen, nextToken, workers, lost>>

Finite == {r \in polls \cup connects : ~r.infinite}

\* Before its deadline a request may get every answer it may get after it.
Pump == \E late \in {{}, Finite} : ProcessCompletions(late)

Next ==
    \/ NewWiiSocket
    \/ \E f \in Fds : \/ DeleteWiiSocket(f) \/ Shutdown(f) \/ ReconnectWiiSocket(f) \/ DirectConnect(f) \/ HostSettles(f)
    \/ \E t \in Threads : \/ StartSync(t) \/ LaunchFails(t) \/ TakeSyncResult(t)
                          \/ Cancel(t) \/ Recreate(t)
                          \/ SleepElsewhere(t) \/ WokenElsewhere(t)
    \/ StartAsync
    \/ \E r \in workers : RunWorker(r)
    \/ Pump

\* A worker ends, and the idle loop and the retrace pump go on until the
\* deadlines of the requests have passed.  Nothing is assumed of the host
\* network or the guest.
Fairness ==
    /\ WF_vars(\E r \in workers : RunWorker(r))
    /\ WF_vars(ProcessCompletions(Finite))

Spec == Init /\ [][Next]_vars /\ Fairness

-----------------------------------------------------------------------------
(* Properties. *)

\* A thread that was woken in a request finds the result of that request,
\* however many requests of earlier threads with its stack are still on
\* their way: the wait never ends in `resumed without result'.
WokenHasItsResult ==
    \A t \in Threads :
        thread[t].state = "awake" /\ thread[t].token # 0 => thread[t].token \in DOMAIN syncResults

Outstanding(i) ==
    Cardinality({r \in workers : r.id = i}) + Cardinality({c \in completed : c.request.id = i})
        + Cardinality({r \in polls \cup connects : r.id = i})

\* No request is forgotten or answered twice: until its answer an
\* asynchronous request and one whose caller sleeps are in exactly one of the
\* lists, and an asynchronous request ends in one callback.
OneAnswerPerRequest ==
    /\ \A t \in Threads :
         thread[t].state = "waiting" /\ thread[t].queued /\ thread[t].token \notin lost
            => Outstanding(thread[t].token) = 1
    /\ \A i \in DOMAIN called \ lost : Outstanding(i) + called[i] = 1

\* A connect is reported as made only while the socket it was made on is open
\* under its descriptor: not after a close, nor for the socket that reuses it.
ConnectedIsCurrent ==
    [][\A r \in connects :
          /\ r.id \in DOMAIN syncResults' \ DOMAIN syncResults
          /\ syncResults'[r.id] = "ok"
          => IsCurrent(r)]_vars

\* Whoever waits for the network is answered: a lookup when its worker
\* publishes, a connect at its deadline, and a poll without a deadline when
\* its socket closes or is replaced.
Answered ==
    \A i \in 1 .. MaxRequests :
        (\E t \in Threads : thread[t].token = i /\ thread[t].state = "waiting"
                              /\ ~\E r \in polls : r.id = i /\ r.infinite /\ IsCurrent(r))
            ~> (i \in lost \/ \A t \in Threads : thread[t].token = i => thread[t].state # "waiting")

=============================================================================
